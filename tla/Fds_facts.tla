------------------------------- MODULE Fds_facts -------------------------------
(***************************************************************************)
(* What the proofs about the flash records (module Fds) rest on: what its  *)
(* operators compute, what a page holds at every word, and what each       *)
(* command's handler makes of a state the invariant allows.                *)
(***************************************************************************)
EXTENDS Fds, WellFoundedInduction, TLAPS

\* A set of numbers that is not empty has a least one.
LEMMA Least ==
  ASSUME NEW S \in SUBSET Nat, S # {}
  PROVE  \E n \in S : \A m \in S : n <= m
<1> DEFINE R == OpToRel(<, Nat)
<1>1. \A m, n \in Nat : m < n => <<m, n>> \in R
  BY DEF OpToRel
<1>2. IsWellFoundedOn(R, Nat)
  BY NatLessThanWellFounded
<1> HIDE DEF R
<1>3. PICK n \in S : \A m \in S : ~ (<<m, n>> \in R)
  BY <1>2, WFMin
<1>4. ASSUME NEW m \in S
      PROVE  n <= m
  <2>1. m \in Nat /\ n \in Nat /\ ~ (m < n)
    BY <1>1, <1>3
  <2> QED
    BY <2>1
<1> QED
  BY <1>4

\* A set with 0 in it and, with a number, the next has every number.
LEMMA Induction ==
  ASSUME NEW S, 0 \in S, \A n \in Nat : n \in S => n + 1 \in S
  PROVE  \A n \in Nat : n \in S
<1> SUFFICES ASSUME NEW k \in Nat, k \notin S PROVE FALSE
  OBVIOUS
<1>1. Nat \ S \subseteq Nat /\ Nat \ S # {}
  OBVIOUS
<1>2. PICK n \in Nat \ S : \A m \in Nat \ S : n <= m
  BY <1>1, Least
<1>3. n # 0 /\ n - 1 \in Nat /\ ~ (n <= n - 1)
  BY <1>2
<1>4. n - 1 \in S
  BY <1>2, <1>3
<1> QED
  BY <1>2, <1>3, <1>4

\* A function that looks further on, up to n.
CanLook(n, V, base, next, B) ==
  /\ n \in Nat /\ base \in [Nat -> V]
  /\ \A i \in Nat : i < n => next[i] \in Nat /\ next[i] > i
  /\ \A i \in Nat, v \in V : i < n => B[i][v] \in V
Looks(f, n, V, base, next, B) ==
  /\ f \in [Nat -> V]
  /\ \A i \in Nat : f[i] = IF i >= n THEN base[i] ELSE B[i][f[next[i]]]

\* A function whose values follow from those further on exists.
LEMMA LooksAhead ==
  ASSUME NEW n, NEW V, NEW base, NEW next, NEW B, CanLook(n, V, base, next, B)
  PROVE  \E f : Looks(f, n, V, base, next, B)
<1> USE DEF CanLook
<1> DEFINE D(m) == {i \in Nat : i + m >= n}
           Good(m) == \E f \in [D(m) -> V] :
                        f = [i \in D(m) |-> IF i >= n THEN base[i] ELSE B[i][f[next[i]]]]
           S == {m \in Nat : Good(m)}
<1>1. Good(0)
  <2> DEFINE f == [i \in D(0) |-> base[i]]
  <2>1. f \in [D(0) -> V]
    OBVIOUS
  <2>2. \A i \in D(0) : i >= n
    OBVIOUS
  <2>3. f = [i \in D(0) |-> IF i >= n THEN base[i] ELSE B[i][f[next[i]]]]
    BY <2>2
  <2> QED
    BY <2>1, <2>3
<1>2. ASSUME NEW m \in Nat, Good(m)
      PROVE  Good(m + 1)
  <2>1. PICK g \in [D(m) -> V] :
          g = [i \in D(m) |-> IF i >= n THEN base[i] ELSE B[i][g[next[i]]]]
    BY <1>2
  <2> DEFINE h == [i \in D(m + 1) |-> IF i >= n THEN base[i] ELSE B[i][g[next[i]]]]
  <2>2. ASSUME NEW i \in D(m + 1), ~ (i >= n)
        PROVE  next[i] \in D(m) /\ next[i] \in D(m + 1)
    BY <2>2
  <2>3. \A i \in D(m) : i \in D(m + 1)
    OBVIOUS
  <2>4. h \in [D(m + 1) -> V]
    <3>1. ASSUME NEW i \in D(m + 1)
          PROVE  (IF i >= n THEN base[i] ELSE B[i][g[next[i]]]) \in V
      <4>1. CASE i >= n
        BY <4>1
      <4>2. CASE ~ (i >= n)
        <5>1. g[next[i]] \in V
          BY <2>1, <2>2, <4>2
        <5>2. i \in Nat /\ i < n
          BY <4>2
        <5> QED
          BY <4>2, <5>1, <5>2
      <4> QED
        BY <4>1, <4>2
    <3> QED
      BY <3>1
  <2>5. \A i \in D(m) : h[i] = g[i]
    <3> TAKE i \in D(m)
    <3>1. h[i] = IF i >= n THEN base[i] ELSE B[i][g[next[i]]]
      BY <2>3
    <3>2. g[i] = IF i >= n THEN base[i] ELSE B[i][g[next[i]]]
      BY <2>1
    <3> QED
      BY <3>1, <3>2
  <2>6. \A i \in D(m + 1) : h[i] = IF i >= n THEN base[i] ELSE B[i][h[next[i]]]
    <3> TAKE i \in D(m + 1)
    <3>1. CASE i >= n
      BY <3>1
    <3>2. CASE ~ (i >= n)
      <4>1. h[next[i]] = g[next[i]]
        BY <2>2, <2>5, <3>2
      <4>2. h[i] = B[i][g[next[i]]]
        BY <3>2
      <4> HIDE DEF h
      <4> QED
        BY <3>2, <4>1, <4>2
    <3> QED
      BY <3>1, <3>2
  <2>7. h = [i \in D(m + 1) |-> h[i]]
    OBVIOUS
  <2> HIDE DEF h
  <2>8. h = [i \in D(m + 1) |-> IF i >= n THEN base[i] ELSE B[i][h[next[i]]]]
    BY <2>6, <2>7
  <2> QED
    BY <2>4, <2>8
<1>3. \A m \in Nat : m \in S
  <2> HIDE DEF Good
  <2>1. 0 \in S /\ \A m \in Nat : m \in S => m + 1 \in S
    BY <1>1, <1>2
  <2> HIDE DEF S
  <2> QED
    BY <2>1, Induction
<1>4. Good(n)
  BY <1>3
<1>5. PICK f \in [D(n) -> V] :
        f = [i \in D(n) |-> IF i >= n THEN base[i] ELSE B[i][f[next[i]]]]
  BY <1>4
<1>6. D(n) = Nat
  OBVIOUS
<1>7. \A i \in Nat : f[i] = IF i >= n THEN base[i] ELSE B[i][f[next[i]]]
  BY <1>5, <1>6
<1> QED
  BY <1>5, <1>6, <1>7 DEF Looks

--------------------------------------------------------------------------------

(* addresses *)
Count == FDS_MAX_PAGES
Size == FS_PAGE_SIZE_WORDS
Cells == Count * Size
TLs == {TL(n, v) : n \in 0 .. TooLong, v \in {"valid", "invalid"}}
WordOK(w) == w # Mixed /\ (IsTL(w) => w \in TLs)
WordsOK(f) == \A a \in Address : WordOK(f[a])
Top == 3 * FDS_MAX_PAGES * FS_PAGE_SIZE_WORDS

\* How many pages and words there are, as plain numbers.
LEMMA Sizes == /\ Count \in Nat /\ Size \in Nat /\ Count >= 1 /\ Size >= 5 /\ Cells \in Nat /\ Cells >= Size
               /\ TooLong = Cells /\ Top = 3 * Cells
               /\ Address = 0 .. Cells - 1 /\ Page = 0 .. Count - 1
<1>1. Count \in Nat /\ Size \in Nat /\ Count >= 1 /\ Size >= 5
  BY FstorageAssumption, FdsAssumption DEF Count, Size, FDS_PAGE_TAG_SIZE
<1>2. PICK k \in Nat : Count = 1 + k
  <2>1. Count - 1 \in Nat /\ Count = 1 + (Count - 1)
    BY <1>1
  <2> QED
    BY <2>1
<1>3. Count * Size = Size + k * Size
  BY <1>1, <1>2
<1>4. k * Size \in Nat
  BY <1>1
<1>5. Count * Size \in Nat /\ Count * Size >= Size
  BY <1>1, <1>3, <1>4
<1>6. TooLong = Count * Size /\ Top = 3 * (Count * Size)
  BY <1>1 DEF TooLong, Top, Count, Size
<1> QED
  BY <1>1, <1>5, <1>6 DEF Address, Page, Count, Size, Cells

\* Where a page begins and ends.
LEMMA PageIs ==
  ASSUME NEW p \in Page
  PROVE  /\ p \in Nat /\ StartAddr(p) \in Nat /\ Base(p) = StartAddr(p) + 4
         /\ EndAddr(p) = StartAddr(p) + Size /\ EndAddr(p) <= Cells
         /\ EndAddr(p) \in Nat /\ Base(p) \in Nat /\ Base(p) <= EndAddr(p)
<1>1. p \in Nat /\ p <= Count - 1 /\ Count \in Nat /\ Size \in Nat /\ Size >= 5
  BY Sizes
<1>2. PICK k \in Nat : Count = (p + 1) + k
  <2>1. Count - (p + 1) \in Nat /\ Count = (p + 1) + (Count - (p + 1))
    BY <1>1
  <2> QED
    BY <2>1
<1>3. Count * Size = (p * Size + Size) + k * Size
  BY <1>1, <1>2
<1>4. k * Size \in Nat /\ p * Size \in Nat
  BY <1>1
<1>5. StartAddr(p) = p * Size
  BY DEF StartAddr, Size
<1>6. EndAddr(p) = p * Size + Size /\ Base(p) = p * Size + 4
  BY DEF StartAddr, EndAddr, Base, FDS_PAGE_TAG_SIZE, Size
<1>7. PICK n \in Nat, m \in Nat : n = p * Size /\ m = Count * Size /\ n + Size <= m
  BY <1>1, <1>3, <1>4
<1> QED
  BY <1>1, <1>5, <1>6, <1>7 DEF Cells

\* One page ends before the next begins.
LEMMA PagesApart ==
  ASSUME NEW p \in Page, NEW q \in Page, p < q
  PROVE  EndAddr(p) <= StartAddr(q)
<1>1. p \in Nat /\ q \in Nat /\ Size \in Nat
  BY Sizes
<1>2. PICK k \in Nat : q = (p + 1) + k
  <2>1. q - (p + 1) \in Nat /\ q = (p + 1) + (q - (p + 1))
    BY <1>1
  <2> QED
    BY <2>1
<1>3. q * Size = (p * Size + Size) + k * Size
  BY <1>1, <1>2
<1>4. k * Size \in Nat /\ p * Size \in Nat
  BY <1>1
<1>5. StartAddr(p) = p * Size /\ StartAddr(q) = q * Size /\ EndAddr(p) = p * Size + Size
  BY DEF StartAddr, EndAddr, Size
<1> QED
  BY <1>1, <1>3, <1>4, <1>5

\* A word is on one page only.
LEMMA OnePage ==
  ASSUME NEW p \in Page, NEW q \in Page, NEW a \in Int, StartAddr(p) <= a, a < EndAddr(p),
         StartAddr(q) <= a, a < EndAddr(q)
  PROVE  p = q
<1>1. StartAddr(p) \in Nat /\ StartAddr(q) \in Nat /\ EndAddr(p) \in Nat /\ EndAddr(q) \in Nat /\ p \in Nat /\ q \in Nat
  BY PageIs, Sizes
<1>0. PICK i \in Nat, j \in Nat, k \in Nat, l \in Nat : i = StartAddr(p) /\ j = EndAddr(p) /\ k = StartAddr(q) /\ l = EndAddr(q)
  BY <1>1
<1>2. ~ (p < q)
  <2> SUFFICES ASSUME p < q PROVE FALSE
    OBVIOUS
  <2>1. j <= k
    BY <1>0, PagesApart
  <2> QED
    BY <1>0, <2>1
<1>3. ~ (q < p)
  <2> SUFFICES ASSUME q < p PROVE FALSE
    OBVIOUS
  <2>1. l <= i
    BY <1>0, PagesApart
  <2> QED
    BY <1>0, <2>1
<1> QED
  BY <1>1, <1>2, <1>3

\* A page is found again from its first address.
LEMMA StartIs ==
  ASSUME NEW p \in Page
  PROVE  StartAddr(p) % FS_PAGE_SIZE_WORDS = 0 /\ StartAddr(p) \div FS_PAGE_SIZE_WORDS = p
<1>1. PICK a \in Nat : a = StartAddr(p)
  BY PageIs
<1>2. a = p * Size /\ p \in Nat /\ Size \in Nat /\ Size >= 5
  BY <1>1, Sizes DEF StartAddr, Size
<1>3. PICK d \in Nat, r \in Nat : d = a \div Size /\ r = a % Size /\ r < Size
  <2>1. a \div Size \in Nat /\ a % Size \in Nat /\ a % Size < Size
    BY <1>2
  <2> QED
    BY <2>1
<1>4. a = Size * d + r
  BY <1>2, <1>3
<1>5. CASE d < p
  <2>1. PICK k \in Nat : p = (d + 1) + k
    <3>1. p - (d + 1) \in Nat /\ p = (d + 1) + (p - (d + 1))
      BY <1>2, <1>3, <1>5
    <3> QED
      BY <3>1
  <2>2. p * Size = (d * Size + Size) + k * Size
    BY <1>2, <2>1
  <2>3. k * Size \in Nat /\ d * Size = Size * d /\ d * Size \in Nat
    BY <1>2
  <2> QED
    BY <1>2, <1>3, <1>4, <2>2, <2>3
<1>6. CASE p < d
  <2>1. PICK k \in Nat : d = (p + 1) + k
    <3>1. d - (p + 1) \in Nat /\ d = (p + 1) + (d - (p + 1))
      BY <1>2, <1>3, <1>6
    <3> QED
      BY <3>1
  <2>2. d * Size = (p * Size + Size) + k * Size
    BY <1>2, <2>1
  <2>3. k * Size \in Nat /\ d * Size = Size * d /\ p * Size \in Nat
    BY <1>2
  <2> QED
    BY <1>2, <1>3, <1>4, <2>2, <2>3
<1>7. d = p
  BY <1>2, <1>3, <1>5, <1>6
<1>8. r = 0
  BY <1>2, <1>3, <1>4, <1>7
<1> QED
  BY <1>1, <1>3, <1>7, <1>8 DEF Size

\* The words of a page are words of the flash.
LEMMA PageWords ==
  ASSUME NEW p \in Page, NEW a \in Int, StartAddr(p) <= a, a < EndAddr(p)
  PROVE  a \in Address
<1>1. PICK i \in Nat, j \in Nat, m \in Nat : i = StartAddr(p) /\ j = EndAddr(p) /\ m = Cells /\ j <= m
  BY PageIs, Sizes
<1>2. a >= i /\ a < j
  BY <1>1
<1> QED
  BY <1>1, <1>2, Sizes

\* What is written is not blank, nor the mark of what was written over.
LEMMA TLIs ==
  ASSUME NEW w \in TLs
  PROVE  \E n \in Nat, v \in {"valid", "invalid"} :
           /\ n <= Cells /\ w = TL(n, v) /\ IsTL(w) /\ LengthWords(w) = n /\ w[2] = n /\ w[3] = v
           /\ w # Erased /\ w # Mixed
<1>1. PICK n \in 0 .. TooLong, v \in {"valid", "invalid"} : w = TL(n, v)
  BY DEF TLs
<1>2. w \in HeadWords
  BY <1>1 DEF HeadWords
<1>3. w # Erased /\ w # Mixed
  BY <1>2, FdsAssumption
<1>4. w[1] = "TL" /\ w[2] = n /\ w[3] = v
  BY <1>1 DEF TL
<1>5. IsTL(w)
  BY <1>3, <1>4 DEF IsTL
<1>6. LengthWords(w) = n
  BY <1>4, <1>5 DEF LengthWords
<1>7. n \in Nat /\ n <= Cells
  BY Sizes
<1> QED
  BY <1>1, <1>3, <1>4, <1>5, <1>6, <1>7

\* The length a word tells of is a number within the flash.
LEMMA LengthIs ==
  ASSUME NEW w, WordOK(w)
  PROVE  \E n \in Nat : n = LengthWords(w) /\ n <= Cells
<1>1. CASE IsTL(w)
  <2>1. w \in TLs
    BY <1>1 DEF WordOK
  <2> QED
    BY <2>1, TLIs
<1>2. CASE ~ IsTL(w)
  BY <1>2, Sizes DEF LengthWords
<1> QED
  BY <1>1, <1>2

\* The next header is further on.
LEMMA NextIs ==
  ASSUME NEW f, WordsOK(f), NEW a \in Nat, a < Cells
  PROVE  \E n \in Nat : n = NextRecord(f, a) /\ n > a /\ n <= Top
<1>1. a \in Address
  BY Sizes
<1>2. PICK n \in Nat : n = LengthWords(f[a]) /\ n <= Cells
  BY <1>1, LengthIs DEF WordsOK
<1>3. PICK m \in Nat : m = Cells /\ m >= 4 /\ Top = 3 * m
  BY Sizes
<1>4. NextRecord(f, a) = a + 3 + n
  BY <1>2 DEF NextRecord, FDS_HEADER_SIZE
<1> QED
  BY <1>2, <1>3, <1>4

Range0 == 0 .. Top
CanWalk(f, end, V, base, B) ==
  /\ WordsOK(f) /\ end \in Nat /\ end <= Cells /\ base \in [Nat -> V]
  /\ \A i \in Nat, v \in V : i < end => B[i][v] \in V
Walks(g, f, end, V, base, B) ==
  /\ g = [a \in Range0 |-> g[a]]
  /\ \A a \in Range0 : g[a] = IF a >= end THEN base[a] ELSE B[a][g[NextRecord(f, a)]]
  /\ \A a \in Range0 : g[a] \in V

\* A walk from header to header has a result for every address.
LEMMA WalkExists ==
  ASSUME NEW f, NEW end, NEW V, NEW base, NEW B, CanWalk(f, end, V, base, B)
  PROVE  \E g : Walks(g, f, end, V, base, B)
<1> DEFINE next == [i \in Nat |-> IF i < end THEN NextRecord(f, i) ELSE i + 1]
<1>1. PICK n \in Nat : n = end /\ n <= Cells
  BY DEF CanWalk
<1>2. \A i \in Nat : i < n => next[i] \in Nat /\ next[i] > i /\ next[i] = NextRecord(f, i) /\ next[i] \in Range0
  <2> SUFFICES ASSUME NEW i \in Nat, i < n PROVE next[i] \in Nat /\ next[i] > i /\ next[i] = NextRecord(f, i) /\ next[i] \in Range0
    OBVIOUS
  <2>1. i < Cells
    BY <1>1, Sizes
  <2>2. PICK m \in Nat : m = NextRecord(f, i) /\ m > i /\ m <= Top
    BY <2>1, NextIs DEF CanWalk
  <2>3. next[i] = m
    BY <1>1, <2>2
  <2>4. Top \in Nat
    BY Sizes
  <2> QED
    BY <2>2, <2>3, <2>4 DEF Range0
<1> HIDE DEF next
<1>3. CanLook(n, V, base, next, B)
  BY <1>1, <1>2 DEF CanWalk, CanLook
<1>4. PICK h : Looks(h, n, V, base, next, B)
  BY <1>3, LooksAhead
<1> DEFINE g == [a \in Range0 |-> h[a]]
<1>5. \A a \in Range0 : a \in Nat
  BY Sizes DEF Range0
<1>6. \A a \in Range0 : g[a] = IF a >= end THEN base[a] ELSE B[a][g[NextRecord(f, a)]]
  <2> SUFFICES ASSUME NEW a \in Range0 PROVE g[a] = IF a >= end THEN base[a] ELSE B[a][g[NextRecord(f, a)]]
    OBVIOUS
  <2>1. g[a] = IF a >= n THEN base[a] ELSE B[a][h[next[a]]]
    BY <1>4, <1>5 DEF Looks
  <2>2. CASE a >= n
    BY <1>1, <2>1, <2>2
  <2>3. CASE ~ (a >= n)
    <3>1. a \in Nat /\ a < n
      BY <1>5, <2>3
    <3>2. next[a] = NextRecord(f, a) /\ next[a] \in Range0
      BY <1>2, <3>1
    <3>3. g[NextRecord(f, a)] = h[next[a]]
      BY <3>2
    <3> QED
      BY <1>1, <2>1, <2>3, <3>3
  <2> QED
    BY <2>2, <2>3
<1>7. \A a \in Range0 : g[a] \in V
  BY <1>4, <1>5 DEF Looks
<1> QED
  BY <1>6, <1>7 DEF Walks

--------------------------------------------------------------------------------

(* The recursive functions of Headers and ScanEnd. *)
HeadersFunction(f, end) ==
  CHOOSE g : g = [a \in 0 .. 3 * FDS_MAX_PAGES * FS_PAGE_SIZE_WORDS |->
                    IF a >= end \/ f[a] = Erased THEN {} ELSE {a} \cup g[NextRecord(f, a)]]
ScanFunction(f, end) ==
  CHOOSE g : g = [a \in 0 .. 3 * FDS_MAX_PAGES * FS_PAGE_SIZE_WORDS |->
                    IF a >= end \/ f[a] = Erased THEN a ELSE g[NextRecord(f, a)]]

\* The headers of a walk are the one it begins at and those of the rest.
LEMMA HeadersStep ==
  ASSUME NEW f, WordsOK(f), NEW end \in Nat, end <= Cells, NEW a \in Range0
  PROVE  Headers(f, a, end) = IF a >= end \/ f[a] = Erased THEN {}
                              ELSE {a} \cup Headers(f, NextRecord(f, a), end)
<1> DEFINE base == [k \in Nat |-> {}]
           B == [k \in Nat |-> [v \in SUBSET Int |-> IF f[k] = Erased THEN {} ELSE {k} \cup v]]
<1>1. base \in [Nat -> SUBSET Int] /\ \A i \in Nat, v \in SUBSET Int : i < end => B[i][v] \in SUBSET Int
  OBVIOUS
<1> HIDE DEF base, B
<1>2. CanWalk(f, end, SUBSET Int, base, B)
  BY <1>1 DEF CanWalk
<1>3. PICK g : Walks(g, f, end, SUBSET Int, base, B)
  BY <1>2, WalkExists
<1>4. \A b \in Range0 : g[b] = IF b >= end \/ f[b] = Erased THEN {} ELSE {b} \cup g[NextRecord(f, b)]
  <2> SUFFICES ASSUME NEW b \in Range0
               PROVE g[b] = IF b >= end \/ f[b] = Erased THEN {} ELSE {b} \cup g[NextRecord(f, b)]
    OBVIOUS
  <2>0. b \in Nat
    BY Sizes DEF Range0
  <2>1. CASE b >= end
    <3>1. g[b] = base[b]
      BY <1>3, <2>1 DEF Walks
    <3> QED
      BY <2>0, <2>1, <3>1 DEF base
  <2>2. CASE ~ (b >= end)
    <3>0. b < Cells
      BY <2>0, <2>2, Sizes
    <3>1. PICK m \in Nat : m = NextRecord(f, b) /\ m <= Top
      BY <2>0, <3>0, NextIs
    <3>2. NextRecord(f, b) \in Range0
      BY <3>1, Sizes DEF Range0
    <3>3. PICK v \in SUBSET Int : v = g[NextRecord(f, b)]
      BY <1>3, <3>2 DEF Walks
    <3>4. g[b] = B[b][v]
      BY <1>3, <2>2, <3>3 DEF Walks
    <3>5. g[b] = IF f[b] = Erased THEN {} ELSE {b} \cup v
      BY <2>0, <3>4 DEF B
    <3> QED
      BY <2>2, <3>3, <3>5
  <2> QED
    BY <2>1, <2>2
<1>5. g = [b \in Range0 |-> IF b >= end \/ f[b] = Erased THEN {} ELSE {b} \cup g[NextRecord(f, b)]]
  BY <1>3, <1>4 DEF Walks
<1>6. g = [b \in 0 .. 3 * FDS_MAX_PAGES * FS_PAGE_SIZE_WORDS |-> IF b >= end \/ f[b] = Erased THEN {} ELSE {b} \cup g[NextRecord(f, b)]]
  BY <1>5 DEF Range0, Top
<1> DEFINE h == HeadersFunction(f, end)
<1>7. h = [b \in 0 .. 3 * FDS_MAX_PAGES * FS_PAGE_SIZE_WORDS |-> IF b >= end \/ f[b] = Erased THEN {} ELSE {b} \cup h[NextRecord(f, b)]]
  BY <1>6 DEF HeadersFunction
<1>8. \A b \in Range0 : h[b] = IF b >= end \/ f[b] = Erased THEN {} ELSE {b} \cup h[NextRecord(f, b)]
  <2> HIDE DEF h
  <2>1. h = [b \in Range0 |-> IF b >= end \/ f[b] = Erased THEN {} ELSE {b} \cup h[NextRecord(f, b)]]
    BY <1>7 DEF Range0, Top
  <2> QED
    BY <2>1
<1>9. \A b : Headers(f, b, end) = h[b]
  BY DEF Headers, HeadersFunction
<1> HIDE DEF h
<1> QED
  BY <1>8, <1>9

\* A walk goes on to the next header, or ends where it is.
LEMMA ScanStep ==
  ASSUME NEW f, WordsOK(f), NEW end \in Nat, end <= Cells, NEW a \in Range0
  PROVE  ScanEnd(f, a, end) = IF a >= end \/ f[a] = Erased THEN a
                              ELSE ScanEnd(f, NextRecord(f, a), end)
<1> DEFINE base == [k \in Nat |-> k]
           B == [k \in Nat |-> [v \in Nat |-> IF f[k] = Erased THEN k ELSE v]]
<1>1. base \in [Nat -> Nat] /\ \A i \in Nat, v \in Nat : i < end => B[i][v] \in Nat
  OBVIOUS
<1> HIDE DEF base, B
<1>2. CanWalk(f, end, Nat, base, B)
  BY <1>1 DEF CanWalk
<1>3. PICK g : Walks(g, f, end, Nat, base, B)
  BY <1>2, WalkExists
<1>4. \A b \in Range0 : g[b] = IF b >= end \/ f[b] = Erased THEN b ELSE g[NextRecord(f, b)]
  <2> SUFFICES ASSUME NEW b \in Range0
               PROVE g[b] = IF b >= end \/ f[b] = Erased THEN b ELSE g[NextRecord(f, b)]
    OBVIOUS
  <2>0. b \in Nat
    BY Sizes DEF Range0
  <2>1. CASE b >= end
    <3>1. g[b] = base[b]
      BY <1>3, <2>1 DEF Walks
    <3> QED
      BY <2>0, <2>1, <3>1 DEF base
  <2>2. CASE ~ (b >= end)
    <3>0. b < Cells
      BY <2>0, <2>2, Sizes
    <3>1. PICK m \in Nat : m = NextRecord(f, b) /\ m <= Top
      BY <2>0, <3>0, NextIs
    <3>2. NextRecord(f, b) \in Range0
      BY <3>1, Sizes DEF Range0
    <3>3. PICK v \in Nat : v = g[NextRecord(f, b)]
      BY <1>3, <3>2 DEF Walks
    <3>4. g[b] = B[b][v]
      BY <1>3, <2>2, <3>3 DEF Walks
    <3>5. g[b] = IF f[b] = Erased THEN b ELSE v
      BY <2>0, <3>4 DEF B
    <3> QED
      BY <2>2, <3>3, <3>5
  <2> QED
    BY <2>1, <2>2
<1>5. g = [b \in Range0 |-> IF b >= end \/ f[b] = Erased THEN b ELSE g[NextRecord(f, b)]]
  BY <1>3, <1>4 DEF Walks
<1>6. g = [b \in 0 .. 3 * FDS_MAX_PAGES * FS_PAGE_SIZE_WORDS |-> IF b >= end \/ f[b] = Erased THEN b ELSE g[NextRecord(f, b)]]
  BY <1>5 DEF Range0, Top
<1> DEFINE h == ScanFunction(f, end)
<1>7. h = [b \in 0 .. 3 * FDS_MAX_PAGES * FS_PAGE_SIZE_WORDS |-> IF b >= end \/ f[b] = Erased THEN b ELSE h[NextRecord(f, b)]]
  BY <1>6 DEF ScanFunction
<1>8. \A b \in Range0 : h[b] = IF b >= end \/ f[b] = Erased THEN b ELSE h[NextRecord(f, b)]
  <2> HIDE DEF h
  <2>1. h = [b \in Range0 |-> IF b >= end \/ f[b] = Erased THEN b ELSE h[NextRecord(f, b)]]
    BY <1>7 DEF Range0, Top
  <2> QED
    BY <2>1
<1>9. \A b : ScanEnd(f, b, end) = h[b]
  BY DEF ScanEnd, ScanFunction
<1> HIDE DEF h
<1> QED
  BY <1>8, <1>9

End(f, p) == ScanEnd(f, Base(p), EndAddr(p))
Blank(f, i, j) == \A a \in i .. j : f[a] = Erased

\* The records of a page: headers H, one behind the other from the tag to t, and nothing behind.
Laid(f, p, H, t) ==
  /\ t \in Nat /\ Base(p) <= t /\ t < EndAddr(p) /\ Blank(f, t, EndAddr(p) - 1)
  /\ H \subseteq Base(p) .. t - 1
  /\ Base(p) \in H \cup {t}
  /\ \A a \in H : f[a] \in TLs /\ NextRecord(f, a) \in H \cup {t}
  /\ \A a, b \in H : a < b => NextRecord(f, a) <= b

\* A record within such a page.
LEMMA HeaderIs ==
  ASSUME NEW f, NEW p \in Page, NEW H, NEW t, Laid(f, p, H, t), NEW a \in H
  PROVE  \E n \in Nat, v \in {"valid", "invalid"} :
           /\ f[a] = TL(n, v) /\ n = LengthWords(f[a]) /\ f[a][3] = v /\ f[a][2] = n /\ IsTL(f[a])
           /\ f[a] # Erased
           /\ a \in Nat /\ Base(p) <= a /\ a + 3 + n <= t /\ NextRecord(f, a) = a + 3 + n
           /\ n <= Cells
<1>1. f[a] \in TLs /\ NextRecord(f, a) \in H \cup {t}
  BY DEF Laid
<1>2. PICK n \in Nat, v \in {"valid", "invalid"} :
           /\ n <= Cells /\ f[a] = TL(n, v) /\ IsTL(f[a]) /\ LengthWords(f[a]) = n /\ f[a][2] = n /\ f[a][3] = v
           /\ f[a] # Erased
  BY <1>1, TLIs
<1>3. PICK b \in Nat : b = Base(p)
  BY PageIs
<1>4. t \in Nat /\ \A h \in H : h \in Nat /\ b <= h /\ h < t
  <2>1. H \subseteq b .. t - 1 /\ t \in Nat
    BY <1>3 DEF Laid
  <2>2. \A h \in H : h \in b .. t - 1
    BY <2>1
  <2> QED
    BY <2>1, <2>2
<1>5. a \in Nat /\ b <= a
  BY <1>4
<1>6. NextRecord(f, a) = a + 3 + n
  BY <1>2 DEF NextRecord, FDS_HEADER_SIZE
<1>7. a + 3 + n <= t
  <2>1. PICK m \in Nat : m = NextRecord(f, a) /\ m <= t
    BY <1>1, <1>4
  <2> QED
    BY <1>6, <2>1
<1> QED
  BY <1>2, <1>3, <1>5, <1>6, <1>7

\* Begun at any of the headers laid out on a page, a walk meets those from there on.
LEMMA LaidWalk ==
  ASSUME NEW f, WordsOK(f), NEW p \in Page, NEW H, NEW t, Laid(f, p, H, t)
  PROVE  \A a \in H \cup {t} : /\ Headers(f, a, EndAddr(p)) = {b \in H : b >= a}
                               /\ ScanEnd(f, a, EndAddr(p)) = t
<1> DEFINE end == EndAddr(p)
           Good(a) == /\ Headers(f, a, end) = {b \in H : b >= a}
                      /\ ScanEnd(f, a, end) = t
           D == {d \in Nat : \A a \in H \cup {t} : t - a <= d => Good(a)}
<1>1. PICK b0 \in Nat, e0 \in Nat : b0 = Base(p) /\ e0 = end /\ e0 <= Cells
  BY PageIs
<1>2. t \in Nat /\ t <= e0 /\ b0 <= t /\ \A h \in H : h \in Nat /\ b0 <= h /\ h < t
  <2>1. H \subseteq b0 .. t - 1 /\ t \in Nat /\ t <= e0 /\ b0 <= t
    BY <1>1 DEF Laid
  <2>2. \A h \in H : h \in b0 .. t - 1
    BY <2>1
  <2> QED
    BY <1>1, <2>1, <2>2
<1>3. \A a \in H \cup {t} : a \in Nat /\ a <= t /\ a \in Range0
  <2>1. PICK k \in Nat : k = Cells /\ Top = 3 * k
    BY Sizes
  <2> QED
    BY <1>1, <1>2, <2>1 DEF Range0
<1>4. Good(t)
  <2>1. t >= end \/ f[t] = Erased
    <3>1. CASE t >= e0
      BY <1>1, <3>1
    <3>2. CASE ~ (t >= e0)
      <4>1. t \in t .. e0 - 1
        BY <1>2, <3>2
      <4> QED
        BY <1>1, <4>1 DEF Laid, Blank
    <3> QED
      BY <3>1, <3>2
  <2>2. Headers(f, t, e0) = {} /\ ScanEnd(f, t, e0) = t
    BY <1>1, <1>3, <2>1, HeadersStep, ScanStep
  <2>3. {b \in H : b >= t} = {}
    BY <1>2
  <2> QED
    BY <1>1, <2>2, <2>3
<1>5. 0 \in D
  <2> SUFFICES ASSUME NEW a \in H \cup {t}, t - a <= 0 PROVE Good(a)
    OBVIOUS
  <2>1. a = t
    BY <1>2, <1>3
  <2> QED
    BY <1>4, <2>1
<1>6. ASSUME NEW d \in Nat, d \in D
      PROVE  d + 1 \in D
  <2> SUFFICES ASSUME NEW a \in H \cup {t}, t - a <= d + 1 PROVE Good(a)
    OBVIOUS
  <2>1. CASE a = t
    BY <1>4, <2>1
  <2>2. CASE a # t
    <3>0. a \in H
      BY <2>2
    <3>1. PICK n \in Nat, v \in {"valid", "invalid"} :
                 /\ f[a] = TL(n, v) /\ n = LengthWords(f[a]) /\ f[a][3] = v /\ f[a][2] = n /\ IsTL(f[a])
                 /\ f[a] # Erased
                 /\ a \in Nat /\ Base(p) <= a /\ a + 3 + n <= t /\ NextRecord(f, a) = a + 3 + n
                 /\ n <= Cells
      BY <3>0, HeaderIs
    <3>9. f[a] # Erased /\ NextRecord(f, a) = a + 3 + n
      BY <3>1
    <3>2. PICK m \in Nat : m = NextRecord(f, a) /\ m = a + 3 + n
      BY <1>3, <3>9
    <3>3. m \in H \cup {t}
      BY <3>0, <3>2 DEF Laid
    <3>4. t - m <= d /\ a \in Nat /\ a < e0 /\ m > a
      BY <1>2, <1>3, <3>0, <3>2
    <3>5. Good(m)
      BY <1>6, <3>3, <3>4
    <3>6. Headers(f, a, e0) = {a} \cup Headers(f, m, e0) /\ ScanEnd(f, a, e0) = ScanEnd(f, m, e0)
      <4>1. ~ (a >= e0 \/ f[a] = Erased)
        BY <3>9, <3>4
      <4>2. e0 \in Nat /\ e0 <= Cells /\ a \in Range0 /\ e0 = EndAddr(p)
        BY <1>1, <1>3
      <4>3. Headers(f, a, e0) = IF a >= e0 \/ f[a] = Erased THEN {}
                              ELSE {a} \cup Headers(f, NextRecord(f, a), e0)
        BY <4>2, HeadersStep
      <4>4. ScanEnd(f, a, e0) = IF a >= e0 \/ f[a] = Erased THEN a
                              ELSE ScanEnd(f, NextRecord(f, a), e0)
        BY <4>2, ScanStep
      <4> QED
        BY <3>2, <4>1, <4>3, <4>4
    <3>7. {b \in H : b >= a} = {a} \cup {b \in H : b >= m}
      <4>1. ASSUME NEW b \in H, b >= a, b # a PROVE b >= m
        <5>1. b \in Nat /\ a \in Nat
          BY <1>3, <3>0
        <5>2. NextRecord(f, a) <= b
          BY <3>0, <4>1, <5>1 DEF Laid
        <5> QED
          BY <3>2, <5>1, <5>2
      <4>2. ASSUME NEW b \in H, b >= m PROVE b >= a
        <5>1. b \in Nat /\ a \in Nat
          BY <1>3, <3>0
        <5> QED
          BY <3>4, <4>2, <5>1
      <4>3. a \in H /\ a >= a
        BY <3>0, <3>4
      <4> QED
        BY <4>1, <4>2, <4>3
    <3> QED
      BY <1>1, <3>5, <3>6, <3>7
  <2> QED
    BY <2>1, <2>2
<1> HIDE DEF D
<1>7. \A d \in Nat : d \in D
  BY <1>5, <1>6, Induction
<1> USE DEF D
<1> SUFFICES ASSUME NEW a \in H \cup {t} PROVE Good(a)
  OBVIOUS
<1>8. PICK d \in Nat : t - a = d
  BY <1>2, <1>3
<1>9. d \in D /\ t - a <= d
  BY <1>7, <1>8
<1> HIDE DEF Good
<1> QED
  BY <1>9

\* Its headers and its end are what the walks find.
LEMMA LaidIs ==
  ASSUME NEW f, WordsOK(f), NEW p \in Page, NEW H, NEW t, Laid(f, p, H, t)
  PROVE  HeadersOf(f, p) = H /\ End(f, p) = t
<1>1. PICK b0 \in Nat : b0 = Base(p)
  BY PageIs
<1>2. b0 \in H \cup {t} /\ \A h \in H : h \in b0 .. t - 1
  BY <1>1 DEF Laid
<1>5. t \in Nat /\ \A h \in H : h >= b0
  BY <1>1, <1>2 DEF Laid
<1>3. Headers(f, b0, EndAddr(p)) = {b \in H : b >= b0} /\ ScanEnd(f, b0, EndAddr(p)) = t
  BY <1>2, LaidWalk
<1>4. {b \in H : b >= b0} = H
  BY <1>5
<1> QED
  BY <1>1, <1>3, <1>4 DEF HeadersOf, End

--------------------------------------------------------------------------------

(* What a page is. *)
Kind(f, p) == PageIdentify(f, p)
IsFlash(f) == f = [a \in Address |-> f[a]]
Same(f, g, p) == \A a \in StartAddr(p) .. EndAddr(p) - 1 : g[a] = f[a]
TagIs(f, p, w0, w3) ==
  /\ f[StartAddr(p)] = <<"tag0", w0>> /\ f[StartAddr(p) + 1] = <<"tag1">>
  /\ f[StartAddr(p) + 2] = <<"tag2">> /\ f[StartAddr(p) + 3] = <<"tag3", w3>>
IsBlank(f, p) == Blank(f, StartAddr(p), EndAddr(p) - 1)
KindIs(f, p, k) ==
  \/ k = "SWAP" /\ TagIs(f, p, "swap", "plain")
  \/ k = "VALID" /\ TagIs(f, p, "valid", "plain")
  \/ k = "GC" /\ TagIs(f, p, "valid", "gc")
  \/ k = "ERASED" /\ IsBlank(f, p)

\* The words of the page tags are among those that are written.
LEMMA TagWordsAre ==
  /\ <<"tag0", "swap">> \in TagWords /\ <<"tag0", "valid">> \in TagWords
  /\ <<"tag1">> \in TagWords /\ <<"tag2">> \in TagWords
  /\ <<"tag3", "plain">> \in TagWords /\ <<"tag3", "gc">> \in TagWords
<1>1. fds_page_tag_swap = <<<<"tag0", "swap">>, <<"tag1">>, <<"tag2">>, <<"tag3", "plain">>>>
  BY DEF fds_page_tag_swap, PageTag
<1>2. fds_page_tag_valid = <<<<"tag0", "valid">>, <<"tag1">>, <<"tag2">>, <<"tag3", "plain">>>>
  BY DEF fds_page_tag_valid, PageTag
<1>3. /\ fds_page_tag_swap[1] = <<"tag0", "swap">> /\ fds_page_tag_swap[2] = <<"tag1">>
      /\ fds_page_tag_swap[3] = <<"tag2">> /\ fds_page_tag_swap[4] = <<"tag3", "plain">>
      /\ fds_page_tag_valid[1] = <<"tag0", "valid">>
  BY <1>1, <1>2
<1>4. 1 \in 1 .. FDS_PAGE_TAG_SIZE /\ 2 \in 1 .. FDS_PAGE_TAG_SIZE /\ 3 \in 1 .. FDS_PAGE_TAG_SIZE
      /\ 4 \in 1 .. FDS_PAGE_TAG_SIZE
  BY DEF FDS_PAGE_TAG_SIZE
<1> QED
  BY <1>3, <1>4 DEF TagWords

\* A word of a tag is neither blank nor a mark.
LEMMA TagWordIs ==
  ASSUME NEW w \in TagWords
  PROVE  w # Erased /\ w # Mixed
BY FdsAssumption

\* None of them is blank, a mark or a broken length.
LEMMA TagWordOK ==
  /\ \A v \in {"swap", "valid"} : /\ WordOK(<<"tag0", v>>) /\ <<"tag0", v>> # Erased
  /\ WordOK(<<"tag1">>) /\ <<"tag1">> # Erased /\ WordOK(<<"tag2">>) /\ <<"tag2">> # Erased
  /\ \A v \in {"plain", "gc"} : WordOK(<<"tag3", v>>) /\ <<"tag3", v>> # Erased
<1>1. \A v : <<"tag0", v>>[1] = "tag0" /\ <<"tag3", v>>[1] = "tag3"
  OBVIOUS
<1>2. <<"tag1">>[1] = "tag1" /\ <<"tag2">>[1] = "tag2"
  OBVIOUS
<1>3. \A v : ~ IsTL(<<"tag0", v>>) /\ ~ IsTL(<<"tag3", v>>)
  BY <1>1 DEF IsTL
<1>4. ~ IsTL(<<"tag1">>) /\ ~ IsTL(<<"tag2">>)
  BY <1>2 DEF IsTL
<1> QED
  BY <1>3, <1>4, TagWordsAre, TagWordIs DEF WordOK

\* Where the four words of a tag stand on a page.
LEMMA TagOffsets ==
  ASSUME NEW p \in Page
  PROVE  \E s \in Nat : /\ s = StartAddr(p) /\ s + 4 = Base(p) /\ s + Size = EndAddr(p) /\ Size \in Nat /\ Size >= 5
                        /\ s \in StartAddr(p) .. EndAddr(p) - 1 /\ s + 1 \in StartAddr(p) .. EndAddr(p) - 1
                        /\ s + 2 \in StartAddr(p) .. EndAddr(p) - 1 /\ s + 3 \in StartAddr(p) .. EndAddr(p) - 1
<1>1. PICK s \in Nat : s = StartAddr(p) /\ s + 4 = Base(p) /\ s + Size = EndAddr(p)
  BY PageIs
<1>2. Size \in Nat /\ Size >= 5
  BY Sizes
<1> QED
  BY <1>1, <1>2

IsFour(z) == z = [i \in 1 .. 4 |-> z[i]]

\* The components of a list of four.
LEMMA FourAre ==
  ASSUME NEW a, NEW b, NEW c, NEW d, NEW z, z = <<a, b, c, d>>
  PROVE  IsFour(z) /\ z[1] = a /\ z[2] = b /\ z[3] = c /\ z[4] = d
BY DEF IsFour

\* A list of four is known by its components.
LEMMA FourMake ==
  ASSUME NEW a, NEW b, NEW c, NEW d, NEW z,
         IsFour(z), z[1] = a, z[2] = b, z[3] = c, z[4] = d
  PROVE  z = <<a, b, c, d>>
<1>1. PICK y : y = <<a, b, c, d>>
  OBVIOUS
<1>2. IsFour(y) /\ y[1] = a /\ y[2] = b /\ y[3] = c /\ y[4] = d
  BY <1>1, FourAre
<1>3. \A i \in 1 .. 4 : i = 1 \/ i = 2 \/ i = 3 \/ i = 4
  OBVIOUS
<1>4. \A i \in 1 .. 4 : y[i] = z[i]
  BY <1>2, <1>3
<1>5. y = z
  BY <1>2, <1>4 DEF IsFour
<1> QED
  BY <1>1, <1>5

\* The words of a page tag.
LEMMA PageTagIs ==
  ASSUME NEW tag, NEW w0, NEW w3, tag = PageTag(w0, w3)
  PROVE  tag[1] = <<"tag0", w0>> /\ tag[2] = <<"tag1">> /\ tag[3] = <<"tag2">> /\ tag[4] = <<"tag3", w3>>
<1>1. PICK u, v, w, x : u = <<"tag0", w0>> /\ v = <<"tag1">> /\ w = <<"tag2">> /\ x = <<"tag3", w3>>
  OBVIOUS
<1>2. tag = <<u, v, w, x>>
  BY <1>1 DEF PageTag
<1>3. tag[1] = u /\ tag[2] = v /\ tag[3] = w /\ tag[4] = x
  BY <1>2
<1> QED
  BY <1>1, <1>3

\* The tag as it is read.
LEMMA TagRead ==
  ASSUME NEW f, NEW p \in Page, NEW tag, tag = [i \in 1 .. FDS_PAGE_TAG_SIZE |-> f[StartAddr(p) + i - 1]]
  PROVE  /\ tag = <<f[StartAddr(p)], f[StartAddr(p) + 1], f[StartAddr(p) + 2], f[StartAddr(p) + 3]>>
         /\ \A w0, w3 : tag = PageTag(w0, w3) <=> TagIs(f, p, w0, w3)
<1>1. PICK s \in Nat : s = StartAddr(p)
  BY PageIs
<1>2. tag = [i \in 1 .. 4 |-> f[s + i - 1]]
  BY <1>1 DEF FDS_PAGE_TAG_SIZE
<1>3. tag[1] = f[s] /\ tag[2] = f[s + 1] /\ tag[3] = f[s + 2] /\ tag[4] = f[s + 3]
  <2>0. 1 \in 1 .. 4 /\ 2 \in 1 .. 4 /\ 3 \in 1 .. 4 /\ 4 \in 1 .. 4
    OBVIOUS
  <2>4. \A i \in 1 .. 4 : tag[i] = f[s + i - 1]
    BY <1>2
  <2>1. tag[1] = f[s + 1 - 1] /\ tag[2] = f[s + 2 - 1] /\ tag[3] = f[s + 3 - 1] /\ tag[4] = f[s + 4 - 1]
    BY <2>0, <2>4
  <2>2. PICK b \in Nat, c \in Nat, d \in Nat : b = s + 1 /\ c = s + 2 /\ d = s + 3
    OBVIOUS
  <2>3. s + 1 - 1 = s /\ s + 2 - 1 = b /\ s + 3 - 1 = c /\ s + 4 - 1 = d
    BY <2>2
  <2> QED
    BY <2>1, <2>2, <2>3
<1>4. tag = <<f[s], f[s + 1], f[s + 2], f[s + 3]>>
  <2>1. PICK u, v, w, x : u = f[s] /\ v = f[s + 1] /\ w = f[s + 2] /\ x = f[s + 3]
    OBVIOUS
  <2>2. tag[1] = u /\ tag[2] = v /\ tag[3] = w /\ tag[4] = x
    BY <1>3, <2>1
  <2>3. IsFour(tag)
    BY <1>2 DEF IsFour
  <2>4. tag = <<u, v, w, x>>
    BY ZenonT(40), <2>2, <2>3, FourMake
  <2> QED
    BY <2>1, <2>4
<1>5. ASSUME NEW w0, NEW w3
      PROVE  tag = PageTag(w0, w3) <=> TagIs(f, p, w0, w3)
  <2>1. CASE tag = PageTag(w0, w3)
    <3>1. tag[1] = <<"tag0", w0>> /\ tag[2] = <<"tag1">> /\ tag[3] = <<"tag2">> /\ tag[4] = <<"tag3", w3>>
      BY ONLY <2>1, PageTagIs
    <3> QED
      BY <1>1, <1>3, <2>1, <3>1 DEF TagIs
  <2>2. CASE TagIs(f, p, w0, w3)
    BY <1>1, <1>4, <2>2 DEF TagIs, PageTag
  <2> QED
    BY <2>1, <2>2
<1> QED
  BY <1>1, <1>4, <1>5

\* A page is identified as what it is.
LEMMA Identified ==
  ASSUME NEW f, NEW p \in Page, NEW k, KindIs(f, p, k)
  PROVE  Kind(f, p) = k
<1>1. PICK s \in Nat : s = StartAddr(p) /\ s \in StartAddr(p) .. EndAddr(p) - 1
  BY TagOffsets
<1>2. PICK tag : tag = [i \in 1 .. FDS_PAGE_TAG_SIZE |-> f[StartAddr(p) + i - 1]]
  OBVIOUS
<1>3. \A w0, w3 : tag = PageTag(w0, w3) <=> TagIs(f, p, w0, w3)
  BY <1>2, TagRead
<1>4. /\ tag = fds_page_tag_swap <=> TagIs(f, p, "swap", "plain")
      /\ tag = fds_page_tag_valid <=> TagIs(f, p, "valid", "plain")
      /\ tag \in {PageTag("swap", "gc"), PageTag("valid", "gc")}
           <=> (TagIs(f, p, "swap", "gc") \/ TagIs(f, p, "valid", "gc"))
  BY <1>3 DEF fds_page_tag_swap, fds_page_tag_valid
<1>5. Kind(f, p) = CASE TagIs(f, p, "swap", "plain") -> "SWAP"
                     [] TagIs(f, p, "valid", "plain") -> "VALID"
                     [] TagIs(f, p, "swap", "gc") \/ TagIs(f, p, "valid", "gc") -> "GC"
                     [] IsBlank(f, p) -> "ERASED"
                     [] OTHER -> "UNDEFINED"
  BY <1>2, <1>4 DEF Kind, PageIdentify, IsBlank, Blank
<1>6. \A w0, w3 : TagIs(f, p, w0, w3) => f[s] = <<"tag0", w0>> /\ f[s + 3] = <<"tag3", w3>>
  BY <1>1 DEF TagIs
<1>7. \A v, w : <<"tag0", v>> = <<"tag0", w>> => v = w
  OBVIOUS
<1>8. \A v, w : <<"tag3", v>> = <<"tag3", w>> => v = w
  OBVIOUS
<1>9. \A w0, w3, v0, v3 : TagIs(f, p, w0, w3) /\ TagIs(f, p, v0, v3) => w0 = v0 /\ w3 = v3
  BY <1>6, <1>7, <1>8
<1>10. IsBlank(f, p) => \A w0 \in {"swap", "valid"} : \A w3 : ~ TagIs(f, p, w0, w3)
  BY <1>1, <1>6, TagWordOK DEF IsBlank, Blank
<1>11. CASE k = "SWAP" /\ TagIs(f, p, "swap", "plain")
  BY <1>5, <1>9, <1>10, <1>11
<1>12. CASE k = "VALID" /\ TagIs(f, p, "valid", "plain")
  BY <1>5, <1>9, <1>10, <1>12
<1>13. CASE k = "GC" /\ TagIs(f, p, "valid", "gc")
  BY <1>5, <1>9, <1>10, <1>13
<1>14. CASE k = "ERASED" /\ IsBlank(f, p)
  BY <1>5, <1>10, <1>14
<1> QED
  BY <1>11, <1>12, <1>13, <1>14 DEF KindIs

IdOK(w) == w = Erased \/ \E n \in 0 .. MaxId : w = <<"ID", n>>
PageOK(f, p, H, t) == /\ \E k \in {"SWAP", "VALID", "GC", "ERASED"} : KindIs(f, p, k)
                      /\ Laid(f, p, H, t) /\ \A a \in H : IdOK(f[a + 2])
FlashOK(f) ==
  /\ IsFlash(f) /\ WordsOK(f)
  /\ \A p \in Page : PageOK(f, p, HeadersOf(f, p), End(f, p))
  /\ \/ \E p \in Page : Kind(f, p) = "GC"
     \/ \A p \in Page : Kind(f, p) = "SWAP" => End(f, p) = Base(p)
  /\ \E p \in Page : Kind(f, p) # "VALID"

\* What a flash operation makes of a page, and of no other.
Changes(f, g, p, k, H, t) ==
  /\ IsFlash(g) /\ WordsOK(g)
  /\ \A q \in Page : q # p => Same(f, g, q)
  /\ KindIs(g, p, k) /\ Laid(g, p, H, t) /\ \A a \in H : IdOK(g[a + 2])

\* The next header depends on the length alone.
LEMMA NextSame ==
  ASSUME NEW f, NEW g, NEW a, LengthWords(g[a]) = LengthWords(f[a])
  PROVE  NextRecord(g, a) = NextRecord(f, a)
BY DEF NextRecord

\* With the same headers the records lie where they lay.
LEMMA LaidSame ==
  ASSUME NEW f, NEW p \in Page, NEW H, NEW t, Laid(f, p, H, t), NEW g,
         \A a \in H : g[a] \in TLs /\ LengthWords(g[a]) = LengthWords(f[a]),
         Blank(g, t, EndAddr(p) - 1)
  PROVE  Laid(g, p, H, t)
<1>1. \A a \in H : NextRecord(g, a) = NextRecord(f, a)
  BY NextSame
<1> QED
  BY <1>1 DEF Laid

\* Where the words of records are.
LEMMA RecordIn ==
  ASSUME NEW f, NEW p \in Page, NEW H, NEW t, Laid(f, p, H, t), NEW a \in H
  PROVE  \E n \in Nat, s \in Nat, z \in Nat :
           /\ s = StartAddr(p) /\ z = EndAddr(p) /\ t \in Nat /\ a \in Nat
           /\ n = LengthWords(f[a]) /\ NextRecord(f, a) = a + 3 + n
           /\ s + 4 <= a /\ a + 3 + n <= t /\ t < z /\ s + 4 = Base(p)
<1>1. PICK n \in Nat, v \in {"valid", "invalid"} :
           /\ n = LengthWords(f[a]) /\ NextRecord(f, a) = a + 3 + n
           /\ a \in Nat /\ Base(p) <= a /\ a + 3 + n <= t
  BY HeaderIs
<1>2. PICK s \in Nat, z \in Nat : s = StartAddr(p) /\ z = EndAddr(p) /\ s + 4 = Base(p)
  BY PageIs
<1>3. t \in Nat /\ t < z
  BY <1>2 DEF Laid
<1> QED
  BY <1>1, <1>2, <1>3

\* A page whose words are the same is the same.
LEMMA SamePage ==
  ASSUME NEW f, FlashOK(f), NEW g, WordsOK(g), NEW p \in Page, Same(f, g, p)
  PROVE  /\ Kind(g, p) = Kind(f, p) /\ HeadersOf(g, p) = HeadersOf(f, p) /\ End(g, p) = End(f, p)
         /\ PageOK(g, p, HeadersOf(f, p), End(f, p)) /\ KindIs(g, p, Kind(f, p))
<1>1. PICK s \in Nat : /\ s = StartAddr(p) /\ s + 4 = Base(p) /\ s + Size = EndAddr(p) /\ Size \in Nat /\ Size >= 5
                       /\ s \in StartAddr(p) .. EndAddr(p) - 1 /\ s + 1 \in StartAddr(p) .. EndAddr(p) - 1
                       /\ s + 2 \in StartAddr(p) .. EndAddr(p) - 1 /\ s + 3 \in StartAddr(p) .. EndAddr(p) - 1
  BY TagOffsets
<1>2. g[s] = f[s] /\ g[s + 1] = f[s + 1] /\ g[s + 2] = f[s + 2] /\ g[s + 3] = f[s + 3]
  BY <1>1 DEF Same
<1>3. PICK H, t : H = HeadersOf(f, p) /\ t = End(f, p)
  OBVIOUS
<1>4. PageOK(f, p, H, t)
  BY <1>3 DEF FlashOK
<1>5. PICK k : KindIs(f, p, k)
  BY <1>4 DEF PageOK
<1>6. KindIs(g, p, k)
  <2>1. IsBlank(f, p) => IsBlank(g, p)
    BY DEF IsBlank, Blank, Same
  <2>2. \A w0, w3 : TagIs(f, p, w0, w3) => TagIs(g, p, w0, w3)
    BY <1>1, <1>2 DEF TagIs
  <2> QED
    BY <1>5, <2>1, <2>2 DEF KindIs
<1>7. Kind(f, p) = k /\ Kind(g, p) = k
  BY <1>5, <1>6, Identified
<1>8. ASSUME NEW a \in H
      PROVE  g[a] = f[a] /\ g[a + 2] = f[a + 2]
  <2>1. PICK n \in Nat, r \in Nat, z \in Nat :
           /\ r = StartAddr(p) /\ z = EndAddr(p) /\ t \in Nat /\ a \in Nat
           /\ r + 4 <= a /\ a + 3 + n <= t /\ t < z
    BY ZenonT(40), <1>4, RecordIn DEF PageOK
  <2>2. a \in r .. z - 1 /\ a + 2 \in r .. z - 1
    BY <2>1
  <2> QED
    BY <2>1, <2>2 DEF Same
<1>9. Blank(g, t, EndAddr(p) - 1)
  <2>1. PICK z \in Nat : z = EndAddr(p)
    BY PageIs
  <2>2. t \in Nat /\ s + 4 <= t /\ \A a \in t .. z - 1 : f[a] = Erased
    BY <1>1, <1>4, <2>1 DEF PageOK, Laid, Blank
  <2>3. \A a \in s .. z - 1 : g[a] = f[a]
    BY <1>1, <2>1 DEF Same
  <2>4. \A a \in t .. z - 1 : a \in s .. z - 1
    BY <2>2
  <2> QED
    BY <2>1, <2>2, <2>3, <2>4 DEF Blank
<1>10. Laid(f, p, H, t)
  BY <1>4 DEF PageOK
<1>11. Laid(g, p, H, t)
  <2>1. \A a \in H : g[a] \in TLs /\ LengthWords(g[a]) = LengthWords(f[a])
    BY <1>8, <1>10 DEF Laid
  <2> QED
    BY <1>9, <1>10, <2>1, LaidSame
<1>12. HeadersOf(g, p) = H /\ End(g, p) = t
  BY <1>11, LaidIs
<1>13. \A a \in H : IdOK(g[a + 2])
  BY <1>4, <1>8 DEF PageOK
<1>14. k \in {"SWAP", "VALID", "GC", "ERASED"}
  BY <1>6 DEF KindIs
<1>15. PageOK(g, p, H, t)
  BY <1>6, <1>11, <1>13, <1>14 DEF PageOK
<1> QED
  BY <1>3, <1>6, <1>7, <1>12, <1>15

\* What is found on the pages after such a change.
LEMMA ChangesAre ==
  ASSUME NEW f, FlashOK(f), NEW p \in Page, NEW g, NEW k, NEW H, NEW t, Changes(f, g, p, k, H, t)
  PROVE  /\ Kind(g, p) = k /\ HeadersOf(g, p) = H /\ End(g, p) = t
         /\ \A q \in Page : q # p => /\ Kind(g, q) = Kind(f, q) /\ HeadersOf(g, q) = HeadersOf(f, q)
                                     /\ End(g, q) = End(f, q)
         /\ \A q \in Page : PageOK(g, q, HeadersOf(g, q), End(g, q))
<1>1. WordsOK(g) /\ KindIs(g, p, k) /\ Laid(g, p, H, t) /\ \A a \in H : IdOK(g[a + 2])
  BY DEF Changes
<1>2. Kind(g, p) = k /\ HeadersOf(g, p) = H /\ End(g, p) = t
  BY <1>1, Identified, LaidIs
<1>3. PageOK(g, p, HeadersOf(g, p), End(g, p))
  <2>1. k \in {"SWAP", "VALID", "GC", "ERASED"}
    BY <1>1 DEF KindIs
  <2> QED
    BY <1>1, <1>2, <2>1 DEF PageOK
<1>4. ASSUME NEW q \in Page, q # p
      PROVE  /\ Kind(g, q) = Kind(f, q) /\ HeadersOf(g, q) = HeadersOf(f, q)
             /\ End(g, q) = End(f, q) /\ PageOK(g, q, HeadersOf(g, q), End(g, q))
  <2>1. Same(f, g, q)
    BY <1>4 DEF Changes
  <2> QED
    BY <1>1, <2>1, SamePage
<1> QED
  BY <1>2, <1>3, <1>4

\* A flash of which one page has changed is sound if that page is, and if the kinds of the pages still go together.
LEMMA ChangesOK ==
  ASSUME NEW f, FlashOK(f), NEW p \in Page, NEW g, NEW k, NEW H, NEW t, Changes(f, g, p, k, H, t),
         k # "VALID" \/ \E q \in Page : q # p /\ Kind(f, q) # "VALID",
         \/ k = "GC" \/ \E q \in Page : q # p /\ Kind(f, q) = "GC"
         \/ /\ k = "SWAP" => t = Base(p)
            /\ \A q \in Page : q # p /\ Kind(f, q) = "SWAP" => End(f, q) = Base(q)
  PROVE  FlashOK(g)
<1>1. /\ Kind(g, p) = k /\ HeadersOf(g, p) = H /\ End(g, p) = t
      /\ \A q \in Page : q # p => Kind(g, q) = Kind(f, q) /\ End(g, q) = End(f, q)
      /\ \A q \in Page : PageOK(g, q, HeadersOf(g, q), End(g, q))
  BY ChangesAre
<1>2. IsFlash(g) /\ WordsOK(g)
  BY DEF Changes
<1>3. \E q \in Page : Kind(g, q) # "VALID"
  BY <1>1
<1>4. \/ \E q \in Page : Kind(g, q) = "GC"
      \/ \A q \in Page : Kind(g, q) = "SWAP" => End(g, q) = Base(q)
  <2>1. CASE k = "GC" \/ \E q \in Page : q # p /\ Kind(f, q) = "GC"
    BY <1>1, <2>1
  <2>2. CASE /\ k = "SWAP" => t = Base(p)
             /\ \A q \in Page : q # p /\ Kind(f, q) = "SWAP" => End(f, q) = Base(q)
    BY <1>1, <2>2
  <2> QED
    BY <2>1, <2>2
<1> QED
  BY <1>1, <1>2, <1>3, <1>4 DEF FlashOK

\* A blank page has no records.
LEMMA BlankPage ==
  ASSUME NEW f, WordsOK(f), NEW p \in Page, IsBlank(f, p)
  PROVE  Laid(f, p, {}, Base(p)) /\ HeadersOf(f, p) = {} /\ End(f, p) = Base(p)
<1>1. PICK s \in Nat : s = StartAddr(p) /\ s + 4 = Base(p) /\ s + Size = EndAddr(p) /\ Size \in Nat /\ Size >= 5
  BY TagOffsets
<1>2. Blank(f, Base(p), EndAddr(p) - 1)
  BY <1>1 DEF IsBlank, Blank
<1>3. Laid(f, p, {}, Base(p))
  <2>1. Base(p) \in Nat /\ Base(p) < EndAddr(p) /\ Base(p) <= Base(p)
    BY <1>1
  <2> QED
    BY <1>2, <2>1 DEF Laid
<1> QED
  BY <1>3, LaidIs

\* An erased page is blank and without headers.
LEMMA ErasedPage ==
  ASSUME NEW f, FlashOK(f), NEW p \in Page, Kind(f, p) = "ERASED"
  PROVE  IsBlank(f, p) /\ HeadersOf(f, p) = {} /\ End(f, p) = Base(p)
<1>1. PICK k : KindIs(f, p, k)
  BY DEF FlashOK, PageOK
<1>2. k = "ERASED"
  BY <1>1, Identified
<1>3. IsBlank(f, p)
  BY <1>1, <1>2 DEF KindIs
<1> QED
  BY <1>3, BlankPage DEF FlashOK

\* Every page of a sound flash is of one of the four known kinds.
LEMMA KindKnown ==
  ASSUME NEW f, FlashOK(f), NEW p \in Page
  PROVE  KindIs(f, p, Kind(f, p)) /\ Kind(f, p) \in {"SWAP", "VALID", "GC", "ERASED"}
<1>1. PICK k : KindIs(f, p, k)
  BY DEF FlashOK, PageOK
<1>2. k = Kind(f, p)
  BY <1>1, Identified
<1> QED
  BY <1>1, <1>2 DEF KindIs

After(f, op, n) ==
  [a \in Address |->
     IF a \notin op.dst .. op.dst + n - 1 THEN f[a]
     ELSE IF op.kind = "erase" THEN Erased ELSE Over(f[a], op.words[a - op.dst + 1])]

\* The first m words have been written at dst, and nothing else.
Wrote(f, g, dst, w, m) ==
  /\ \A i \in 1 .. m : g[dst + i - 1] = w[i]
  /\ \A a \in Address : ~ (dst <= a /\ a < dst + m) => g[a] = f[a]

\* A write changes the words it covers, and no others.
LEMMA AfterStore ==
  ASSUME NEW f, NEW dst \in Nat, NEW words, NEW n \in Nat, NEW g, g = After(f, Store(dst, words), n)
  PROVE  /\ IsFlash(g)
         /\ \A a \in Address : dst <= a /\ a < dst + n => g[a] = Over(f[a], words[a - dst + 1])
         /\ \A a \in Address : ~ (dst <= a /\ a < dst + n) => g[a] = f[a]
<1>1. PICK op : op = Store(dst, words)
  OBVIOUS
<1>2. op.dst = dst /\ op.kind = "store" /\ op.words = words
  BY <1>1 DEF Store
<1>3. g = [a \in Address |-> IF a \notin dst .. dst + n - 1 THEN f[a] ELSE Over(f[a], words[a - dst + 1])]
  BY <1>1, <1>2 DEF After
<1>4. IsFlash(g)
  BY <1>3 DEF IsFlash
<1>5. \A a \in Address : a \in Nat
  BY Sizes
<1>6. \A a \in Address : a \in dst .. dst + n - 1 <=> dst <= a /\ a < dst + n
  BY <1>5
<1>7. \A a \in Address : g[a] = IF a \notin dst .. dst + n - 1 THEN f[a] ELSE Over(f[a], words[a - dst + 1])
  BY <1>3
<1> QED
  BY <1>4, <1>6, <1>7

\* On a blank word anything can be written.
LEMMA OverBlank ==
  ASSUME NEW w PROVE Over(Erased, w) = w
<1>1. ~ IsTL(Erased)
  BY DEF IsTL
<1>2. /\ Erased # <<"tag0", "swap">> /\ Erased # <<"tag0", "valid">>
      /\ Erased # <<"tag3", "plain">> /\ Erased # <<"tag3", "gc">>
  BY TagWordOK
<1> QED
  BY <1>1, <1>2 DEF Over

\* A word within a page is not within another.
LEMMA OnlyHere ==
  ASSUME NEW p \in Page, NEW f, NEW g,
         \A a \in Address : ~ (StartAddr(p) <= a /\ a < EndAddr(p)) => g[a] = f[a]
  PROVE  \A q \in Page : q # p => Same(f, g, q)
<1> SUFFICES ASSUME NEW q \in Page, q # p, NEW a \in StartAddr(q) .. EndAddr(q) - 1
             PROVE  g[a] = f[a]
  BY DEF Same
<1>1. PICK s \in Nat, z \in Nat : s = StartAddr(q) /\ z = EndAddr(q)
  BY PageIs
<1>2. a \in Int /\ s <= a /\ a < z
  BY <1>1
<1>3. a \in Address
  BY <1>1, <1>2, PageWords
<1>4. ~ (StartAddr(p) <= a /\ a < EndAddr(p))
  BY <1>1, <1>2, OnePage
<1> QED
  BY <1>3, <1>4

\* The tag of a page is written: the records of it stay where they are.
LEMMA TagChange ==
  ASSUME NEW f, FlashOK(f), NEW p \in Page, NEW g, IsFlash(g), WordsOK(g), NEW k, KindIs(g, p, k),
         \A a \in Address : ~ (StartAddr(p) <= a /\ a < Base(p)) => g[a] = f[a]
  PROVE  Changes(f, g, p, k, HeadersOf(f, p), End(f, p))
<1>1. PICK s \in Nat : s = StartAddr(p) /\ s + 4 = Base(p) /\ s + Size = EndAddr(p) /\ Size \in Nat /\ Size >= 5
  BY TagOffsets
<1>0. \A a \in Address : a \in Nat
  BY Sizes
<1>2. \A q \in Page : q # p => Same(f, g, q)
  <2>1. \A a \in Address : ~ (StartAddr(p) <= a /\ a < EndAddr(p)) => ~ (StartAddr(p) <= a /\ a < Base(p))
    BY <1>0, <1>1
  <2>2. \A a \in Address : ~ (StartAddr(p) <= a /\ a < EndAddr(p)) => g[a] = f[a]
    BY <2>1
  <2> QED
    BY <2>2, OnlyHere
<1>3. PICK H, t : H = HeadersOf(f, p) /\ t = End(f, p) /\ Laid(f, p, H, t) /\ \A a \in H : IdOK(f[a + 2])
  BY DEF FlashOK, PageOK
<1>4. ASSUME NEW a \in Int, Base(p) <= a, a < EndAddr(p)
      PROVE  g[a] = f[a]
  <2>1. a \in Nat /\ StartAddr(p) <= a
    BY <1>1, <1>4
  <2>2. a \in Address
    BY <1>4, <2>1, PageWords
  <2>3. ~ (a < Base(p))
    BY <1>1, <1>4
  <2> QED
    BY <2>2, <2>3
<1>5. ASSUME NEW a \in H
      PROVE  g[a] = f[a] /\ g[a + 2] = f[a + 2]
  <2>1. PICK n \in Nat, r \in Nat, z \in Nat :
           /\ r = StartAddr(p) /\ z = EndAddr(p) /\ t \in Nat /\ a \in Nat
           /\ r + 4 <= a /\ a + 3 + n <= t /\ t < z
    BY <1>3, RecordIn
  <2>2. PICK b \in Nat : b = a + 2
    BY <2>1
  <2>3. Base(p) <= a /\ a < EndAddr(p) /\ Base(p) <= b /\ b < EndAddr(p)
    BY <1>1, <2>1, <2>2
  <2>4. g[a] = f[a] /\ g[b] = f[b]
    BY <1>4, <2>1, <2>2, <2>3
  <2> QED
    BY <2>2, <2>4
<1>6. Blank(g, t, EndAddr(p) - 1)
  <2> SUFFICES ASSUME NEW a \in t .. EndAddr(p) - 1 PROVE g[a] = Erased
    BY DEF Blank
  <2>1. t \in Nat /\ Base(p) <= t /\ f[a] = Erased
    BY <1>3 DEF Laid, Blank
  <2>2. a \in Int /\ Base(p) <= a /\ a < EndAddr(p)
    BY <1>1, <2>1
  <2> QED
    BY <1>4, <2>1, <2>2
<1>7. Laid(g, p, H, t)
  <2>1. \A a \in H : g[a] \in TLs /\ LengthWords(g[a]) = LengthWords(f[a])
    BY <1>3, <1>5 DEF Laid
  <2> QED
    BY <1>3, <1>6, <2>1, LaidSame
<1>8. \A a \in H : IdOK(g[a + 2])
  BY <1>3, <1>5
<1> QED
  BY <1>2, <1>3, <1>7, <1>8 DEF Changes

\* How the words of tags are written over.
LEMMA OverTags ==
  /\ Over(<<"tag0", "swap">>, <<"tag0", "valid">>) = <<"tag0", "valid">>
  /\ Over(<<"tag1">>, <<"tag1">>) = <<"tag1">> /\ Over(<<"tag2">>, <<"tag2">>) = <<"tag2">>
  /\ Over(<<"tag3", "plain">>, <<"tag3", "plain">>) = <<"tag3", "plain">>
  /\ Over(<<"tag3", "plain">>, <<"tag3", "gc">>) = <<"tag3", "gc">>
<1>1. \A v : <<"tag0", v>>[1] = "tag0" /\ <<"tag3", v>>[1] = "tag3"
  OBVIOUS
<1>2. <<"tag1">>[1] = "tag1" /\ <<"tag2">>[1] = "tag2" /\ TLInvalid[1] = "TL"
  BY DEF TLInvalid, TL
<1>3. <<"tag3", "plain">>[2] = "plain" /\ <<"tag3", "gc">>[2] = "gc" /\ <<"tag0", "swap">>[2] = "swap"
      /\ <<"tag0", "valid">>[2] = "valid"
  OBVIOUS
<1>4. /\ \A v : <<"tag0", v>> # TLInvalid /\ <<"tag3", v>> # TLInvalid
      /\ <<"tag1">> # TLInvalid /\ <<"tag2">> # TLInvalid
  BY <1>1, <1>2
<1>5. \A v, w : <<"tag0", v>> # <<"tag3", w>> /\ <<"tag0", v>> # <<"tag1">> /\ <<"tag0", v>> # <<"tag2">>
               /\ <<"tag3", v>> # <<"tag1">> /\ <<"tag3", v>> # <<"tag2">>
  BY <1>1, <1>2
<1>6. <<"tag0", "swap">> # Erased /\ <<"tag0", "valid">> # Erased /\ <<"tag1">> # Erased /\ <<"tag2">> # Erased
      /\ <<"tag3", "plain">> # Erased /\ <<"tag3", "gc">> # Erased
  BY TagWordOK
<1>7. Over(<<"tag0", "swap">>, <<"tag0", "valid">>) = <<"tag0", "valid">>
  BY <1>4, <1>6 DEF Over
<1>8. Over(<<"tag1">>, <<"tag1">>) = <<"tag1">>
  BY <1>4, <1>5, <1>6 DEF Over
<1>9. Over(<<"tag2">>, <<"tag2">>) = <<"tag2">>
  BY <1>4, <1>5, <1>6 DEF Over
<1>10. Over(<<"tag3", "plain">>, <<"tag3", "plain">>) = <<"tag3", "plain">>
  BY <1>3, <1>4, <1>5, <1>6 DEF Over
<1>11. Over(<<"tag3", "plain">>, <<"tag3", "gc">>) = <<"tag3", "gc">>
  BY <1>3, <1>4, <1>5, <1>6 DEF Over
<1> QED
  BY <1>7, <1>8, <1>9, <1>10, <1>11

\* A page is tagged.
LEMMA TagWritten ==
  ASSUME NEW f, FlashOK(f), NEW p \in Page, NEW w0 \in {"swap", "valid"},
         Kind(f, p) = "ERASED" \/ (Kind(f, p) = "SWAP" /\ w0 = "valid"),
         NEW g, g = After(f, Store(StartAddr(p), PageTag(w0, "plain")), 4)
  PROVE  Changes(f, g, p, IF w0 = "swap" THEN "SWAP" ELSE "VALID", HeadersOf(f, p), End(f, p))
<1>1. PICK s \in Nat : /\ s = StartAddr(p) /\ s + 4 = Base(p) /\ s + Size = EndAddr(p) /\ Size \in Nat /\ Size >= 5
                       /\ s \in StartAddr(p) .. EndAddr(p) - 1 /\ s + 1 \in StartAddr(p) .. EndAddr(p) - 1
                       /\ s + 2 \in StartAddr(p) .. EndAddr(p) - 1 /\ s + 3 \in StartAddr(p) .. EndAddr(p) - 1
  BY TagOffsets
<1>0. \A a \in Address : a \in Nat
  BY Sizes
<1>2. PICK tag : tag = PageTag(w0, "plain")
  OBVIOUS
<1>3. tag[1] = <<"tag0", w0>> /\ tag[2] = <<"tag1">> /\ tag[3] = <<"tag2">> /\ tag[4] = <<"tag3", "plain">>
  BY <1>2 DEF PageTag
<1>4. /\ IsFlash(g)
      /\ \A a \in Address : s <= a /\ a < s + 4 => g[a] = Over(f[a], tag[a - s + 1])
      /\ \A a \in Address : ~ (s <= a /\ a < s + 4) => g[a] = f[a]
  BY <1>1, <1>2, AfterStore
<1>5. s \in Address /\ s + 1 \in Address /\ s + 2 \in Address /\ s + 3 \in Address
  <2>1. \A a \in StartAddr(p) .. EndAddr(p) - 1 : a \in Address
    <3> SUFFICES ASSUME NEW a \in StartAddr(p) .. EndAddr(p) - 1 PROVE a \in Address
      OBVIOUS
    <3>1. a \in Int /\ StartAddr(p) <= a /\ a < EndAddr(p)
      BY <1>1
    <3> QED
      BY <3>1, PageWords
  <2> QED
    BY <1>1, <2>1
<1>6. /\ g[s] = Over(f[s], <<"tag0", w0>>) /\ g[s + 1] = Over(f[s + 1], <<"tag1">>)
      /\ g[s + 2] = Over(f[s + 2], <<"tag2">>) /\ g[s + 3] = Over(f[s + 3], <<"tag3", "plain">>)
  <2>1. s - s + 1 = 1 /\ s + 1 - s + 1 = 2 /\ s + 2 - s + 1 = 3 /\ s + 3 - s + 1 = 4
    OBVIOUS
  <2>2. g[s] = Over(f[s], tag[s - s + 1]) /\ g[s + 1] = Over(f[s + 1], tag[s + 1 - s + 1])
    BY <1>4, <1>5
  <2>3. g[s + 2] = Over(f[s + 2], tag[s + 2 - s + 1]) /\ g[s + 3] = Over(f[s + 3], tag[s + 3 - s + 1])
    BY <1>4, <1>5
  <2> QED
    BY <1>3, <2>1, <2>2, <2>3
<1>7. TagIs(g, p, w0, "plain")
  <2>1. CASE Kind(f, p) = "ERASED"
    <3>1. \A a \in StartAddr(p) .. EndAddr(p) - 1 : f[a] = Erased
      BY <2>1, ErasedPage DEF IsBlank, Blank
    <3>2. f[s] = Erased /\ f[s + 1] = Erased /\ f[s + 2] = Erased /\ f[s + 3] = Erased
      BY <1>1, <3>1
    <3> QED
      BY <1>1, <1>6, <3>2, OverBlank DEF TagIs
  <2>2. CASE Kind(f, p) = "SWAP" /\ w0 = "valid"
    <3>1. TagIs(f, p, "swap", "plain")
      BY <2>2, KindKnown DEF KindIs
    <3> QED
      BY <1>1, <1>6, <2>2, <3>1, OverTags DEF TagIs
  <2> QED
    BY <2>1, <2>2
<1>8. PICK k : k = IF w0 = "swap" THEN "SWAP" ELSE "VALID"
  OBVIOUS
<1>9. KindIs(g, p, k)
  BY <1>7, <1>8 DEF KindIs
<1>10. WordsOK(g)
  <2> SUFFICES ASSUME NEW a \in Address PROVE WordOK(g[a])
    BY DEF WordsOK
  <2>1. CASE ~ (s <= a /\ a < s + 4)
    BY <1>4, <2>1 DEF FlashOK, WordsOK
  <2>2. CASE s <= a /\ a < s + 4
    <3>1. a = s \/ a = s + 1 \/ a = s + 2 \/ a = s + 3
      BY <1>0, <2>2
    <3>2. WordOK(g[s]) /\ WordOK(g[s + 1]) /\ WordOK(g[s + 2]) /\ WordOK(g[s + 3])
      BY <1>1, <1>7, TagWordOK DEF TagIs
    <3> QED
      BY <3>1, <3>2
  <2> QED
    BY <2>1, <2>2
<1>11. \A a \in Address : ~ (StartAddr(p) <= a /\ a < Base(p)) => g[a] = f[a]
  BY <1>1, <1>4
<1> QED
  BY <1>4, <1>8, <1>9, <1>10, <1>11, TagChange

\* A page is tagged as the one that is collected.
LEMMA GcTagWritten ==
  ASSUME NEW f, FlashOK(f), NEW p \in Page, Kind(f, p) = "VALID",
         NEW g, g = After(f, Store(StartAddr(p) + 3, <<<<"tag3", "gc">>>>), 1)
  PROVE  Changes(f, g, p, "GC", HeadersOf(f, p), End(f, p))
<1>1. PICK s \in Nat : /\ s = StartAddr(p) /\ s + 4 = Base(p) /\ s + Size = EndAddr(p) /\ Size \in Nat /\ Size >= 5
                       /\ s + 3 \in StartAddr(p) .. EndAddr(p) - 1
  BY TagOffsets
<1>0. \A a \in Address : a \in Nat
  BY Sizes
<1>2. PICK d \in Nat : d = s + 3
  OBVIOUS
<1>3. PICK words : words = <<<<"tag3", "gc">>>> /\ words[1] = <<"tag3", "gc">>
  OBVIOUS
<1>4. /\ IsFlash(g)
      /\ \A a \in Address : d <= a /\ a < d + 1 => g[a] = Over(f[a], words[a - d + 1])
      /\ \A a \in Address : ~ (d <= a /\ a < d + 1) => g[a] = f[a]
  <2>1. g = After(f, Store(d, words), 1) /\ 1 \in Nat
    BY <1>1, <1>2, <1>3
  <2> HIDE <1>3
  <2> QED
    BY <1>2, <2>1, AfterStore
<1>5. d \in Address
  BY <1>1, <1>2, PageWords
<1>6. TagIs(f, p, "valid", "plain")
  BY KindKnown DEF KindIs
<1>7. g[d] = <<"tag3", "gc">>
  <2>1. g[d] = Over(f[d], words[d - d + 1]) /\ d - d + 1 = 1
    BY <1>4, <1>5
  <2>2. f[d] = <<"tag3", "plain">>
    BY <1>1, <1>2, <1>6 DEF TagIs
  <2> QED
    BY <1>3, <2>1, <2>2, OverTags
<1>8. \A a \in Address : a # d => g[a] = f[a]
  BY <1>0, <1>4
<1>9. s \in Address /\ s + 1 \in Address /\ s + 2 \in Address /\ s # d /\ s + 1 # d /\ s + 2 # d
  <2>1. \A i \in {0, 1, 2} : s + i \in Int /\ StartAddr(p) <= s + i /\ s + i < EndAddr(p)
    BY <1>1
  <2>2. \A i \in {0, 1, 2} : s + i \in Address
    BY <2>1, PageWords
  <2> QED
    BY <1>2, <2>2
<1>10. TagIs(g, p, "valid", "gc")
  BY <1>1, <1>2, <1>6, <1>7, <1>8, <1>9 DEF TagIs
<1>11. KindIs(g, p, "GC")
  BY <1>10 DEF KindIs
<1>12. WordsOK(g)
  BY <1>7, <1>8, TagWordOK DEF FlashOK, WordsOK
<1>13. \A a \in Address : ~ (StartAddr(p) <= a /\ a < Base(p)) => g[a] = f[a]
  <2>1. StartAddr(p) <= d /\ d < Base(p)
    BY <1>1, <1>2
  <2> QED
    BY <1>8, <2>1
<1> QED
  BY <1>4, <1>11, <1>12, <1>13, TagChange

\* A page is erased.
LEMMA Erasing ==
  ASSUME NEW f, FlashOK(f), NEW p \in Page, NEW g, g = After(f, Erase(p), Size)
  PROVE  Changes(f, g, p, "ERASED", {}, Base(p))
<1>1. PICK s \in Nat : s = StartAddr(p) /\ s + 4 = Base(p) /\ s + Size = EndAddr(p) /\ Size \in Nat /\ Size >= 5
  BY TagOffsets
<1>2. PICK op : op = Erase(p) /\ op.dst = s /\ op.kind = "erase"
  BY <1>1 DEF Erase
<1>3. g = [a \in Address |-> IF a \notin s .. s + Size - 1 THEN f[a] ELSE Erased]
  BY <1>2 DEF After
<1>4. \A a \in Address : g[a] = IF a \notin s .. s + Size - 1 THEN f[a] ELSE Erased
  BY <1>3
<1>5. IsFlash(g)
  BY <1>3 DEF IsFlash
<1>6. WordsOK(g)
  <2>1. WordOK(Erased)
    BY FstorageAssumption DEF WordOK, IsTL
  <2> QED
    BY <1>4, <2>1 DEF FlashOK, WordsOK
<1>7. IsBlank(g, p)
  <2> SUFFICES ASSUME NEW a \in StartAddr(p) .. EndAddr(p) - 1 PROVE g[a] = Erased
    BY DEF IsBlank, Blank
  <2>1. a \in Int /\ StartAddr(p) <= a /\ a < EndAddr(p) /\ a \in s .. s + Size - 1
    BY <1>1
  <2>2. a \in Address
    BY <2>1, PageWords
  <2> QED
    BY <1>4, <2>1, <2>2
<1>8. \A q \in Page : q # p => Same(f, g, q)
  <2>1. \A a \in Address : a \in Nat
    BY Sizes
  <2>2. \A a \in Address : ~ (StartAddr(p) <= a /\ a < EndAddr(p)) => a \notin s .. s + Size - 1
    BY <1>1, <2>1
  <2>3. \A a \in Address : ~ (StartAddr(p) <= a /\ a < EndAddr(p)) => g[a] = f[a]
    BY <1>4, <2>2
  <2> QED
    BY <2>3, OnlyHere
<1>9. Laid(g, p, {}, Base(p))
  BY <1>6, <1>7, BlankPage
<1>10. KindIs(g, p, "ERASED")
  BY <1>7 DEF KindIs
<1> QED
  BY <1>5, <1>6, <1>8, <1>9, <1>10 DEF Changes

\* A write of no words changes nothing.
LEMMA NothingWritten ==
  ASSUME NEW f, IsFlash(f), NEW dst \in Nat, NEW words, NEW g, g = After(f, Store(dst, words), 0)
  PROVE  g = f
<1>1. /\ IsFlash(g)
      /\ \A a \in Address : ~ (dst <= a /\ a < dst + 0) => g[a] = f[a]
  BY AfterStore
<1>2. \A a \in Address : a \in Nat
  BY Sizes
<1>3. \A a \in Address : ~ (dst <= a /\ a < dst + 0)
  BY <1>2
<1>4. \A a \in Address : g[a] = f[a]
  BY <1>1, <1>3
<1> QED
  BY <1>1, <1>4 DEF IsFlash

\* What is written behind the tag of a page leaves the tag.
LEMMA TagKept ==
  ASSUME NEW f, FlashOK(f), NEW p \in Page, Kind(f, p) # "ERASED", NEW g,
         \A a \in Address : ~ (Base(p) <= a /\ a < EndAddr(p)) => g[a] = f[a]
  PROVE  KindIs(g, p, Kind(f, p)) /\ \A q \in Page : q # p => Same(f, g, q)
<1>1. PICK s \in Nat : /\ s = StartAddr(p) /\ s + 4 = Base(p) /\ s + Size = EndAddr(p) /\ Size \in Nat /\ Size >= 5
                       /\ s \in StartAddr(p) .. EndAddr(p) - 1 /\ s + 1 \in StartAddr(p) .. EndAddr(p) - 1
                       /\ s + 2 \in StartAddr(p) .. EndAddr(p) - 1 /\ s + 3 \in StartAddr(p) .. EndAddr(p) - 1
  BY TagOffsets
<1>2. ASSUME NEW a \in Int, s <= a, a < s + 4
      PROVE  g[a] = f[a]
  <2>1. StartAddr(p) <= a /\ a < EndAddr(p) /\ ~ (Base(p) <= a)
    BY <1>1, <1>2
  <2>2. a \in Address
    BY <2>1, PageWords
  <2> QED
    BY <2>1, <2>2
<1>3. g[s] = f[s] /\ g[s + 1] = f[s + 1] /\ g[s + 2] = f[s + 2] /\ g[s + 3] = f[s + 3]
  <2>1. PICK a \in Nat, b \in Nat, c \in Nat : a = s + 1 /\ b = s + 2 /\ c = s + 3
    OBVIOUS
  <2>2. g[s] = f[s] /\ g[a] = f[a] /\ g[b] = f[b] /\ g[c] = f[c]
    BY <1>2, <2>1
  <2> QED
    BY <2>1, <2>2
<1>4. KindIs(f, p, Kind(f, p))
  BY KindKnown
<1>5. \A w0, w3 : TagIs(f, p, w0, w3) => TagIs(g, p, w0, w3)
  BY <1>1, <1>3 DEF TagIs
<1>6. KindIs(g, p, Kind(f, p))
  BY <1>4, <1>5 DEF KindIs
<1>7. \A a \in Address : ~ (StartAddr(p) <= a /\ a < EndAddr(p)) => g[a] = f[a]
  <2>1. \A a \in Address : a \in Nat
    BY Sizes
  <2>2. \A a \in Address : ~ (StartAddr(p) <= a /\ a < EndAddr(p)) => ~ (Base(p) <= a /\ a < EndAddr(p))
    BY <1>1, <2>1
  <2> QED
    BY <2>2
<1> QED
  BY <1>6, <1>7, OnlyHere

\* A header word made from a length is well formed and tells that length.
LEMMA TLMade ==
  ASSUME NEW n \in Nat, n <= Cells, NEW v \in {"valid", "invalid"}
  PROVE  /\ TL(n, v) \in TLs /\ IsTL(TL(n, v)) /\ LengthWords(TL(n, v)) = n /\ WordOK(TL(n, v))
         /\ TL(n, v) # Erased /\ TL(n, v)[2] = n /\ TL(n, v)[3] = v
<1>1. n \in 0 .. TooLong
  BY Sizes
<1>2. TL(n, v) \in TLs
  BY <1>1 DEF TLs
<1>3. PICK w : w = TL(n, v) /\ w \in TLs
  BY <1>2
<1>4. PICK m \in Nat, u \in {"valid", "invalid"} :
           /\ w = TL(m, u) /\ IsTL(w) /\ LengthWords(w) = m /\ w[2] = m /\ w[3] = u
           /\ w # Erased /\ w # Mixed
  BY <1>3, TLIs
<1>5. TL(n, v)[2] = n /\ TL(n, v)[3] = v
  BY DEF TL
<1>6. m = n /\ u = v
  BY <1>3, <1>4, <1>5
<1> QED
  BY <1>2, <1>3, <1>4, <1>6 DEF WordOK

\* What a page holds before its end.
LEMMA EndIs ==
  ASSUME NEW f, FlashOK(f), NEW p \in Page
  PROVE  \E s \in Nat, t \in Nat, z \in Nat :
           /\ s = StartAddr(p) /\ t = End(f, p) /\ z = EndAddr(p) /\ s + 4 = Base(p) /\ s + 4 <= t /\ t < z
           /\ z = s + Size
           /\ \A a \in t .. z - 1 : f[a] = Erased
           /\ Laid(f, p, HeadersOf(f, p), t) /\ \A a \in HeadersOf(f, p) : IdOK(f[a + 2])
<1>1. PICK s \in Nat : s = StartAddr(p) /\ s + 4 = Base(p) /\ s + Size = EndAddr(p) /\ Size \in Nat /\ Size >= 5
  BY TagOffsets
<1>2. PICK t : t = End(f, p)
  OBVIOUS
<1>3. Laid(f, p, HeadersOf(f, p), t) /\ \A a \in HeadersOf(f, p) : IdOK(f[a + 2])
  BY <1>2 DEF FlashOK, PageOK
<1>4. t \in Nat /\ s + 4 <= t /\ t < EndAddr(p) /\ \A a \in t .. EndAddr(p) - 1 : f[a] = Erased
  BY <1>1, <1>3 DEF Laid, Blank
<1>5. EndAddr(p) \in Nat
  BY <1>1
<1> QED
  BY <1>1, <1>2, <1>3, <1>4, <1>5

\* A record is begun behind the last one: its header, and as much behind it as is written.
LEMMA HeaderWritten ==
  ASSUME NEW f, FlashOK(f), NEW p \in Page, Kind(f, p) # "ERASED",
         NEW dst \in Nat, dst = End(f, p), NEW n \in Nat, dst + 3 + n < EndAddr(p),
         NEW words, words[1] = TL(n, "valid"),
         NEW m \in Nat, 1 <= m, m <= 3 + n, \A i \in 1 .. m : WordOK(words[i]), m >= 3 => IdOK(words[3]),
         NEW g, g = After(f, Store(dst, words), m)
  PROVE  /\ Changes(f, g, p, Kind(f, p), HeadersOf(f, p) \cup {dst}, dst + 3 + n)
         /\ g[dst] = TL(n, "valid") /\ Wrote(f, g, dst, words, m)
<1>1. PICK s \in Nat, t \in Nat, z \in Nat :
           /\ s = StartAddr(p) /\ t = dst /\ z = EndAddr(p) /\ s + 4 = Base(p) /\ s + 4 <= t /\ t < z
           /\ \A a \in t .. z - 1 : f[a] = Erased
           /\ Laid(f, p, HeadersOf(f, p), t) /\ \A a \in HeadersOf(f, p) : IdOK(f[a + 2])
  BY EndIs
<1>2. PICK H : H = HeadersOf(f, p)
  OBVIOUS
<1>3. \A a \in Address : a \in Nat
  BY Sizes
<1>4. /\ IsFlash(g)
      /\ \A a \in Address : dst <= a /\ a < dst + m => g[a] = Over(f[a], words[a - dst + 1])
      /\ \A a \in Address : ~ (dst <= a /\ a < dst + m) => g[a] = f[a]
  BY AfterStore
<1>5. \A a \in Int : s <= a /\ a < z => a \in Address
  BY <1>1, PageWords
<1>6. \A i \in 1 .. m : g[dst + i - 1] = words[i]
  <2> SUFFICES ASSUME NEW i \in 1 .. m PROVE g[dst + i - 1] = words[i]
    OBVIOUS
  <2>1. PICK a \in Nat : a = dst + i - 1 /\ dst <= a /\ a < dst + m /\ a < z /\ a - dst + 1 = i
    <3>1. dst + i - 1 \in Nat /\ dst + i - 1 < z
      BY <1>1
    <3> QED
      BY <3>1
  <2>2. a \in Address /\ a \in t .. z - 1
    BY <1>1, <1>5, <2>1
  <2>3. g[a] = Over(f[a], words[a - dst + 1]) /\ f[a] = Erased
    BY <1>1, <1>4, <2>1, <2>2
  <2> QED
    BY <2>1, <2>3, OverBlank
<1>7. g[dst] = TL(n, "valid")
  <2>1. 1 \in 1 .. m /\ dst + 1 - 1 = dst
    OBVIOUS
  <2> QED
    BY <1>6, <2>1
<1>8. \A a \in Address : ~ (Base(p) <= a /\ a < EndAddr(p)) => g[a] = f[a]
  <2>1. \A a \in Address : ~ (Base(p) <= a /\ a < EndAddr(p)) => ~ (dst <= a /\ a < dst + m)
    BY <1>1, <1>3
  <2> QED
    BY <1>4, <2>1
<1>9. KindIs(g, p, Kind(f, p)) /\ \A q \in Page : q # p => Same(f, g, q)
  BY <1>8, TagKept
<1>10. WordsOK(g)
  <2> SUFFICES ASSUME NEW a \in Address PROVE WordOK(g[a])
    BY DEF WordsOK
  <2>1. CASE ~ (dst <= a /\ a < dst + m)
    BY <1>4, <2>1 DEF FlashOK, WordsOK
  <2>2. CASE dst <= a /\ a < dst + m
    <3>1. PICK i \in 1 .. m : a = dst + i - 1
      <4>1. a - dst + 1 \in 1 .. m /\ a = dst + (a - dst + 1) - 1
        BY <1>3, <2>2
      <4> QED
        BY <4>1
    <3> QED
      BY <1>6, <3>1
  <2> QED
    BY <2>1, <2>2
<1>11. ASSUME NEW a \in Int, s <= a, a < dst
       PROVE  g[a] = f[a]
  <2>1. a \in Address /\ ~ (dst <= a /\ a < dst + m)
    BY <1>1, <1>5, <1>11
  <2> QED
    BY <1>4, <2>1
<1>12. ASSUME NEW a \in Int, dst + m <= a, a < z
       PROVE  g[a] = Erased
  <2>1. a \in Address /\ ~ (dst <= a /\ a < dst + m) /\ a \in t .. z - 1
    BY <1>1, <1>5, <1>12
  <2> QED
    BY <1>1, <1>4, <2>1
<1>13. ASSUME NEW a \in H
       PROVE  /\ a \in Nat /\ s + 4 <= a /\ a < dst /\ g[a] = f[a] /\ g[a + 2] = f[a + 2] /\ f[a] \in TLs
              /\ NextRecord(g, a) = NextRecord(f, a) /\ NextRecord(f, a) <= dst /\ NextRecord(f, a) \in H \cup {dst}
  <2>1. PICK k \in Nat, r \in Nat, y \in Nat :
           /\ r = StartAddr(p) /\ y = EndAddr(p) /\ t \in Nat /\ a \in Nat
           /\ k = LengthWords(f[a]) /\ NextRecord(f, a) = a + 3 + k
           /\ r + 4 <= a /\ a + 3 + k <= t /\ t < y
    BY <1>1, <1>2, RecordIn
  <2>2. PICK b \in Nat : b = a + 2 /\ b < dst /\ a < dst
    BY <1>1, <2>1
  <2>3. g[a] = f[a] /\ g[b] = f[b]
    BY <1>1, <1>11, <2>1, <2>2
  <2>4. NextRecord(g, a) = NextRecord(f, a)
    BY <2>3, NextSame
  <2>5. f[a] \in TLs /\ NextRecord(f, a) \in H \cup {dst}
    BY <1>1, <1>2 DEF Laid
  <2> QED
    BY <1>1, <2>1, <2>2, <2>3, <2>4, <2>5
<1>14. PICK u \in Nat : u = dst + 3 + n /\ u < z
  BY <1>1
<1>15. n <= Cells /\ TL(n, "valid") \in TLs /\ LengthWords(TL(n, "valid")) = n
  <2>1. z <= Cells /\ Cells \in Nat
    BY <1>1, PageIs, Sizes
  <2>2. n <= Cells
    BY <1>14, <2>1
  <2> QED
    BY <2>2, TLMade
<1>16. NextRecord(g, dst) = u
  BY <1>7, <1>14, <1>15 DEF NextRecord, FDS_HEADER_SIZE
<1>17. Laid(g, p, H \cup {dst}, u)
  <2>1. u \in Nat /\ Base(p) <= u /\ u < EndAddr(p)
    BY <1>1, <1>14
  <2>2. Blank(g, u, EndAddr(p) - 1)
    <3> SUFFICES ASSUME NEW a \in u .. EndAddr(p) - 1 PROVE g[a] = Erased
      BY DEF Blank
    <3>1. a \in Int /\ dst + m <= a /\ a < z
      BY <1>1, <1>14
    <3> QED
      BY <1>12, <3>1
  <2>3. H \cup {dst} \subseteq Base(p) .. u - 1
    <3> SUFFICES ASSUME NEW a \in H \cup {dst} PROVE a \in Base(p) .. u - 1
      OBVIOUS
    <3>1. a \in Nat /\ s + 4 <= a /\ a <= dst
      BY <1>1, <1>13
    <3> QED
      BY <1>1, <1>14, <3>1
  <2>4. Base(p) \in (H \cup {dst}) \cup {u}
    <3>1. Base(p) \in H \cup {t}
      BY <1>1, <1>2 DEF Laid
    <3> QED
      BY <1>1, <3>1
  <2>5. \A a \in H \cup {dst} : g[a] \in TLs /\ NextRecord(g, a) \in (H \cup {dst}) \cup {u}
    BY <1>7, <1>13, <1>15, <1>16
  <2>6. \A a, b \in H \cup {dst} : a < b => NextRecord(g, a) <= b
    <3> SUFFICES ASSUME NEW a \in H \cup {dst}, NEW b \in H \cup {dst}, a < b PROVE NextRecord(g, a) <= b
      OBVIOUS
    <3>1. CASE a \in H /\ b \in H
      <4>1. NextRecord(f, a) <= b
        BY <1>1, <1>2, <3>1 DEF Laid
      <4> QED
        BY <1>13, <3>1, <4>1
    <3>2. CASE a \in H /\ b = dst
      BY <1>13, <3>2
    <3>3. CASE a = dst
      <4>1. b \in Nat /\ b <= dst
        BY <1>13
      <4> QED
        BY <3>3, <4>1
    <3> QED
      BY <3>1, <3>2, <3>3
  <2> QED
    BY <2>1, <2>2, <2>3, <2>4, <2>5, <2>6 DEF Laid
<1>18. ASSUME NEW a \in H \cup {dst}
       PROVE  IdOK(g[a + 2])
  <2>1. CASE a \in H
    BY <1>1, <1>2, <1>13, <2>1
  <2>2. CASE a = dst
    <3>1. CASE m >= 3
      <4>1. 3 \in 1 .. m /\ dst + 3 - 1 = dst + 2
        BY <3>1
      <4>2. g[dst + 3 - 1] = words[3]
        BY <1>6, <4>1
      <4> QED
        BY <2>2, <3>1, <4>1, <4>2
    <3>2. CASE m < 3
      <4>1. PICK b \in Nat : b = dst + 2 /\ dst + m <= b /\ b < z
        BY <1>14, <3>2
      <4>2. g[b] = Erased
        BY <1>12, <4>1
      <4> QED
        BY <2>2, <4>1, <4>2 DEF IdOK
    <3> QED
      BY <3>1, <3>2
  <2> QED
    BY <2>1, <2>2
<1>19. Changes(f, g, p, Kind(f, p), H \cup {dst}, u)
  BY <1>4, <1>9, <1>10, <1>17, <1>18 DEF Changes
<1>20. Wrote(f, g, dst, words, m)
  BY <1>4, <1>6 DEF Wrote
<1> QED
  BY <1>2, <1>7, <1>14, <1>19, <1>20

\* A page with records is not blank.
LEMMA HeaderMeans ==
  ASSUME NEW f, FlashOK(f), NEW p \in Page, NEW a \in HeadersOf(f, p)
  PROVE  /\ Kind(f, p) # "ERASED"
         /\ \E s \in Nat, t \in Nat, z \in Nat, n \in Nat :
              /\ s = StartAddr(p) /\ t = End(f, p) /\ z = EndAddr(p) /\ s + 4 = Base(p)
              /\ n = LengthWords(f[a]) /\ a \in Nat /\ NextRecord(f, a) = a + 3 + n
              /\ s + 4 <= a /\ a + 3 + n <= t /\ t < z /\ f[a] \in TLs
              /\ \A b \in HeadersOf(f, p) : b > a => b >= a + 3 + n
<1>1. Kind(f, p) # "ERASED"
  BY ErasedPage
<1>2. PICK t \in Nat : t = End(f, p) /\ Laid(f, p, HeadersOf(f, p), t)
  BY EndIs
<1>3. PICK n \in Nat, s \in Nat, z \in Nat :
           /\ s = StartAddr(p) /\ z = EndAddr(p) /\ t \in Nat /\ a \in Nat
           /\ n = LengthWords(f[a]) /\ NextRecord(f, a) = a + 3 + n
           /\ s + 4 <= a /\ a + 3 + n <= t /\ t < z /\ s + 4 = Base(p)
  BY SMTT(20), <1>2, RecordIn
<1>4. ASSUME NEW b \in HeadersOf(f, p), b > a
      PROVE  b >= a + 3 + n
  <2>1. b \in Nat
    <3>1. HeadersOf(f, p) \subseteq Base(p) .. t - 1
      BY <1>2 DEF Laid
    <3>2. b \in Base(p) .. t - 1
      BY <3>1
    <3> QED
      BY <1>3, <3>2
  <2>2. NextRecord(f, a) <= b
    BY <1>2, <1>3, <1>4, <2>1 DEF Laid
  <2> QED
    BY <1>3, <2>1, <2>2
<1>5. f[a] \in TLs
  BY <1>2 DEF Laid
<1> QED
  BY <1>1, <1>2, <1>3, <1>4, <1>5

\* Words are written within a record, behind its header.
LEMMA BodyWritten ==
  ASSUME NEW f, FlashOK(f), NEW p \in Page, NEW a \in HeadersOf(f, p),
         NEW dst \in Nat, a < dst, NEW words, NEW m \in Nat, dst + m <= NextRecord(f, a),
         \A i \in 1 .. m : f[dst + i - 1] = Erased /\ WordOK(words[i]),
         \A i \in 1 .. m : dst + i - 1 = a + 2 => IdOK(words[i]),
         NEW g, g = After(f, Store(dst, words), m)
  PROVE  /\ Changes(f, g, p, Kind(f, p), HeadersOf(f, p), End(f, p))
         /\ Wrote(f, g, dst, words, m)
<1>1. PICK s \in Nat, t \in Nat, z \in Nat, n \in Nat :
              /\ s = StartAddr(p) /\ t = End(f, p) /\ z = EndAddr(p) /\ s + 4 = Base(p)
              /\ n = LengthWords(f[a]) /\ a \in Nat /\ NextRecord(f, a) = a + 3 + n
              /\ s + 4 <= a /\ a + 3 + n <= t /\ t < z /\ f[a] \in TLs
              /\ \A b \in HeadersOf(f, p) : b > a => b >= a + 3 + n
  BY HeaderMeans
<1>2. PICK H : H = HeadersOf(f, p)
  OBVIOUS
<1>3. \A b \in Address : b \in Nat
  BY Sizes
<1>4. /\ IsFlash(g)
      /\ \A b \in Address : dst <= b /\ b < dst + m => g[b] = Over(f[b], words[b - dst + 1])
      /\ \A b \in Address : ~ (dst <= b /\ b < dst + m) => g[b] = f[b]
  BY AfterStore
<1>5. \A b \in Int : s <= b /\ b < z => b \in Address
  BY <1>1, PageWords
<1>6. \A i \in 1 .. m : g[dst + i - 1] = words[i]
  <2> SUFFICES ASSUME NEW i \in 1 .. m PROVE g[dst + i - 1] = words[i]
    OBVIOUS
  <2>1. PICK b \in Nat : b = dst + i - 1 /\ dst <= b /\ b < dst + m /\ s <= b /\ b < z /\ b - dst + 1 = i
    <3>1. dst + i - 1 \in Nat /\ dst + i - 1 < z
      BY <1>1
    <3> QED
      BY <1>1, <3>1
  <2>2. b \in Address
    BY <1>5, <2>1
  <2>3. g[b] = Over(f[b], words[b - dst + 1]) /\ f[b] = Erased
    BY <1>4, <2>1, <2>2
  <2> QED
    BY <2>1, <2>3, OverBlank
<1>8. \A b \in Address : ~ (Base(p) <= b /\ b < EndAddr(p)) => g[b] = f[b]
  <2>1. \A b \in Address : ~ (Base(p) <= b /\ b < EndAddr(p)) => ~ (dst <= b /\ b < dst + m)
    BY <1>1, <1>3
  <2> QED
    BY <1>4, <2>1
<1>9. KindIs(g, p, Kind(f, p)) /\ \A q \in Page : q # p => Same(f, g, q)
  BY <1>8, TagKept, HeaderMeans
<1>10. WordsOK(g)
  <2> SUFFICES ASSUME NEW b \in Address PROVE WordOK(g[b])
    BY DEF WordsOK
  <2>1. CASE ~ (dst <= b /\ b < dst + m)
    BY <1>4, <2>1 DEF FlashOK, WordsOK
  <2>2. CASE dst <= b /\ b < dst + m
    <3>1. PICK i \in 1 .. m : b = dst + i - 1
      <4>1. b - dst + 1 \in 1 .. m /\ b = dst + (b - dst + 1) - 1
        BY <1>3, <2>2
      <4> QED
        BY <4>1
    <3> QED
      BY <1>6, <3>1
  <2> QED
    BY <2>1, <2>2
<1>13. ASSUME NEW b \in H
       PROVE  /\ g[b] = f[b] /\ f[b] \in TLs /\ IdOK(g[b + 2])
  <2>1. PICK r \in Nat, u \in Nat, y \in Nat, k \in Nat :
              /\ r = StartAddr(p) /\ u = End(f, p) /\ y = EndAddr(p) /\ r + 4 = Base(p)
              /\ k = LengthWords(f[b]) /\ b \in Nat /\ NextRecord(f, b) = b + 3 + k
              /\ r + 4 <= b /\ b + 3 + k <= u /\ u < y /\ f[b] \in TLs
              /\ \A c \in HeadersOf(f, p) : c > b => c >= b + 3 + k
    BY <1>2, HeaderMeans
  <2>2. b \in Address /\ ~ (dst <= b /\ b < dst + m)
    <3>1. b > a => b >= a + 3 + n
      BY <1>1, <1>2
    <3> QED
      BY <1>1, <1>5, <2>1, <3>1
  <2>3. g[b] = f[b]
    BY <1>4, <2>2
  <2>4. PICK c \in Nat : c = b + 2 /\ c \in Address
    <3>1. b + 2 \in Nat /\ s <= b + 2 /\ b + 2 < z
      BY <1>1, <2>1
    <3> QED
      BY <1>5, <3>1
  <2>5. IdOK(f[c])
    BY <1>2, <2>4, EndIs
  <2>6. IdOK(g[c])
    <3>1. CASE ~ (dst <= c /\ c < dst + m)
      BY <1>4, <2>4, <2>5, <3>1
    <3>2. CASE dst <= c /\ c < dst + m
      <4>1. b = a
        <5>1. b > a => b >= a + 3 + n
          BY <1>1, <1>2
        <5>2. a > b => a >= b + 3 + k
          BY <1>1, <1>2, <2>1
        <5> QED
          BY <1>1, <2>1, <2>4, <3>2, <5>1, <5>2
      <4>2. PICK i \in 1 .. m : c = dst + i - 1
        <5>1. c - dst + 1 \in 1 .. m /\ c = dst + (c - dst + 1) - 1
          BY <2>4, <3>2
        <5> QED
          BY <5>1
      <4>3. IdOK(words[i])
        BY <2>4, <4>1, <4>2
      <4> QED
        BY <1>6, <4>2, <4>3
    <3> QED
      BY <3>1, <3>2
  <2> QED
    BY <2>1, <2>3, <2>4, <2>6
<1>14. Laid(f, p, H, t)
  BY <1>1, <1>2, EndIs
<1>15. Blank(g, t, EndAddr(p) - 1)
  <2> SUFFICES ASSUME NEW b \in t .. EndAddr(p) - 1 PROVE g[b] = Erased
    BY DEF Blank
  <2>1. b \in Int /\ s <= b /\ b < z /\ ~ (dst <= b /\ b < dst + m)
    BY <1>1
  <2>2. f[b] = Erased
    BY <1>1, <1>14 DEF Laid, Blank
  <2> QED
    BY <1>4, <1>5, <2>1, <2>2
<1>16. Laid(g, p, H, t)
  BY <1>13, <1>14, <1>15, LaidSame
<1>17. Changes(f, g, p, Kind(f, p), H, t)
  BY <1>4, <1>9, <1>10, <1>13, <1>16 DEF Changes
<1>18. Wrote(f, g, dst, words, m)
  BY <1>4, <1>6 DEF Wrote
<1> QED
  BY <1>1, <1>2, <1>17, <1>18

\* The header of a record is invalidated.
LEMMA Invalidated ==
  ASSUME NEW f, FlashOK(f), NEW p \in Page, NEW a \in HeadersOf(f, p),
         NEW g, g = After(f, Store(a, <<TLInvalid>>), 1)
  PROVE  /\ Changes(f, g, p, Kind(f, p), HeadersOf(f, p), End(f, p))
         /\ g[a] = TL(LengthWords(f[a]), "invalid")
         /\ \A b \in Address : b # a => g[b] = f[b]
<1>1. PICK s \in Nat, t \in Nat, z \in Nat, n \in Nat :
              /\ s = StartAddr(p) /\ t = End(f, p) /\ z = EndAddr(p) /\ s + 4 = Base(p)
              /\ n = LengthWords(f[a]) /\ a \in Nat /\ NextRecord(f, a) = a + 3 + n
              /\ s + 4 <= a /\ a + 3 + n <= t /\ t < z /\ f[a] \in TLs
              /\ \A b \in HeadersOf(f, p) : b > a => b >= a + 3 + n
  BY HeaderMeans
<1>2. PICK H : H = HeadersOf(f, p)
  OBVIOUS
<1>3. \A b \in Address : b \in Nat
  BY Sizes
<1>0. PICK words : words = <<TLInvalid>> /\ words[1] = TLInvalid
  OBVIOUS
<1>4. /\ IsFlash(g)
      /\ \A b \in Address : a <= b /\ b < a + 1 => g[b] = Over(f[b], words[b - a + 1])
      /\ \A b \in Address : ~ (a <= b /\ b < a + 1) => g[b] = f[b]
  <2>1. g = After(f, Store(a, words), 1) /\ 1 \in Nat /\ a \in Nat
    BY <1>0, <1>1
  <2> QED
    BY ONLY <2>1, AfterStore
<1>5. \A b \in Int : s <= b /\ b < z => b \in Address
  BY <1>1, PageWords
<1>6. \A b \in Address : b # a => g[b] = f[b]
  BY <1>1, <1>3, <1>4
<1>7. g[a] = TL(n, "invalid")
  <2>1. a \in Address
    BY <1>1, <1>5
  <2>2. g[a] = Over(f[a], words[a - a + 1]) /\ a - a + 1 = 1
    BY <1>1, <1>4, <2>1
  <2>3. PICK w : w = f[a]
    OBVIOUS
  <2>4. PICK k \in Nat, v \in {"valid", "invalid"} :
           /\ k <= Cells /\ w = TL(k, v) /\ IsTL(w) /\ LengthWords(w) = k /\ w[2] = k /\ w[3] = v
           /\ w # Erased /\ w # Mixed
    BY <1>1, <2>3, TLIs
  <2>5. \A y : <<"tag0", y>>[1] = "tag0" /\ <<"tag3", y>>[1] = "tag3"
    OBVIOUS
  <2>6. w[1] = "TL"
    BY <2>4 DEF IsTL
  <2>7. Over(w, TLInvalid) = TL(w[2], "invalid")
    <3>1. \A y : w # <<"tag0", y>> /\ w # <<"tag3", y>>
      BY <2>5, <2>6
    <3> QED
      BY <2>4, <3>1 DEF Over
  <2> QED
    BY <1>0, <1>1, <2>2, <2>3, <2>4, <2>7
<1>8. TL(n, "invalid") \in TLs /\ LengthWords(TL(n, "invalid")) = n /\ WordOK(TL(n, "invalid"))
  <2>1. n <= Cells
    BY <1>1, LengthIs, TLIs
  <2> QED
    BY <2>1, TLMade
<1>9. \A b \in Address : ~ (Base(p) <= b /\ b < EndAddr(p)) => g[b] = f[b]
  <2>1. \A b \in Address : ~ (Base(p) <= b /\ b < EndAddr(p)) => b # a
    BY <1>1, <1>3
  <2> QED
    BY <1>6, <2>1
<1>10. KindIs(g, p, Kind(f, p)) /\ \A q \in Page : q # p => Same(f, g, q)
  BY <1>9, TagKept, HeaderMeans
<1>11. WordsOK(g)
  BY <1>6, <1>7, <1>8 DEF FlashOK, WordsOK
<1>12. ASSUME NEW b \in H
       PROVE  g[b] \in TLs /\ LengthWords(g[b]) = LengthWords(f[b]) /\ IdOK(g[b + 2])
  <2>1. PICK r \in Nat, u \in Nat, y \in Nat, k \in Nat :
              /\ r = StartAddr(p) /\ u = End(f, p) /\ y = EndAddr(p) /\ r + 4 = Base(p)
              /\ k = LengthWords(f[b]) /\ b \in Nat /\ NextRecord(f, b) = b + 3 + k
              /\ r + 4 <= b /\ b + 3 + k <= u /\ u < y /\ f[b] \in TLs
              /\ \A c \in HeadersOf(f, p) : c > b => c >= b + 3 + k
    BY <1>2, HeaderMeans
  <2>2. PICK c \in Nat : c = b + 2 /\ c \in Address /\ c # a /\ b \in Address
    <3>1. a > b => a >= b + 3 + k
      BY <1>1, <1>2, <2>1
    <3>2. b + 2 \in Nat /\ s <= b + 2 /\ b + 2 < z /\ s <= b /\ b < z
      BY <1>1, <2>1
    <3> QED
      BY <1>1, <1>5, <2>1, <3>1, <3>2
  <2>3. IdOK(f[c]) /\ g[c] = f[c]
    BY <1>2, <1>6, <2>2, EndIs
  <2>4. CASE b = a
    BY <1>1, <1>7, <1>8, <2>2, <2>3, <2>4
  <2>5. CASE b # a
    BY <1>6, <2>1, <2>2, <2>3, <2>5
  <2> QED
    BY <2>4, <2>5
<1>14. Laid(f, p, H, t)
  BY <1>1, <1>2, EndIs
<1>15. Blank(g, t, EndAddr(p) - 1)
  <2> SUFFICES ASSUME NEW b \in t .. EndAddr(p) - 1 PROVE g[b] = Erased
    BY DEF Blank
  <2>1. b \in Int /\ s <= b /\ b < z /\ b # a
    BY <1>1
  <2>2. f[b] = Erased
    BY <1>1, <1>14 DEF Laid, Blank
  <2> QED
    BY <1>5, <1>6, <2>1, <2>2
<1>16. Laid(g, p, H, t)
  BY <1>12, <1>14, <1>15, LaidSame
<1>17. Changes(f, g, p, Kind(f, p), H, t)
  BY <1>4, <1>10, <1>11, <1>12, <1>16 DEF Changes
<1> QED
  BY <1>1, <1>2, <1>6, <1>7, <1>17

Ram(x) ==
  x = [fs_queue |-> x.fs_queue, fs_flags |-> x.fs_flags, m_retry_count |-> x.m_retry_count,
       reported |-> x.reported, result |-> x.result, sd |-> x.sd, events |-> x.events,
       m_flags |-> x.m_flags, m_last_rec_id |-> x.m_last_rec_id, m_cmd_queue |-> x.m_cmd_queue,
       m_chunk_queue |-> x.m_chunk_queue, m_pages |-> x.m_pages,
       m_swap_page_avail |-> x.m_swap_page_avail, m_gc |-> x.m_gc, m_gc_runs |-> x.m_gc_runs,
       tok |-> x.tok, stack |-> x.stack, kept |-> x.kept]
IsList(q) == \E T : q \in Seq(T)

--------------------------------------------------------------------------------

(* The flash operation under way, and the flash when it is done. *)
Op(x) == Head(x.fs_queue)
Pending(x) == x.fs_queue # <<>> /\ ~("PROCESSING" \in x.fs_flags /\ x.events = <<"SUCCESS">>)
Done(f, op) == After(f, op, Len(op.words))
Now(x, f) == IF Pending(x) THEN Done(f, Op(x)) ELSE f
IsOp(op) == \/ \E d \in Address : \E w : IsList(w) /\ op = Store(d, w)
            \/ \E p \in Page : op = Erase(p)
Cuts(op) == IF Len(op.words) = 0 \/ op.dst % FS_PAGE_SIZE_WORDS = 0 THEN {0, Len(op.words)}
            ELSE 0 .. Len(op.words)
SafeOp(f, op) == IsOp(op) /\ \A n \in Cuts(op) : FlashOK(After(f, op, n))

FsOther(x) == \/ x.sd = Other /\ x.events = <<>>
              \/ x.sd = NoOp /\ x.events \in {<<"SUCCESS">>, <<"ERROR">>}
FsAtWork(x) ==
  \/ x.m_retry_count = 0 /\ x.sd = Op(x) /\ x.events = <<>>
  \/ x.m_retry_count = 0 /\ x.sd = NoOp /\ x.events = <<"SUCCESS">>
  \/ x.m_retry_count = 0 /\ x.sd = NoOp /\ x.events = <<"ERROR">>
  \/ x.m_retry_count = 1 /\ x.sd = NoOp /\ x.events = <<>>
FsOK(x) ==
  /\ x.reported = NoOp /\ x.result = "SUCCESS" /\ x.kept = FALSE
  /\ \/ x.fs_queue = <<>> /\ "PROCESSING" \notin x.fs_flags /\ x.m_retry_count = 0
        /\ (FsOther(x) \/ (x.sd = NoOp /\ x.events = <<>>))
     \/ \E op : x.fs_queue = <<op>> /\ IsOp(op)
        /\ \/ "PROCESSING" \notin x.fs_flags /\ x.m_retry_count = 0 /\ FsOther(x)
           \/ "PROCESSING" \in x.fs_flags /\ FsAtWork(x)

--------------------------------------------------------------------------------

(* The pages. *)
IsPage(d) ==
  /\ d = [page_type |-> d.page_type, vpage_id |-> d.vpage_id, write_offset |-> d.write_offset,
          words_reserved |-> d.words_reserved, records_open |-> d.records_open]
  /\ d.page_type \in PageTypes /\ d.vpage_id \in Page
  /\ d.write_offset \in Nat /\ d.words_reserved \in Nat
PagesTyped(pages) == pages = [p \in Page |-> pages[p]] /\ \A p \in Page : IsPage(pages[p])
Apart(pages) == \A p, q \in Page : pages[p].vpage_id = pages[q].vpage_id => p = q
ValidPage(pages, v) == \E p \in Page : pages[p].page_type = "VALID" /\ pages[p].vpage_id = v

IsGc(gc) ==
  /\ gc = [state |-> gc.state, cur_page |-> gc.cur_page, swap_page |-> gc.swap_page,
           p_scan_addr |-> gc.p_scan_addr, do_gc_page |-> gc.do_gc_page]
  /\ gc.cur_page \in Page /\ gc.swap_page \in Page /\ gc.do_gc_page \subseteq Page

IsCmd(c) ==
  /\ c = [id |-> c.id, op_code |-> c.op_code, num_chunks |-> c.num_chunks,
          chunk_offset |-> c.chunk_offset, vpage_id |-> c.vpage_id, record_id |-> c.record_id,
          length_words |-> c.length_words, instance |-> c.instance, data |-> c.data]
  /\ c.num_chunks \in Nat /\ c.chunk_offset \in Nat /\ c.vpage_id \in Page
  /\ c.record_id \in 0 .. MaxId /\ c.length_words \in Nat
IsStore(c) == c.id \in {"WRITE", "UPDATE"}
Fresh(c) ==
  \/ IsStore(c) /\ c.op_code = "WRITE_TL" /\ c.num_chunks >= 1 /\ c.chunk_offset = 3
  \/ c.id = "CLEAR" /\ c.op_code = "CLEAR_TL"
  \/ c.id = "CLEAR_INST" /\ c.op_code = "CLEAR_INSTANCE"
  \/ c.id = "GC"
CmdOK(pages, c) ==
  /\ IsCmd(c)
  /\ IsStore(c) => ValidPage(pages, c.vpage_id) /\ c.instance \in Slots
  /\ c.id = "CLEAR" => ValidPage(pages, c.vpage_id)
Mid == {"GC_PAGE", "COPY_RECORD", "READY_SWAP", "NEW_SWAP", "INIT_SWAP"}
HeadIs(q, ids) == q # <<>> /\ Head(q).id \in ids
QueueOK(pages, q, gc) ==
  /\ IsList(q)
  /\ \A n \in 1 .. Len(q) : CmdOK(pages, q[n])
  /\ \A n \in 1 .. Len(q) : n > 1 => Fresh(q[n])
  /\ \A m, n \in 1 .. Len(q) : q[m].id = "GC" /\ q[n].id = "GC" => m = n
  /\ \A n \in 1 .. Len(q) : q[n].id = "GC" => gc.state = "BEGIN" \/ (n = 1 /\ gc.state \in Mid)

\* The words of the record that is being written, if it is on virtual page v.
Extra(q, v) == IF HeadIs(q, {"WRITE", "UPDATE"}) /\ Head(q).op_code # "WRITE_TL" /\ Head(q).vpage_id = v
               THEN 3 + Head(q).length_words ELSE 0
KindNow(pages, gc, p) ==
  IF gc.state \in {"GC_PAGE", "COPY_RECORD", "READY_SWAP"} /\ p = gc.cur_page THEN "GC"
  ELSE IF gc.state = "READY_SWAP" /\ p = gc.swap_page THEN "VALID"
  ELSE IF gc.state = "NEW_SWAP" /\ p = gc.swap_page THEN "ERASED"
  ELSE pages[p].page_type
KindsOK(pages, gc, g) == \A p \in Page : Kind(g, p) = KindNow(pages, gc, p)
EndsOK(pages, q, g) ==
  \A p \in Page : End(g, p) = StartAddr(p) + pages[p].write_offset + Extra(q, pages[p].vpage_id)
RoomOK(pages, gc) ==
  \A p \in Page :
    /\ pages[p].page_type # "VALID" => pages[p].words_reserved = 0
    /\ pages[p].page_type = "VALID" => pages[p].write_offset + pages[p].words_reserved < FS_PAGE_SIZE_WORDS
    /\ pages[p].page_type = "SWAP" /\ ~(gc.state \in {"COPY_RECORD", "READY_SWAP"} /\ p = gc.swap_page)
         => pages[p].write_offset = 4
PagesOK(pages, q, gc, g) ==
  /\ PagesTyped(pages) /\ Apart(pages) /\ KindsOK(pages, gc, g) /\ EndsOK(pages, q, g) /\ RoomOK(pages, gc)

--------------------------------------------------------------------------------

(* The chunks of the records in the queue. *)
IsChunk(w) == IsList(w) /\ Len(w) >= 1 /\ \A j \in 1 .. Len(w) : w[j] \in DataWords
Spans(c, ch, s) ==
  \E off \in [0 .. c.num_chunks -> 0 .. c.length_words] :
    /\ off[0] = c.chunk_offset - 3 /\ off[c.num_chunks] = c.length_words
    /\ \A i \in 1 .. c.num_chunks : off[i] = off[i - 1] + Len(ch[s + i])
IsRest(rest, q, ch) ==
  /\ rest \in [0 .. Len(q) -> 0 .. Len(ch)]
  /\ rest[0] = Len(ch) /\ rest[Len(q)] = 0
  /\ \A m, n \in 0 .. Len(q) : m <= n => rest[n] <= rest[m]
  /\ \A n \in 1 .. Len(q) : IsStore(q[n]) => rest[n - 1] = rest[n] + q[n].num_chunks
                                              /\ Spans(q[n], ch, Len(ch) - rest[n - 1])
  /\ \A n \in 1 .. Len(q) : ~IsStore(q[n]) => rest[n - 1] = rest[n]
ChunksOK(q, ch) ==
  /\ IsList(ch) /\ \A i \in 1 .. Len(ch) : IsChunk(ch[i])
  /\ \E rest \in [0 .. Len(q) -> 0 .. Len(ch)] : IsRest(rest, q, ch)

--------------------------------------------------------------------------------

(* The words that are reserved. *)
TokenWords(tk, v) == IF tk # <<>> /\ tk.vpage_id = v THEN 3 + SumOf(tk.lengths) ELSE 0
IsDue(due, q, tk, v) ==
  /\ due[Len(q)] = TokenWords(tk, v)
  /\ \A m, n \in 0 .. Len(q) : m <= n => due[n] <= due[m]
  /\ \A n \in 1 .. Len(q) : due[n - 1] = due[n] + WordsFor(q[n], v)
DueWithin(q, tk, v, most) == \E due \in [0 .. Len(q) -> 0 .. most] : IsDue(due, q, tk, v)
TokenOK(pages, tk) ==
  tk # <<>> => /\ tk = [vpage_id |-> tk.vpage_id, lengths |-> tk.lengths]
               /\ ValidPage(pages, tk.vpage_id) /\ tk.lengths \in ChunkLists
SpaceOK(pages, q, tk) ==
  /\ TokenOK(pages, tk)
  /\ \A p \in Page : pages[p].page_type = "VALID"
                     => DueWithin(q, tk, pages[p].vpage_id, pages[p].words_reserved)

StackOK(pages, stack, g) ==
  \/ stack = NULL
  \/ \E p \in Page : pages[p].page_type = "VALID" /\ stack \in HeadersOf(g, p)

--------------------------------------------------------------------------------

(* The collection. *)
GcOK(pages, q, gc, stack, g) ==
  /\ IsGc(gc)
  /\ gc.state \in {"NONE", "BEGIN"} \cup Mid
  /\ gc.state \notin Mid => gc.p_scan_addr = NULL
  /\ gc.state \in Mid => /\ HeadIs(q, {"GC"}) /\ pages[gc.swap_page].page_type = "SWAP" /\ stack = NULL
                         /\ \A p \in gc.do_gc_page : pages[p].page_type = "VALID"
  /\ gc.state \in {"GC_PAGE", "COPY_RECORD", "READY_SWAP"}
       => pages[gc.cur_page].page_type = "VALID" /\ gc.cur_page \notin gc.do_gc_page
  /\ gc.state = "GC_PAGE" => gc.p_scan_addr = NULL /\ pages[gc.swap_page].write_offset = 4
  /\ gc.state = "COPY_RECORD"
       => /\ gc.p_scan_addr \in HeadersOf(g, gc.cur_page)
          /\ pages[gc.swap_page].write_offset - 4
               <= NextRecord(g, gc.p_scan_addr) - Base(gc.cur_page)
  /\ gc.state = "READY_SWAP"
       => pages[gc.swap_page].write_offset <= pages[gc.cur_page].write_offset

IsDesc(pages, d) ==
  /\ d = [vpage_id |-> d.vpage_id, record_id |-> d.record_id, p_rec |-> d.p_rec, gc_magic |-> d.gc_magic]
  /\ ValidPage(pages, d.vpage_id) /\ d.record_id \in 0 .. MaxId
DescsOK(pages, ds) ==
  ds = [s \in Slots |-> ds[s]] /\ \A s \in Slots : ds[s] = <<>> \/ IsDesc(pages, ds[s])

Layout(pages, q, ch, gc, stack, tk, ds, g) ==
  /\ PagesOK(pages, q, gc, g) /\ QueueOK(pages, q, gc) /\ ChunksOK(q, ch) /\ SpaceOK(pages, q, tk)
  /\ StackOK(pages, stack, g) /\ GcOK(pages, q, gc, stack, g) /\ DescsOK(pages, ds)
Core(x, g, tk, ds) == Layout(x.m_pages, x.m_cmd_queue, x.m_chunk_queue, x.m_gc, x.stack, tk, ds, g)

--------------------------------------------------------------------------------

(* Where the running command is. *)
Progress(c, g, a, n, o) ==
  \/ c.op_code = "WRITE_ID" /\ o = 3 /\ c.num_chunks >= 1 /\ Blank(g, a + 1, a + 2 + n)
  \/ c.op_code = "WRITE_CHUNK" /\ o >= 3 /\ c.num_chunks >= 1 /\ g[a + 1] = Erased
     /\ Blank(g, a + o, a + 2 + n)
  \/ c.op_code = "WRITE_IC" /\ o = 3 + n /\ c.num_chunks = 0 /\ g[a + 1] = Erased
  \/ c.op_code = "DONE" /\ o = 3 + n /\ c.num_chunks = 0
WritesAt(pages, c, g, p, a) ==
  /\ pages[p].page_type = "VALID" /\ pages[p].vpage_id = c.vpage_id
  /\ a = StartAddr(p) + pages[p].write_offset /\ a \in HeadersOf(g, p) /\ LengthWords(g[a]) = c.length_words
  /\ Progress(c, g, a, c.length_words, c.chunk_offset)
WritingAt(pages, c, g) == \E p \in Page, a \in Address : WritesAt(pages, c, g, p, a)
AtWork(x, op, g) ==
  \/ /\ HeadIs(x.m_cmd_queue, {"INIT"}) /\ Len(x.m_cmd_queue) = 1 /\ x.m_swap_page_avail = TRUE
     /\ x.m_pages[x.m_gc.swap_page].page_type = "SWAP" /\ x.m_gc.state = "NONE"
     /\ \E p \in Page : op.dst = StartAddr(p)
  \/ HeadIs(x.m_cmd_queue, {"WRITE", "UPDATE"}) /\ WritingAt(x.m_pages, Head(x.m_cmd_queue), g)
  \/ HeadIs(x.m_cmd_queue, {"CLEAR"}) /\ Head(x.m_cmd_queue).op_code = "DONE"
  \/ HeadIs(x.m_cmd_queue, {"CLEAR_INST"}) /\ Head(x.m_cmd_queue).op_code = "CLEAR_INSTANCE"
  \/ HeadIs(x.m_cmd_queue, {"GC"}) /\ x.m_gc.state \in Mid
Stuck(x) ==
  \/ HeadIs(x.m_cmd_queue, {"CLEAR", "CLEAR_INST"}) /\ Head(x.m_cmd_queue).op_code = "DONE"
  \/ HeadIs(x.m_cmd_queue, {"GC"}) /\ x.m_gc.state = "BEGIN"
Place(x, g) ==
  /\ x.m_cmd_queue = <<>> => x.fs_queue = <<>>
  /\ x.m_cmd_queue # <<>> /\ x.fs_queue = <<>> => Stuck(x)
  /\ x.m_cmd_queue # <<>> /\ x.fs_queue # <<>> => AtWork(x, Op(x), g)
FlagsOK(x) ==
  /\ "PROCESSING" \in x.m_flags <=> x.m_cmd_queue # <<>>
  /\ HeadIs(x.m_cmd_queue, {"INIT"}) => "INITIALIZED" \notin x.m_flags /\ "INITIALIZING" \in x.m_flags
  /\ x.m_cmd_queue # <<>> /\ ~HeadIs(x.m_cmd_queue, {"INIT"}) => "INITIALIZED" \in x.m_flags
  /\ "INITIALIZED" \in x.m_flags => x.m_pages[x.m_gc.swap_page].page_type = "SWAP"
                                    /\ x.m_gc.state \in {"NONE", "BEGIN"} \cup Mid
  /\ x.m_last_rec_id \in 0 .. MaxId
BoundsOK(x) == Len(x.m_cmd_queue) <= FDS_CMD_QUEUE_SIZE /\ Len(x.m_chunk_queue) <= FDS_CHUNK_QUEUE_SIZE

\* What SpaceAccounted says of the flash before the operation under way.
Accounts(pages, q, f) ==
  \A p \in Page : pages[p].page_type = "VALID"
    => \/ End(f, p) = StartAddr(p) + pages[p].write_offset
       \/ End(f, p) = StartAddr(p) + pages[p].write_offset + Extra(q, pages[p].vpage_id)

Active(x) == "INITIALIZED" \in x.m_flags \/ x.m_cmd_queue # <<>>
Dormant(x, f, tk, ds) ==
  /\ x.m_chunk_queue = <<>> /\ x.fs_queue = <<>> /\ PagesTyped(x.m_pages) /\ "PROCESSING" \notin x.m_flags
  /\ \A p \in Page : x.m_pages[p].words_reserved < FS_PAGE_SIZE_WORDS /\ x.m_pages[p].write_offset < FS_PAGE_SIZE_WORDS
  /\ \A s \in Slots : ds[s] = <<>> \/ ds[s].record_id \in 0 .. MaxId
  /\ "INITIALIZING" \notin x.m_flags
       => /\ IsGc(x.m_gc) /\ tk = <<>> /\ ds = [s \in Slots |-> <<>>] /\ x.stack = NULL
          /\ \/ \A p \in Page : Kind(f, p) \notin {"VALID", "ERASED"}
             \/ x.m_swap_page_avail = FALSE /\ x.m_gc.state = "NONE" /\ x.m_gc.p_scan_addr = NULL
Good(x, f, tk, ds) ==
  /\ Core(x, Now(x, f), tk, ds) /\ Place(x, Now(x, f)) /\ FlagsOK(x) /\ BoundsOK(x)
  /\ Accounts(x.m_pages, x.m_cmd_queue, f)
  /\ Pending(x) => SafeOp(f, Op(x))

--------------------------------------------------------------------------------

(* Sequences. *)

\* What is known of a list.
LEMMA ListIs ==
  ASSUME NEW q, IsList(q)
  PROVE  /\ Len(q) \in Nat /\ DOMAIN q = 1 .. Len(q) /\ q = [i \in 1 .. Len(q) |-> q[i]]
         /\ q # <<>> <=> Len(q) >= 1
<1>1. PICK T : q \in Seq(T)
  BY DEF IsList
<1> QED
  BY <1>1

\* The head and the tail of a list.
LEMMA ListHead ==
  ASSUME NEW q, IsList(q), q # <<>>
  PROVE  /\ Head(q) = q[1] /\ IsList(Tail(q)) /\ Len(Tail(q)) = Len(q) - 1
         /\ \A n \in 1 .. Len(q) - 1 : Tail(q)[n] = q[n + 1]
<1>1. PICK T : q \in Seq(T)
  BY DEF IsList
<1>2. Tail(q) \in Seq(T)
  BY <1>1
<1>3. IsList(Tail(q))
  BY <1>2 DEF IsList
<1> QED
  BY <1>1, <1>3

\* A list with one more element.
LEMMA ListAppend ==
  ASSUME NEW q, IsList(q), NEW c
  PROVE  /\ IsList(Append(q, c)) /\ Len(Append(q, c)) = Len(q) + 1 /\ Append(q, c) # <<>>
         /\ Append(q, c)[Len(q) + 1] = c
         /\ \A n \in 1 .. Len(q) : Append(q, c)[n] = q[n]
<1>1. PICK T : q \in Seq(T)
  BY DEF IsList
<1>2. PICK z : z = T \cup {c}
  OBVIOUS
<1>3. q \in Seq(z) /\ c \in z
  BY <1>1, <1>2
<1>4. Append(q, c) \in Seq(z)
  BY <1>3
<1>5. IsList(Append(q, c))
  BY <1>4 DEF IsList
<1> QED
  BY <1>3, <1>5

\* Two lists, one behind the other.
LEMMA ListConcat ==
  ASSUME NEW q, IsList(q), NEW r, IsList(r)
  PROVE  /\ IsList(q \o r) /\ Len(q \o r) = Len(q) + Len(r)
         /\ \A n \in 1 .. Len(q) : (q \o r)[n] = q[n]
         /\ \A n \in 1 .. Len(r) : (q \o r)[Len(q) + n] = r[n]
<1>1. PICK T : q \in Seq(T)
  BY DEF IsList
<1>2. PICK u : r \in Seq(u)
  BY DEF IsList
<1>3. PICK z : z = T \cup u
  OBVIOUS
<1>4. q \in Seq(z) /\ r \in Seq(z)
  BY <1>1, <1>2, <1>3
<1>5. (q \o r) \in Seq(z)
  BY <1>4
<1>6. IsList(q \o r)
  BY <1>5 DEF IsList
<1> QED
  BY <1>4, <1>6

\* A list with another first element.
LEMMA ListFirst ==
  ASSUME NEW q, IsList(q), q # <<>>, NEW c
  PROVE  /\ IsList([q EXCEPT ![1] = c]) /\ Len([q EXCEPT ![1] = c]) = Len(q)
         /\ [q EXCEPT ![1] = c] # <<>> /\ [q EXCEPT ![1] = c][1] = c /\ Head([q EXCEPT ![1] = c]) = c
         /\ \A n \in 2 .. Len(q) : [q EXCEPT ![1] = c][n] = q[n]
<1>1. PICK T : q \in Seq(T)
  BY DEF IsList
<1>2. PICK z : z = T \cup {c}
  OBVIOUS
<1>3. q \in Seq(z) /\ c \in z /\ Len(q) >= 1
  BY <1>1, <1>2
<1>4. [q EXCEPT ![1] = c] \in Seq(z)
  BY <1>3
<1>5. IsList([q EXCEPT ![1] = c])
  BY <1>4 DEF IsList
<1> QED
  BY <1>3, <1>5

\* The command at the head goes on as d.
Goes(q, d, r) == r = [q EXCEPT ![1] = d]

\* The same, of the queue whose head goes on.
LEMMA Gone ==
  ASSUME NEW q, IsList(q), q # <<>>, NEW d, NEW r, Goes(q, d, r)
  PROVE  /\ IsList(r) /\ Len(r) = Len(q) /\ r # <<>> /\ Head(r) = d /\ r[1] = d
         /\ \A n \in 2 .. Len(q) : r[n] = q[n]
<1>1. IsList([q EXCEPT ![1] = d]) /\ Len([q EXCEPT ![1] = d]) = Len(q) /\ [q EXCEPT ![1] = d] # <<>>
  BY ListFirst
<1>2. [q EXCEPT ![1] = d][1] = d /\ Head([q EXCEPT ![1] = d]) = d
  BY ListFirst
<1>3. \A n \in 2 .. Len(q) : [q EXCEPT ![1] = d][n] = q[n]
  BY ListFirst
<1> QED
  BY <1>1, <1>2, <1>3 DEF Goes

\* A list made element by element.
LEMMA ListOf ==
  ASSUME NEW n \in Nat, NEW q, q = [i \in 1 .. n |-> q[i]]
  PROVE  IsList(q) /\ Len(q) = n
<1>1. PICK T : T = {q[i] : i \in 1 .. n}
  OBVIOUS
<1>2. \A i \in 1 .. n : q[i] \in T
  BY <1>1
<1>3. q \in [1 .. n -> T]
  BY <1>2
<1>4. q \in Seq(T) /\ Len(q) = n
  BY <1>3
<1> QED
  BY <1>4 DEF IsList

\* A list of one element.
LEMMA ListOne ==
  ASSUME NEW c
  PROVE  /\ IsList(<<c>>) /\ Len(<<c>>) = 1 /\ <<c>>[1] = c /\ Head(<<c>>) = c /\ Tail(<<c>>) = <<>>
         /\ <<c>> # <<>>
<1>1. <<c>> \in Seq({c})
  OBVIOUS
<1>2. IsList(<<c>>)
  BY <1>1 DEF IsList
<1> QED
  BY <1>2

\* The empty list.
LEMMA ListNone == IsList(<<>>) /\ Len(<<>>) = 0
<1>1. <<>> \in Seq({})
  OBVIOUS
<1> QED
  BY <1>1 DEF IsList

--------------------------------------------------------------------------------

(* The least and the greatest of numbers. *)

\* The least of a set of numbers is one of them.
LEMMA MinIs ==
  ASSUME NEW s, s # {}, \A a \in s : a \in Nat
  PROVE  Min(s) \in s /\ \A a \in s : Min(s) <= a
<1>1. s \in SUBSET Nat
  OBVIOUS
<1>2. \E n \in s : \A m \in s : n <= m
  BY <1>1, Least
<1> QED
  BY <1>2 DEF Min

\* The greatest of a set of numbers within a bound is one of them.
LEMMA MaxIs ==
  ASSUME NEW s, NEW n \in Nat, s # {}, \A a \in s : a \in 0 .. n
  PROVE  Max(s) \in s /\ \A a \in s : Max(s) >= a
<1> DEFINE z == {n - a : a \in s}
<1>1. z # {} /\ z \in SUBSET Nat
  OBVIOUS
<1>2. PICK m \in z : \A i \in z : m <= i
  BY <1>1, Least
<1>3. PICK a \in s : m = n - a
  BY <1>2
<1>4. \A b \in s : n - b \in z
  OBVIOUS
<1>5. \A b \in s : a >= b
  <2>1. \A b \in s : m <= n - b
    BY <1>2, <1>4
  <2> HIDE DEF z
  <2> QED
    BY <1>3, <2>1
<1>6. \E x \in s : \A y \in s : x >= y
  BY <1>5
<1> QED
  BY <1>6 DEF Max

--------------------------------------------------------------------------------

(* The fs part. *)
Free(x) == /\ x.fs_queue = <<>> /\ "PROCESSING" \notin x.fs_flags /\ x.m_retry_count = 0
           /\ x.result = "SUCCESS"
           /\ FsOther(x) \/ (x.sd = NoOp /\ x.events = <<>>)

\* op has been handed to fstorage.
Begun(y, op) ==
  /\ y.fs_queue = <<op>> /\ y.m_retry_count = 0 /\ y.result = "SUCCESS"
  /\ \/ "PROCESSING" \notin y.fs_flags /\ FsOther(y)
     \/ "PROCESSING" \in y.fs_flags /\ y.sd = op /\ y.events = <<>>

\* The rest of the RAM is as it was.
Kept(x, y) ==
  /\ y.m_flags = x.m_flags /\ y.m_last_rec_id = x.m_last_rec_id /\ y.m_cmd_queue = x.m_cmd_queue
  /\ y.m_chunk_queue = x.m_chunk_queue /\ y.m_pages = x.m_pages
  /\ y.m_swap_page_avail = x.m_swap_page_avail /\ y.m_gc = x.m_gc
  /\ y.tok = x.tok /\ y.stack = x.stack
FsKept(x, y) ==
  /\ y.fs_queue = x.fs_queue /\ y.fs_flags = x.fs_flags /\ y.m_retry_count = x.m_retry_count
  /\ y.sd = x.sd /\ y.events = x.events /\ y.result = x.result

\* An operation of fds.c is no other user's, and not none.
LEMMA KindsOfOp ==
  ASSUME NEW op, IsOp(op)
  PROVE  op # NoOp /\ op # Other /\ op.kind \in {"store", "erase"}
<1>1. CASE \E d \in Address : \E w : IsList(w) /\ op = Store(d, w)
  BY <1>1 DEF Store, NoOp, Other
<1>2. CASE \E p \in Page : op = Erase(p)
  BY <1>2 DEF Erase, NoOp, Other
<1> QED
  BY <1>1, <1>2 DEF IsOp

\* An operation put into the empty queue of fstorage.c is begun, or waits for the SoftDevice; nothing else changes.
LEMMA Started ==
  ASSUME NEW x, Ram(x), Free(x), NEW op, NEW y, y = CmdEnqueue(x, op)
  PROVE  Ram(y) /\ Begun(y, op) /\ Kept(x, y)
<1>1. Len(x.fs_queue) = 0
  BY DEF Free
<1>2. FS_CMD_QUEUE_SIZE \in Nat /\ FS_CMD_QUEUE_SIZE - 1 # 0
  BY FstorageAssumption
<1>3. PICK z : z = [x EXCEPT !.fs_queue = Append(@, op)]
  OBVIOUS
<1>4. y = QueueProcess(z)
  BY <1>1, <1>2, <1>3 DEF CmdEnqueue
<1>5. /\ Ram(z) /\ z.fs_queue = Append(x.fs_queue, op) /\ Kept(x, z)
      /\ z.fs_flags = x.fs_flags /\ z.m_retry_count = x.m_retry_count /\ z.sd = x.sd /\ z.events = x.events
      /\ z.result = x.result
  BY <1>3 DEF Ram, Kept
<1>6. z.fs_queue = <<op>>
  BY <1>5 DEF Free
<1>7. CASE Busy(z)
  <2>1. y = [z EXCEPT !.fs_flags = @ \cup {"FLASH_REQ_PENDING"}]
    BY <1>4, <1>5, <1>6, <1>7 DEF QueueProcess, Free
  <2>2. /\ Ram(y) /\ Kept(z, y) /\ y.fs_flags = z.fs_flags \cup {"FLASH_REQ_PENDING"} /\ y.fs_queue = z.fs_queue
        /\ y.m_retry_count = z.m_retry_count /\ y.sd = z.sd /\ y.events = z.events /\ y.result = z.result
    BY ZenonT(20), <1>5, <2>1 DEF Ram, Kept
  <2>3. FsOther(x)
    BY <1>5, <1>7 DEF Busy, Free
  <2>4. Kept(x, y)
    BY <1>5, <2>2 DEF Kept
  <2>5. Begun(y, op)
    BY <1>5, <1>6, <2>2, <2>3 DEF Begun, Free, FsOther
  <2> QED
    BY <2>2, <2>4, <2>5
<1>8. CASE ~Busy(z)
  <2>1. y = [z EXCEPT !.fs_flags = @ \cup {"PROCESSING"}, !.sd = op]
    BY <1>4, <1>5, <1>6, <1>8 DEF QueueProcess, Free
  <2>2. /\ Ram(y) /\ Kept(z, y) /\ y.fs_flags = z.fs_flags \cup {"PROCESSING"} /\ y.fs_queue = z.fs_queue
        /\ y.m_retry_count = z.m_retry_count /\ y.sd = op /\ y.events = z.events /\ y.result = z.result
    BY ZenonT(30), <1>5, <2>1 DEF Ram, Kept
  <2>3. z.events = <<>>
    BY <1>8 DEF Busy
  <2>4. Kept(x, y)
    BY <1>5, <2>2 DEF Kept
  <2>5. Begun(y, op)
    BY <1>5, <1>6, <2>2, <2>3 DEF Begun, Free
  <2> QED
    BY <2>2, <2>4, <2>5
<1> QED
  BY <1>7, <1>8

\* The same for a write.
LEMMA StartedStore ==
  ASSUME NEW x, Ram(x), Free(x), NEW dst, NEW words, NEW y, y = FsStore(x, dst, words)
  PROVE  Ram(y) /\ Begun(y, Store(dst, words)) /\ Kept(x, y)
BY Started DEF FsStore

\* A begun operation is as the invariant wants it.
FsAt(x) ==
  \/ x.fs_queue = <<>> /\ "PROCESSING" \notin x.fs_flags /\ x.m_retry_count = 0
        /\ (FsOther(x) \/ (x.sd = NoOp /\ x.events = <<>>))
  \/ \E op : /\ x.fs_queue = <<op>> /\ IsOp(op)
            /\ \/ "PROCESSING" \notin x.fs_flags /\ x.m_retry_count = 0 /\ FsOther(x)
               \/ "PROCESSING" \in x.fs_flags /\ FsAtWork(x)

\* Between two handlers no result is left to be reported.
LEMMA FsAtIs == ASSUME NEW x
  PROVE FsOK(x) <=> /\ x.reported = NoOp /\ x.result = "SUCCESS" /\ x.kept = FALSE
                           /\ FsAt(x)
BY DEF FsOK, FsAt

\* Once begun, the operation is the one at work.
LEMMA BegunAt ==
  ASSUME NEW y, NEW op, IsOp(op), Begun(y, op)
  PROVE  /\ FsAt(y) /\ Op(y) = op /\ Pending(y)
<1>1. y.fs_queue = <<op>> /\ Op(y) = op
  BY DEF Begun, Op
<1>2. y.sd = op /\ y.events = <<>> => FsAtWork(y)
  BY <1>1 DEF Begun, FsAtWork
<1>3. FsAt(y)
  <2>1. \/ "PROCESSING" \notin y.fs_flags /\ y.m_retry_count = 0 /\ FsOther(y)
        \/ "PROCESSING" \in y.fs_flags /\ FsAtWork(y)
    BY <1>2 DEF Begun
  <2> QED
    BY <1>1, <2>1 DEF FsAt
<1>4. Pending(y)
  <2>1. <<op>> # <<>> /\ <<"SUCCESS">> # <<>>
    OBVIOUS
  <2>2. y.fs_queue # <<>>
    BY <1>1, <2>1
  <2>3. ~("PROCESSING" \in y.fs_flags /\ y.events = <<"SUCCESS">>)
    BY <2>1 DEF Begun
  <2> QED
    BY <2>2, <2>3 DEF Pending
<1> QED
  BY <1>1, <1>3, <1>4

\* With an empty queue of fstorage.c nothing is at work.
LEMMA FreeAt ==
  ASSUME NEW y, Free(y)
  PROVE  FsAt(y) /\ ~Pending(y)
BY DEF Free, FsAt, Pending

\* None of the words of an operation changes nothing.
LEMMA AfterNothing ==
  ASSUME NEW f, IsFlash(f), NEW op, op.dst \in Nat
  PROVE  After(f, op, 0) = f
<1>1. \A a : a \notin op.dst .. op.dst + 0 - 1
  OBVIOUS
<1>2. After(f, op, 0) = [a \in Address |-> f[a]]
  BY <1>1 DEF After
<1> QED
  BY <1>2 DEF IsFlash

\* The fields of a write.
LEMMA StoreIs ==
  ASSUME NEW d, NEW w, NEW op, op = Store(d, w)
  PROVE  op.kind = "store" /\ op.dst = d /\ op.words = w
BY DEF Store

\* The fields of an erasure, which writes every word of its page.
LEMMA EraseIs ==
  ASSUME NEW p \in Page, NEW op, op = Erase(p)
  PROVE  op.kind = "erase" /\ op.dst = StartAddr(p) /\ IsList(op.words) /\ Len(op.words) = Size
<1>1. PICK w : w = [i \in 1 .. FS_PAGE_SIZE_WORDS |-> Erased]
  OBVIOUS
<1>2. op.kind = "erase" /\ op.dst = StartAddr(p) /\ op.words = w
  BY <1>1 DEF Erase
<1>3. w = [i \in 1 .. Size |-> w[i]] /\ Size \in Nat
  BY <1>1, Sizes DEF Size
<1> QED
  BY <1>2, <1>3, ListOf

\* An operation that may be cut anywhere, or nowhere.
LEMMA SafeStore ==
  ASSUME NEW f, FlashOK(f), NEW d \in Address, NEW w, IsList(w), NEW op, op = Store(d, w),
         \A n \in Nat : 1 <= n /\ n <= Len(w) => FlashOK(After(f, Store(d, w), n))
  PROVE  SafeOp(f, op)
<1>1. op.kind = "store" /\ op.dst = d /\ op.words = w /\ Len(w) \in Nat /\ d \in Nat
  BY StoreIs, ListIs, Sizes
<1>2. IsOp(op)
  BY DEF IsOp
<1>3. After(f, op, 0) = f
  BY <1>1, AfterNothing DEF FlashOK
<1>4. \A n \in 0 .. Len(w) : FlashOK(After(f, op, n))
  <2>1. TAKE n \in 0 .. Len(w)
  <2>2. CASE n = 0
    BY <1>3, <2>2
  <2>3. CASE n # 0
    BY <1>1, <2>3
  <2> QED
    BY <2>2, <2>3
<1>5. \A n \in Cuts(op) : n \in 0 .. Len(w)
  BY <1>1 DEF Cuts
<1> QED
  BY <1>2, <1>4, <1>5 DEF SafeOp

\* An operation that is done all or not at all is safe if it is when done.
LEMMA SafeWhole ==
  ASSUME NEW f, FlashOK(f), NEW op, IsOp(op), op.dst \in Nat, op.dst % FS_PAGE_SIZE_WORDS = 0,
         FlashOK(Done(f, op))
  PROVE  SafeOp(f, op)
<1>1. After(f, op, 0) = f
  BY AfterNothing DEF FlashOK
<1>2. Cuts(op) = {0, Len(op.words)}
  BY DEF Cuts
<1> QED
  BY <1>1, <1>2 DEF SafeOp, Done

\* A change that keeps the kind of a page, or makes one of another page than that collected.
LEMMA KeepsOK ==
  ASSUME NEW f, FlashOK(f), NEW p \in Page, NEW g, NEW H, NEW t,
         Changes(f, g, p, Kind(f, p), H, t),
         Kind(f, p) # "SWAP" \/ \E q \in Page : Kind(f, q) = "GC"
  PROVE  FlashOK(g)
<1>1. PICK k : k = Kind(f, p)
  OBVIOUS
<1>2. PICK r \in Page : Kind(f, r) # "VALID"
  BY DEF FlashOK
<1>3. k # "VALID" \/ \E q \in Page : q # p /\ Kind(f, q) # "VALID"
  BY <1>1, <1>2
<1>4. \/ k = "GC" \/ \E q \in Page : q # p /\ Kind(f, q) = "GC"
      \/ /\ k = "SWAP" => t = Base(p)
         /\ \A q \in Page : q # p /\ Kind(f, q) = "SWAP" => End(f, q) = Base(q)
  BY <1>1 DEF FlashOK
<1> QED
  BY <1>1, <1>3, <1>4, ChangesOK

\* A page tag is a list of four words.
LEMMA TagLen ==
  ASSUME NEW w0, NEW w3
  PROVE  IsList(PageTag(w0, w3)) /\ Len(PageTag(w0, w3)) = 4
<1>1. PICK z : z = PageTag(w0, w3)
  OBVIOUS
<1>2. z = <<<<"tag0", w0>>, <<"tag1">>, <<"tag2">>, <<"tag3", w3>>>>
  BY <1>1 DEF PageTag
<1>3. PICK a, b, c, d : z = <<a, b, c, d>>
  BY <1>2
<1>4. z \in Seq({a, b, c, d}) /\ Len(z) = 4
  BY <1>3
<1> QED
  BY <1>1, <1>4 DEF IsList

\* The first and the fourth word of a page are words of the flash.
LEMMA StartAddress ==
  ASSUME NEW p \in Page
  PROVE  StartAddr(p) \in Address /\ StartAddr(p) + 3 \in Address /\ StartAddr(p) \in Nat
         /\ StartAddr(p) % FS_PAGE_SIZE_WORDS = 0
<1>1. PICK s \in Nat : /\ s = StartAddr(p) /\ s + Size = EndAddr(p) /\ Size \in Nat /\ Size >= 5
  BY TagOffsets
<1>2. s \in Address
  BY <1>1, PageWords
<1>3. s + 3 \in Int /\ StartAddr(p) <= s + 3 /\ s + 3 < EndAddr(p)
  BY <1>1
<1>4. s + 3 \in Address
  BY <1>3, PageWords
<1> QED
  BY <1>1, <1>2, <1>4, StartIs

\* A blank page is tagged.
LEMMA SafeTag ==
  ASSUME NEW f, FlashOK(f), NEW p \in Page, Kind(f, p) = "ERASED", NEW w0 \in {"swap", "valid"},
         w0 = "valid" => \E q \in Page : Kind(f, q) = "SWAP",
         NEW op, op = Store(StartAddr(p), PageTag(w0, "plain"))
  PROVE  /\ SafeOp(f, op)
         /\ Changes(f, Done(f, op), p, IF w0 = "swap" THEN "SWAP" ELSE "VALID", {}, Base(p))
<1>1. PICK g, k : g = Done(f, op) /\ k = IF w0 = "swap" THEN "SWAP" ELSE "VALID"
  OBVIOUS
<1>2. /\ op.dst = StartAddr(p) /\ op.words = PageTag(w0, "plain") /\ IsList(op.words) /\ Len(op.words) = 4
      /\ op.dst \in Address /\ op.dst \in Nat /\ op.dst % FS_PAGE_SIZE_WORDS = 0
  BY StoreIs, TagLen, StartAddress
<1>3. g = After(f, Store(StartAddr(p), PageTag(w0, "plain")), 4)
  BY <1>1, <1>2 DEF Done
<1>4. Changes(f, g, p, k, HeadersOf(f, p), End(f, p))
  BY <1>1, <1>3, TagWritten
<1>5. Changes(f, g, p, k, {}, Base(p)) /\ End(f, p) = Base(p)
  BY <1>4, ErasedPage
<1>6. k # "VALID" \/ \E q \in Page : q # p /\ Kind(f, q) # "VALID"
  BY <1>1
<1>7. \/ k = "GC" \/ \E q \in Page : q # p /\ Kind(f, q) = "GC"
      \/ /\ k = "SWAP" => Base(p) = Base(p)
         /\ \A q \in Page : q # p /\ Kind(f, q) = "SWAP" => End(f, q) = Base(q)
  BY DEF FlashOK
<1>8. FlashOK(g)
  BY <1>5, <1>6, <1>7, ChangesOK
<1>9. IsOp(op)
  BY <1>2 DEF IsOp
<1> QED
  BY <1>1, <1>2, <1>5, <1>8, <1>9, SafeWhole

\* The page that is to be collected is tagged.
LEMMA SafeGcTag ==
  ASSUME NEW f, FlashOK(f), NEW p \in Page, Kind(f, p) = "VALID",
         NEW op, op = Store(StartAddr(p) + 3, <<<<"tag3", "gc">>>>)
  PROVE  /\ SafeOp(f, op)
         /\ Changes(f, Done(f, op), p, "GC", HeadersOf(f, p), End(f, p))
<1>1. PICK d, w : d = StartAddr(p) + 3 /\ w = <<<<"tag3", "gc">>>>
  OBVIOUS
<1>2. d \in Address /\ IsList(w) /\ Len(w) = 1
  BY <1>1, StartAddress, ListOne
<1>3. PICK g : g = After(f, Store(d, w), 1)
  OBVIOUS
<1>4. Changes(f, g, p, "GC", HeadersOf(f, p), End(f, p))
  BY <1>1, <1>3, GcTagWritten
<1>5. FlashOK(g)
  BY <1>4, ChangesOK
<1>6. op.dst = d /\ op.words = w /\ op = Store(d, w)
  BY <1>1, StoreIs
<1>7. \A n \in Nat : 1 <= n /\ n <= Len(w) => n = 1
  BY <1>2
<1>8. SafeOp(f, op)
  BY <1>2, <1>3, <1>5, <1>6, <1>7, SafeStore
<1>9. Done(f, op) = g
  BY <1>2, <1>3, <1>6 DEF Done
<1> QED
  BY <1>4, <1>8, <1>9

\* The swap page, full, is tagged as what it replaces.
LEMMA SafeSwapTag ==
  ASSUME NEW f, FlashOK(f), NEW p \in Page, Kind(f, p) = "SWAP", \E q \in Page : Kind(f, q) = "GC",
         NEW op, op = Store(StartAddr(p), PageTag("valid", "plain"))
  PROVE  /\ SafeOp(f, op)
         /\ Changes(f, Done(f, op), p, "VALID", HeadersOf(f, p), End(f, p))
<1>1. PICK g : g = Done(f, op)
  OBVIOUS
<1>2. /\ op.dst = StartAddr(p) /\ op.words = PageTag("valid", "plain") /\ IsList(op.words) /\ Len(op.words) = 4
      /\ op.dst \in Address /\ op.dst \in Nat /\ op.dst % FS_PAGE_SIZE_WORDS = 0
  BY StoreIs, TagLen, StartAddress
<1>3. g = After(f, Store(StartAddr(p), PageTag("valid", "plain")), 4)
  BY <1>1, <1>2 DEF Done
<1>4. Changes(f, g, p, "VALID", HeadersOf(f, p), End(f, p))
  BY <1>1, <1>3, TagWritten
<1>5. \E q \in Page : q # p /\ Kind(f, q) = "GC"
  OBVIOUS
<1>6. FlashOK(g)
  BY <1>4, <1>5, ChangesOK
<1>7. IsOp(op)
  BY <1>2 DEF IsOp
<1> QED
  BY <1>1, <1>2, <1>4, <1>6, <1>7, SafeWhole

\* The page that was collected is erased.
LEMMA SafeErase ==
  ASSUME NEW f, FlashOK(f), NEW p \in Page,
         \A q \in Page : q # p /\ Kind(f, q) = "SWAP" => End(f, q) = Base(q),
         NEW op, op = Erase(p)
  PROVE  SafeOp(f, op) /\ Changes(f, Done(f, op), p, "ERASED", {}, Base(p))
<1>1. PICK g : g = Done(f, op)
  OBVIOUS
<1>2. op.dst = StartAddr(p) /\ Len(op.words) = Size /\ op.dst \in Nat /\ op.dst % FS_PAGE_SIZE_WORDS = 0
  BY EraseIs, StartAddress
<1>3. g = After(f, Erase(p), Size)
  BY <1>1, <1>2 DEF Done
<1>4. Changes(f, g, p, "ERASED", {}, Base(p))
  BY <1>3, Erasing
<1>5. FlashOK(g)
  BY <1>4, ChangesOK
<1>6. IsOp(op)
  BY DEF IsOp
<1> QED
  BY <1>1, <1>2, <1>4, <1>5, <1>6, SafeWhole

RecordMade(f, op, g, p, dst, n, w) ==
  /\ SafeOp(f, op) /\ Len(w) \in Nat
  /\ Changes(f, g, p, Kind(f, p), HeadersOf(f, p) \cup {dst}, dst + 3 + n)
  /\ g[dst] = TL(n, "valid") /\ Wrote(f, g, dst, w, Len(w))
BodyMade(f, op, g, p, a, dst, w) ==
  /\ SafeOp(f, op) /\ Len(w) \in Nat
  /\ Changes(f, g, p, "VALID", HeadersOf(f, p), End(f, p))
  /\ Wrote(f, g, dst, w, Len(w))
ClearMade(f, op, g, p, a) ==
  /\ SafeOp(f, op)
  /\ Changes(f, g, p, "VALID", HeadersOf(f, p), End(f, p))
  /\ g[a] = TL(LengthWords(f[a]), "invalid")
  /\ \A b \in Address : b # a => g[b] = f[b]

\* A record is begun behind the last one of a page.
LEMMA SafeRecord ==
  ASSUME NEW f, FlashOK(f), NEW p \in Page,
         Kind(f, p) = "VALID" \/ (Kind(f, p) = "SWAP" /\ \E q \in Page : Kind(f, q) = "GC"),
         NEW dst \in Nat, dst = End(f, p), NEW n \in Nat, dst + 3 + n < EndAddr(p),
         NEW w, IsList(w), 1 <= Len(w), Len(w) <= 3 + n, w[1] = TL(n, "valid"),
         \A i \in 1 .. Len(w) : WordOK(w[i]), Len(w) >= 3 => IdOK(w[3]),
         NEW op, op = Store(dst, w), NEW g, g = Done(f, op)
  PROVE  RecordMade(f, op, g, p, dst, n, w)
<1>1. Kind(f, p) # "ERASED" /\ (Kind(f, p) # "SWAP" \/ \E q \in Page : Kind(f, q) = "GC")
  OBVIOUS
<1>2. PICK h \in Nat : h = Len(w)
  BY ListIs
<1>3. ASSUME NEW m \in Nat, 1 <= m, m <= h
      PROVE  FlashOK(After(f, Store(dst, w), m))
  <2>1. PICK y : y = After(f, Store(dst, w), m)
    OBVIOUS
  <2>2. m <= 3 + n /\ \A i \in 1 .. m : WordOK(w[i])
    BY <1>2, <1>3
  <2>3. m >= 3 => IdOK(w[3])
    BY <1>2, <1>3
  <2>4. Changes(f, y, p, Kind(f, p), HeadersOf(f, p) \cup {dst}, dst + 3 + n)
    BY ONLY <1>1, <1>3, <2>1, <2>2, <2>3, FlashOK(f), p \in Page, dst \in Nat, dst = End(f, p), n \in Nat,
            dst + 3 + n < EndAddr(p), w[1] = TL(n, "valid"), HeaderWritten
  <2> QED
    BY ONLY <1>1, <2>1, <2>4, FlashOK(f), p \in Page, KeepsOK
<1>4. op.dst = dst /\ op.words = w
  BY StoreIs
<1>5. g = After(f, Store(dst, w), h)
  BY <1>2, <1>4 DEF Done
<1>6. /\ Changes(f, g, p, Kind(f, p), HeadersOf(f, p) \cup {dst}, dst + 3 + n)
      /\ g[dst] = TL(n, "valid") /\ Wrote(f, g, dst, w, h)
  <2>1. 1 <= h /\ h <= 3 + n /\ (\A i \in 1 .. h : WordOK(w[i])) /\ (h >= 3 => IdOK(w[3]))
    BY <1>2
  <2>2. Changes(f, g, p, Kind(f, p), HeadersOf(f, p) \cup {dst}, dst + 3 + n)
    BY ONLY <1>1, <1>2, <1>5, <2>1, FlashOK(f), p \in Page, dst \in Nat, dst = End(f, p), n \in Nat,
            dst + 3 + n < EndAddr(p), w[1] = TL(n, "valid"), HeaderWritten
  <2>3. g[dst] = TL(n, "valid")
    BY ONLY SMTT(20), <2>2, <1>1, <1>2, <1>5, <2>1, FlashOK(f), p \in Page, dst \in Nat, dst = End(f, p), n \in Nat,
            dst + 3 + n < EndAddr(p), w[1] = TL(n, "valid"), HeaderWritten
  <2>4. Wrote(f, g, dst, w, h)
    BY ONLY <2>2, <1>1, <1>2, <1>5, <2>1, FlashOK(f), p \in Page, dst \in Nat, dst = End(f, p), n \in Nat,
            dst + 3 + n < EndAddr(p), w[1] = TL(n, "valid"), HeaderWritten
  <2> QED
    BY <2>2, <2>3, <2>4
<1>7. dst \in Address
  <2>1. StartAddr(p) <= dst /\ dst < EndAddr(p) /\ dst \in Int
    BY EndIs
  <2> QED
    BY <2>1, PageWords
<1>8. SafeOp(f, op)
  BY <1>2, <1>3, <1>7, SafeStore
<1> QED
  BY <1>2, <1>6, <1>8 DEF RecordMade

\* Words are written within a record.
LEMMA SafeBody ==
  ASSUME NEW f, FlashOK(f), NEW p \in Page, Kind(f, p) = "VALID", NEW a \in HeadersOf(f, p),
         NEW dst \in Nat, a < dst, NEW w, IsList(w), dst + Len(w) <= NextRecord(f, a), Len(w) >= 1,
         \A i \in 1 .. Len(w) : f[dst + i - 1] = Erased /\ WordOK(w[i]),
         \A i \in 1 .. Len(w) : dst + i - 1 = a + 2 => IdOK(w[i]),
         NEW op, op = Store(dst, w), NEW g, g = Done(f, op)
  PROVE  BodyMade(f, op, g, p, a, dst, w)
<1>1. PICK h \in Nat : h = Len(w)
  BY ListIs
<1>2. PICK s \in Nat, z \in Nat, x \in Nat : s = StartAddr(p) /\ z = EndAddr(p) /\ x = NextRecord(f, a) /\ a \in Nat /\ s <= a /\ x < z
  <2>1. PICK s \in Nat, t \in Nat, z \in Nat, n \in Nat :
              /\ s = StartAddr(p) /\ t = End(f, p) /\ z = EndAddr(p) /\ s + 4 = Base(p)
              /\ n = LengthWords(f[a]) /\ a \in Nat /\ NextRecord(f, a) = a + 3 + n
              /\ s + 4 <= a /\ a + 3 + n <= t /\ t < z /\ f[a] \in TLs
              /\ \A b \in HeadersOf(f, p) : b > a => b >= a + 3 + n
    BY HeaderMeans
  <2>2. a + 3 + n \in Nat /\ s <= a /\ a + 3 + n < z
    BY SMTT(20), <2>1
  <2> QED
    BY <2>1, <2>2
<1>3. ASSUME NEW m \in Nat, 1 <= m, m <= h
      PROVE  FlashOK(After(f, Store(dst, w), m))
  <2>1. PICK y : y = After(f, Store(dst, w), m)
    OBVIOUS
  <2>0. \A i \in 1 .. m : i \in 1 .. Len(w)
    BY <1>1, <1>3
  <2>2. \A i \in 1 .. m : f[dst + i - 1] = Erased /\ WordOK(w[i])
    BY <2>0
  <2>3. \A i \in 1 .. m : dst + i - 1 = a + 2 => IdOK(w[i])
    BY <2>0
  <2>4. dst + m <= NextRecord(f, a)
    BY <1>1, <1>2, <1>3
  <2>5. Changes(f, y, p, Kind(f, p), HeadersOf(f, p), End(f, p))
    BY ONLY <1>3, <2>1, <2>2, <2>3, <2>4, FlashOK(f), p \in Page, dst \in Nat, a < dst, a \in HeadersOf(f, p),
            BodyWritten
  <2> QED
    BY ONLY <2>1, <2>5, FlashOK(f), p \in Page, Kind(f, p) = "VALID", KeepsOK
<1>4. op.dst = dst /\ op.words = w
  BY StoreIs
<1>5. g = After(f, Store(dst, w), h)
  BY <1>1, <1>4 DEF Done
<1>6. /\ Changes(f, g, p, Kind(f, p), HeadersOf(f, p), End(f, p))
      /\ Wrote(f, g, dst, w, h)
  <2>1. dst + h <= NextRecord(f, a) /\ (\A i \in 1 .. h : f[dst + i - 1] = Erased /\ WordOK(w[i]))
        /\ \A i \in 1 .. h : dst + i - 1 = a + 2 => IdOK(w[i])
    BY <1>1
  <2>2. Changes(f, g, p, Kind(f, p), HeadersOf(f, p), End(f, p))
    BY ONLY <1>1, <1>5, <2>1, FlashOK(f), p \in Page, dst \in Nat, a < dst, a \in HeadersOf(f, p), BodyWritten
  <2>3. Wrote(f, g, dst, w, h)
    BY ONLY <2>2, <1>1, <1>5, <2>1, FlashOK(f), p \in Page, dst \in Nat, a < dst, a \in HeadersOf(f, p), BodyWritten
  <2> QED
    BY <2>2, <2>3
<1>7. dst \in Address
  <2>1. StartAddr(p) <= dst /\ dst < EndAddr(p) /\ dst \in Int
    BY <1>1, <1>2
  <2> QED
    BY <2>1, PageWords
<1>8. SafeOp(f, op)
  BY <1>1, <1>3, <1>7, SafeStore
<1> QED
  BY <1>1, <1>6, <1>8 DEF BodyMade

\* A record is cleared.
LEMMA SafeClear ==
  ASSUME NEW f, FlashOK(f), NEW p \in Page, Kind(f, p) = "VALID", NEW a \in HeadersOf(f, p),
         NEW op, op = Store(a, <<TLInvalid>>), NEW g, g = Done(f, op)
  PROVE  ClearMade(f, op, g, p, a)
<1>1. PICK w : w = <<TLInvalid>>
  OBVIOUS
<1>2. IsList(w) /\ Len(w) = 1
  BY <1>1, ListOne
<1>3. op.dst = a /\ op.words = w /\ op = Store(a, w)
  BY <1>1, StoreIs
<1>4. g = After(f, Store(a, w), 1)
  BY <1>2, <1>3 DEF Done
<1>5. /\ Changes(f, g, p, Kind(f, p), HeadersOf(f, p), End(f, p))
      /\ g[a] = TL(LengthWords(f[a]), "invalid")
      /\ \A b \in Address : b # a => g[b] = f[b]
  <2>1. g = After(f, Store(a, <<TLInvalid>>), 1)
    BY <1>1, <1>4
  <2>2. Changes(f, g, p, Kind(f, p), HeadersOf(f, p), End(f, p))
    BY ONLY <2>1, FlashOK(f), p \in Page, a \in HeadersOf(f, p), Invalidated
  <2>3. g[a] = TL(LengthWords(f[a]), "invalid")
    BY ONLY <2>1, FlashOK(f), p \in Page, a \in HeadersOf(f, p), Invalidated
  <2>4. \A b \in Address : b # a => g[b] = f[b]
    BY ONLY <2>1, FlashOK(f), p \in Page, a \in HeadersOf(f, p), Invalidated
  <2> QED
    BY <2>2, <2>3, <2>4
<1>6. FlashOK(g)
  BY ONLY <1>5, FlashOK(f), p \in Page, Kind(f, p) = "VALID", KeepsOK
<1>7. a \in Address
  <2>1. PICK s \in Nat, t \in Nat, z \in Nat, n \in Nat :
              /\ s = StartAddr(p) /\ t = End(f, p) /\ z = EndAddr(p) /\ s + 4 = Base(p)
              /\ n = LengthWords(f[a]) /\ a \in Nat /\ NextRecord(f, a) = a + 3 + n
              /\ s + 4 <= a /\ a + 3 + n <= t /\ t < z /\ f[a] \in TLs
              /\ \A b \in HeadersOf(f, p) : b > a => b >= a + 3 + n
    BY HeaderMeans
  <2>2. StartAddr(p) <= a /\ a < EndAddr(p) /\ a \in Int
    BY <2>1
  <2> QED
    BY <2>2, PageWords
<1>8. \A n \in Nat : 1 <= n /\ n <= Len(w) => n = 1
  BY <1>2
<1>9. SafeOp(f, op)
  BY ZenonT(30), <1>2, <1>3, <1>4, <1>6, <1>7, <1>8, SafeStore
<1> QED
  BY <1>5, <1>9 DEF ClearMade

--------------------------------------------------------------------------------

(* The commands in the queue. *)

\* The command at the head goes on, as another step of itself.
LEMMA QueueHead ==
  ASSUME NEW pages, NEW q, NEW gc, QueueOK(pages, q, gc), q # <<>>,
         NEW c, CmdOK(pages, c), c.id = Head(q).id,
         NEW r, r = [q EXCEPT ![1] = c]
  PROVE  /\ QueueOK(pages, r, gc) /\ IsList(r) /\ Len(r) = Len(q) /\ r # <<>> /\ Head(r) = c /\ r[1] = c
         /\ \A n \in 2 .. Len(q) : r[n] = q[n]
<1>1. IsList(q) /\ Len(q) \in Nat /\ Len(q) >= 1 /\ Head(q) = q[1]
  BY ListIs, ListHead DEF QueueOK
<1>2. /\ IsList(r) /\ Len(r) = Len(q) /\ r # <<>> /\ Head(r) = c /\ r[1] = c
      /\ \A n \in 2 .. Len(q) : r[n] = q[n]
  <2>1. Goes(q, c, r)
    BY DEF Goes
  <2> QED
    BY ONLY <1>1, <2>1, q # <<>>, Gone
<1>3. \A n \in 1 .. Len(q) : n = 1 \/ n \in 2 .. Len(q)
  BY <1>1
<1>4. \A n \in 1 .. Len(q) : r[n].id = q[n].id
  BY <1>1, <1>2, <1>3
<1>5. \A n \in 1 .. Len(r) : CmdOK(pages, r[n])
  BY <1>1, <1>2, <1>3 DEF QueueOK
<1>6. \A n \in 1 .. Len(r) : n > 1 => Fresh(r[n])
  BY <1>1, <1>2, <1>3 DEF QueueOK
<1>7. \A m, n \in 1 .. Len(r) : r[m].id = "GC" /\ r[n].id = "GC" => m = n
  BY <1>2, <1>4 DEF QueueOK
<1>8. \A n \in 1 .. Len(r) : r[n].id = "GC" => gc.state = "BEGIN" \/ (n = 1 /\ gc.state \in Mid)
  BY <1>2, <1>4 DEF QueueOK
<1> QED
  BY <1>2, <1>5, <1>6, <1>7, <1>8 DEF QueueOK

\* The command at the head goes.
LEMMA QueueTail ==
  ASSUME NEW pages, NEW q, NEW gc, QueueOK(pages, q, gc), q # <<>>
  PROVE  /\ QueueOK(pages, Tail(q), gc) /\ Len(Tail(q)) = Len(q) - 1
         /\ \A n \in 1 .. Len(q) - 1 : Tail(q)[n] = q[n + 1]
         /\ Tail(q) # <<>> => Fresh(Head(Tail(q))) /\ Head(Tail(q)) = q[2] /\ Len(q) >= 2
<1>1. IsList(q) /\ Len(q) \in Nat /\ Len(q) >= 1
  BY ListIs DEF QueueOK
<1>2. PICK r : r = Tail(q)
  OBVIOUS
<1>3. IsList(r) /\ Len(r) = Len(q) - 1 /\ \A n \in 1 .. Len(q) - 1 : r[n] = q[n + 1]
  BY <1>1, <1>2, ListHead
<1>4. \A n \in 1 .. Len(r) : n + 1 \in 1 .. Len(q) /\ n + 1 > 1 /\ r[n] = q[n + 1]
  BY <1>1, <1>3
<1>5. \A n \in 1 .. Len(r) : CmdOK(pages, r[n]) /\ Fresh(r[n])
  BY <1>4 DEF QueueOK
<1>6. \A m, n \in 1 .. Len(r) : r[m].id = "GC" /\ r[n].id = "GC" => m = n
  <2> SUFFICES ASSUME NEW m \in 1 .. Len(r), NEW n \in 1 .. Len(r), r[m].id = "GC", r[n].id = "GC"
               PROVE  m = n
    OBVIOUS
  <2>1. m + 1 = n + 1
    BY <1>4 DEF QueueOK
  <2> QED
    BY <2>1
<1>7. \A n \in 1 .. Len(r) : r[n].id = "GC" => gc.state = "BEGIN"
  <2> SUFFICES ASSUME NEW n \in 1 .. Len(r), r[n].id = "GC"
               PROVE  gc.state = "BEGIN"
    OBVIOUS
  <2>1. n + 1 # 1
    OBVIOUS
  <2> QED
    BY <1>4, <2>1 DEF QueueOK
<1>8. QueueOK(pages, r, gc)
  BY <1>3, <1>5, <1>6, <1>7 DEF QueueOK
<1>9. r # <<>> => Fresh(Head(r)) /\ Head(r) = q[2] /\ Len(q) >= 2
  <2> SUFFICES ASSUME r # <<>> PROVE Fresh(Head(r)) /\ Head(r) = q[2] /\ Len(q) >= 2
    OBVIOUS
  <2>1. Len(r) >= 1 /\ Len(r) \in Nat /\ Head(r) = r[1]
    BY <1>3, ListIs, ListHead
  <2>2. 1 \in 1 .. Len(r)
    BY <2>1
  <2> QED
    BY <1>1, <1>3, <1>4, <1>5, <2>1, <2>2
<1> QED
  BY <1>2, <1>3, <1>8, <1>9

\* The valid pages change places.
LEMMA QueuePages ==
  ASSUME NEW pages, NEW q, NEW gc, QueueOK(pages, q, gc),
         NEW other, \A v : ValidPage(pages, v) => ValidPage(other, v)
  PROVE  QueueOK(other, q, gc)
<1>1. \A n \in 1 .. Len(q) : CmdOK(other, q[n])
  BY DEF QueueOK, CmdOK
<1> QED
  BY <1>1 DEF QueueOK

\* The collection that is at the head goes on.
LEMMA QueueGc ==
  ASSUME NEW pages, NEW q, NEW gc, QueueOK(pages, q, gc), HeadIs(q, {"GC"}),
         NEW other, other.state = "BEGIN" \/ other.state \in Mid
  PROVE  QueueOK(pages, q, other)
<1>1. IsList(q) /\ Len(q) \in Nat /\ Len(q) >= 1 /\ Head(q) = q[1] /\ 1 \in 1 .. Len(q)
  BY ListIs, ListHead DEF QueueOK, HeadIs
<1>2. \A n \in 1 .. Len(q) : q[n].id = "GC" => n = 1
  BY <1>1 DEF QueueOK, HeadIs
<1> QED
  BY <1>2 DEF QueueOK

\* A command comes.
LEMMA QueueAppend ==
  ASSUME NEW pages, NEW q, NEW gc, QueueOK(pages, q, gc), NEW c, CmdOK(pages, c), Fresh(c),
         NEW other,
         \/ c.id # "GC" /\ other = gc
         \/ c.id = "GC" /\ other.state = "BEGIN" /\ \A n \in 1 .. Len(q) : q[n].id # "GC"
  PROVE  /\ QueueOK(pages, Append(q, c), other) /\ Len(Append(q, c)) = Len(q) + 1
         /\ Append(q, c) # <<>> /\ (q # <<>> => Head(Append(q, c)) = Head(q))
         /\ (q = <<>> => Append(q, c) = <<c>>)
<1>1. IsList(q) /\ Len(q) \in Nat
  BY ListIs DEF QueueOK
<1>2. PICK r : r = Append(q, c)
  OBVIOUS
<1>3. /\ IsList(r) /\ Len(r) = Len(q) + 1 /\ r # <<>> /\ r[Len(q) + 1] = c
      /\ \A n \in 1 .. Len(q) : r[n] = q[n]
  BY <1>1, <1>2, ListAppend
<1>4. \A n \in 1 .. Len(r) : n \in 1 .. Len(q) \/ n = Len(q) + 1
  BY <1>1, <1>3
<1>5. \A n \in 1 .. Len(r) : CmdOK(pages, r[n])
  BY <1>3, <1>4 DEF QueueOK
<1>6. \A n \in 1 .. Len(r) : n > 1 => Fresh(r[n])
  BY <1>3, <1>4 DEF QueueOK
<1>7. \A m, n \in 1 .. Len(r) : r[m].id = "GC" /\ r[n].id = "GC" => m = n
  BY <1>3, <1>4 DEF QueueOK
<1>8. \A n \in 1 .. Len(r) : r[n].id = "GC" => other.state = "BEGIN" \/ (n = 1 /\ other.state \in Mid)
  BY <1>3, <1>4 DEF QueueOK
<1>9. QueueOK(pages, r, other)
  BY <1>3, <1>5, <1>6, <1>7, <1>8 DEF QueueOK
<1>10. q # <<>> => Head(r) = Head(q)
  <2>1. q # <<>> => 1 \in 1 .. Len(q) /\ Head(q) = q[1]
    BY <1>1, ListIs, ListHead
  <2>2. Head(r) = r[1]
    BY <1>3, ListHead
  <2> QED
    BY <1>3, <2>1, <2>2
<1>11. q = <<>> => r = <<c>>
  BY <1>2
<1> QED
  BY <1>2, <1>3, <1>9, <1>10, <1>11

--------------------------------------------------------------------------------

(* The chunks of the records in the queue. *)
Alike(c, d) == /\ d.num_chunks = c.num_chunks /\ d.chunk_offset = c.chunk_offset
               /\ d.length_words = c.length_words /\ (IsStore(d) <=> IsStore(c))

\* The chunks of a command do not depend on how far it has come.
LEMMA SpansAlike ==
  ASSUME NEW c, NEW d, Alike(c, d), NEW ch, NEW s, Spans(c, ch, s)
  PROVE  Spans(d, ch, s)
BY DEF Spans, Alike

\* The command at the head goes on without its chunks.
LEMMA ChunksHead ==
  ASSUME NEW q, IsList(q), q # <<>>, NEW ch, ChunksOK(q, ch), NEW c, Alike(q[1], c),
         NEW r, r = [q EXCEPT ![1] = c]
  PROVE  ChunksOK(r, ch)
<1>1. /\ Len(r) = Len(q) /\ r[1] = c /\ \A n \in 2 .. Len(q) : r[n] = q[n]
      /\ Len(q) \in Nat
  BY ListIs, ListFirst
<1>2. PICK rest \in [0 .. Len(q) -> 0 .. Len(ch)] : IsRest(rest, q, ch)
  BY DEF ChunksOK
<1>3. \A n \in 1 .. Len(q) : n = 1 \/ n \in 2 .. Len(q)
  BY <1>1
<1>4. \A n \in 1 .. Len(q) : Alike(q[n], r[n])
  BY <1>1, <1>3 DEF Alike
<1>5. \A n \in 1 .. Len(r) : IsStore(r[n]) => rest[n - 1] = rest[n] + r[n].num_chunks
                                              /\ Spans(r[n], ch, Len(ch) - rest[n - 1])
  <2> SUFFICES ASSUME NEW n \in 1 .. Len(r), IsStore(r[n])
               PROVE  rest[n - 1] = rest[n] + r[n].num_chunks /\ Spans(r[n], ch, Len(ch) - rest[n - 1])
    OBVIOUS
  <2>1. n \in 1 .. Len(q) /\ Alike(q[n], r[n])
    BY <1>1, <1>4
  <2>2. IsStore(q[n]) /\ r[n].num_chunks = q[n].num_chunks
    BY <2>1 DEF Alike
  <2>3. rest[n - 1] = rest[n] + q[n].num_chunks /\ Spans(q[n], ch, Len(ch) - rest[n - 1])
    BY <1>2, <2>1, <2>2 DEF IsRest
  <2>4. Spans(r[n], ch, Len(ch) - rest[n - 1])
    BY <2>1, <2>3, SpansAlike
  <2> QED
    BY <2>2, <2>3, <2>4
<1>6. \A n \in 1 .. Len(r) : ~IsStore(r[n]) => rest[n - 1] = rest[n]
  BY <1>1, <1>2, <1>4 DEF IsRest, Alike
<1>7. IsRest(rest, r, ch)
  BY <1>1, <1>2, <1>5, <1>6 DEF IsRest
<1>8. rest \in [0 .. Len(r) -> 0 .. Len(ch)]
  BY <1>1, <1>2
<1> QED
  BY <1>7, <1>8 DEF ChunksOK

\* The command at the head has no chunks left.
LEMMA ChunksTail ==
  ASSUME NEW q, IsList(q), q # <<>>, NEW ch, ChunksOK(q, ch), IsStore(q[1]) => q[1].num_chunks = 0
  PROVE  ChunksOK(Tail(q), ch)
<1>1. PICK r : r = Tail(q)
  OBVIOUS
<1>2. PICK m \in Nat : m = Len(q) - 1 /\ Len(q) = m + 1 /\ Len(r) = m /\ \A n \in 1 .. m : r[n] = q[n + 1]
  <2>1. Len(q) \in Nat /\ Len(q) >= 1 /\ Len(r) = Len(q) - 1 /\ \A n \in 1 .. Len(q) - 1 : r[n] = q[n + 1]
    BY <1>1, ListIs, ListHead
  <2> QED
    BY <2>1
<1>3. PICK rest \in [0 .. Len(q) -> 0 .. Len(ch)] : IsRest(rest, q, ch)
  BY DEF ChunksOK
<1>4. PICK less : less = [n \in 0 .. m |-> rest[n + 1]]
  OBVIOUS
<1>5. \A n \in 0 .. m : n + 1 \in 0 .. Len(q) /\ less[n] = rest[n + 1]
  BY <1>2, <1>4
<1>6. less \in [0 .. Len(r) -> 0 .. Len(ch)]
  BY <1>2, <1>3, <1>4, <1>5
<1>7. rest[1] = rest[0]
  <2>1. 1 \in 1 .. Len(q) /\ 1 - 1 = 0 /\ 1 \in 0 .. Len(q) /\ 0 \in 0 .. Len(q)
    BY <1>2
  <2>2. PICK x \in 0 .. Len(ch), y \in 0 .. Len(ch) : x = rest[0] /\ y = rest[1]
    BY <1>3, <2>1
  <2>3. CASE IsStore(q[1])
    <3>1. x = y + q[1].num_chunks
      BY <1>3, <2>1, <2>2, <2>3 DEF IsRest
    <3> QED
      BY <2>2, <2>3, <3>1
  <2>4. CASE ~IsStore(q[1])
    BY <1>3, <2>1, <2>4 DEF IsRest
  <2> QED
    BY <2>3, <2>4
<1>8. less[0] = Len(ch) /\ less[Len(r)] = 0
  <2>1. 0 + 1 = 1 /\ 0 \in 0 .. m /\ m \in 0 .. m
    OBVIOUS
  <2> QED
    BY <1>2, <1>3, <1>5, <1>7, <2>1 DEF IsRest
<1>9. \A i, n \in 0 .. Len(r) : i <= n => less[n] <= less[i]
  <2> SUFFICES ASSUME NEW i \in 0 .. m, NEW n \in 0 .. m, i <= n PROVE less[n] <= less[i]
    BY <1>2
  <2>1. i + 1 <= n + 1
    OBVIOUS
  <2> QED
    BY <1>3, <1>5, <2>1 DEF IsRest
<1>10. \A n \in 1 .. m : n - 1 \in 0 .. m /\ n \in 0 .. m /\ n + 1 \in 1 .. Len(q) /\ (n - 1) + 1 = n /\ (n + 1) - 1 = n
  BY <1>2
<1>11. \A n \in 1 .. m : less[n - 1] = rest[n] /\ less[n] = rest[n + 1] /\ r[n] = q[n + 1]
  BY <1>2, <1>5, <1>10
<1>12. \A n \in 1 .. Len(r) : IsStore(r[n]) => less[n - 1] = less[n] + r[n].num_chunks
                                              /\ Spans(r[n], ch, Len(ch) - less[n - 1])
  <2> SUFFICES ASSUME NEW n \in 1 .. m, IsStore(r[n])
               PROVE  less[n - 1] = less[n] + r[n].num_chunks /\ Spans(r[n], ch, Len(ch) - less[n - 1])
    BY <1>2
  <2>1. PICK k \in 1 .. Len(q) : k = n + 1 /\ k - 1 = n
    BY <1>10
  <2>2. rest[k - 1] = rest[k] + q[k].num_chunks /\ Spans(q[k], ch, Len(ch) - rest[k - 1])
    BY <1>3, <1>11, <2>1 DEF IsRest
  <2> QED
    BY <1>11, <2>1, <2>2
<1>13. \A n \in 1 .. Len(r) : ~IsStore(r[n]) => less[n - 1] = less[n]
  <2> SUFFICES ASSUME NEW n \in 1 .. m, ~IsStore(r[n]) PROVE less[n - 1] = less[n]
    BY <1>2
  <2>1. PICK k \in 1 .. Len(q) : k = n + 1 /\ k - 1 = n
    BY <1>10
  <2>2. rest[k - 1] = rest[k]
    BY <1>3, <1>11, <2>1 DEF IsRest
  <2> QED
    BY <1>11, <2>1, <2>2
<1>14. IsRest(less, r, ch)
  BY <1>6, <1>8, <1>9, <1>12, <1>13 DEF IsRest
<1> QED
  BY <1>1, <1>6, <1>14 DEF ChunksOK

\* A record whose chunks are further on in the queue.
LEMMA SpansIn ==
  ASSUME NEW c, c.num_chunks \in Nat, NEW ch, NEW s \in Nat, Spans(c, ch, s), NEW dh, NEW r \in Nat,
         \A i \in 1 .. c.num_chunks : dh[r + i] = ch[s + i]
  PROVE  Spans(c, dh, r)
<1>1. PICK off \in [0 .. c.num_chunks -> 0 .. c.length_words] :
    /\ off[0] = c.chunk_offset - 3 /\ off[c.num_chunks] = c.length_words
    /\ \A i \in 1 .. c.num_chunks : off[i] = off[i - 1] + Len(ch[s + i])
  BY DEF Spans
<1>2. \A i \in 1 .. c.num_chunks : off[i] = off[i - 1] + Len(dh[r + i])
  BY <1>1
<1> QED
  BY <1>1, <1>2 DEF Spans

RestAt(q, ch, rest, n, m) ==
  \E k \in Nat, l \in Nat, x \in Nat, y \in Nat, s \in Nat :
    /\ k = q[n].num_chunks /\ l = Len(ch) /\ x = rest[m] /\ y = rest[n] /\ x = y + k /\ s = l - x
    /\ x <= l /\ Spans(q[n], ch, s)

\* The chunks of the n-th record come before those of the later ones.
LEMMA RestIs ==
  ASSUME NEW q, NEW ch, IsList(q), IsList(ch), NEW rest, IsRest(rest, q, ch), NEW n \in 1 .. Len(q), IsStore(q[n]),
         q[n].num_chunks \in Nat, NEW m, m = n - 1
  PROVE  RestAt(q, ch, rest, n, m)
<1>1. Len(q) \in Nat /\ Len(ch) \in Nat
  BY ListIs
<1>2. n \in 0 .. Len(q) /\ n - 1 \in 0 .. Len(q)
  BY <1>1
<1>3. rest \in [0 .. Len(q) -> 0 .. Len(ch)]
  BY DEF IsRest
<1>4. PICK l \in Nat, x \in Nat, y \in Nat, k \in Nat :
         l = Len(ch) /\ x = rest[n - 1] /\ y = rest[n] /\ k = q[n].num_chunks /\ x <= l /\ y <= l
  BY <1>1, <1>2, <1>3
<1>5. x = y + k /\ Spans(q[n], ch, Len(ch) - rest[n - 1])
  BY <1>4 DEF IsRest
<1>6. PICK s \in Nat : s = l - x /\ s = Len(ch) - rest[n - 1]
  BY <1>4
<1>7. Spans(q[n], ch, s) /\ x = rest[m]
  BY <1>4, <1>5, <1>6
<1> QED
  BY <1>4, <1>5, <1>6, <1>7 DEF RestAt

Consumed(ch, r, k, o, n) ==
  /\ ChunksOK(r, Tail(ch)) /\ ch # <<>> /\ IsChunk(ch[1]) /\ Head(ch) = ch[1] /\ Len(ch[1]) \in Nat
  /\ Len(ch[1]) >= 1 /\ o + Len(ch[1]) <= 3 + n /\ (k = 1 => o + Len(ch[1]) = 3 + n)
  /\ Len(Tail(ch)) = Len(ch) - 1

\* The command at the head writes the first chunk.
LEMMA ChunksConsume ==
  ASSUME NEW q, IsList(q), q # <<>>, NEW ch, ChunksOK(q, ch), NEW c, c = q[1], IsStore(c),
         NEW k \in Nat, k = c.num_chunks, k >= 1, NEW o \in Nat, o = c.chunk_offset, o >= 3,
         NEW n \in Nat, n = c.length_words, NEW d, IsStore(d), d.num_chunks = k - 1,
         d.chunk_offset = o + Len(ch[1]), d.length_words = n, NEW r, Goes(q, d, r),
         \A i \in 1 .. Len(q) : q[i].num_chunks \in Nat
  PROVE  Consumed(ch, r, k, o, n)
<1>1. /\ Len(r) = Len(q) /\ r[1] = d /\ \A i \in 2 .. Len(q) : r[i] = q[i]
      /\ Len(q) \in Nat /\ Len(q) >= 1 /\ 1 \in 1 .. Len(q)
  BY ListIs, Gone
<1>2. IsList(ch) /\ \A i \in 1 .. Len(ch) : IsChunk(ch[i])
  BY DEF ChunksOK
<1>3. PICK rest \in [0 .. Len(q) -> 0 .. Len(ch)] : IsRest(rest, q, ch)
  BY DEF ChunksOK
<1>4. PICK l \in Nat, y \in Nat : l = Len(ch) /\ rest[0] = l /\ y = rest[1] /\ l = y + k /\ Spans(c, ch, 0)
  <2>1. q[1].num_chunks \in Nat /\ IsStore(q[1])
    BY <1>1
  <2>0. 0 = 1 - 1
    OBVIOUS
  <2>2. PICK j \in Nat, l \in Nat, x \in Nat, y \in Nat, s \in Nat :
           /\ j = q[1].num_chunks /\ l = Len(ch) /\ x = rest[0] /\ y = rest[1] /\ x = y + j /\ s = l - x
           /\ x <= l /\ Spans(q[1], ch, s)
    <3>1. RestAt(q, ch, rest, 1, 0)
      BY <1>1, <1>2, <1>3, <2>0, <2>1, RestIs
    <3> QED
      BY ONLY <3>1 DEF RestAt
  <2>3. rest[0] = Len(ch)
    BY <1>3 DEF IsRest
  <2>4. x = l /\ j = k
    BY <2>2, <2>3
  <2>5. s = 0
    BY <2>2, <2>4
  <2> QED
    BY <2>2, <2>3, <2>4, <2>5
<1>5. ch # <<>> /\ Head(ch) = ch[1] /\ IsList(Tail(ch)) /\ Len(Tail(ch)) = l - 1 /\ \A i \in 1 .. l - 1 : Tail(ch)[i] = ch[i + 1]
  <2>0. Len(ch) >= 1
    BY ONLY <1>4, k \in Nat, k >= 1
  <2>1. ch # <<>>
    BY <1>2, <2>0, ListIs
  <2> QED
    BY <1>2, <1>4, <2>1, ListHead
<1>6. IsChunk(ch[1]) /\ Len(ch[1]) \in Nat /\ Len(ch[1]) >= 1
  <2>1. 1 \in 1 .. Len(ch)
    BY <1>4
  <2>2. IsChunk(ch[1])
    BY <1>2, <2>1
  <2> QED
    BY <2>2, ListIs DEF IsChunk
<1>7. PICK m \in Nat : m = Len(ch[1]) /\ m >= 1
  BY <1>6
<1>8. PICK off \in [0 .. k -> 0 .. n] : off[0] = o - 3 /\ off[k] = n /\ \A i \in 1 .. k : off[i] = off[i - 1] + Len(ch[0 + i])
  <2>1. PICK off \in [0 .. c.num_chunks -> 0 .. c.length_words] :
    /\ off[0] = c.chunk_offset - 3 /\ off[c.num_chunks] = c.length_words
    /\ \A i \in 1 .. c.num_chunks : off[i] = off[i - 1] + Len(ch[0 + i])
    BY <1>4 DEF Spans
  <2>2. off \in [0 .. k -> 0 .. n] /\ off[0] = o - 3 /\ off[k] = n
    BY ONLY <2>1, k = c.num_chunks, n = c.length_words, o = c.chunk_offset
  <2>3. \A i \in 1 .. k : off[i] = off[i - 1] + Len(ch[0 + i])
    BY ONLY <2>1, k = c.num_chunks
  <2> QED
    BY <2>2, <2>3
<1>9. off[1] = o - 3 + m /\ off[1] \in 0 .. n
  <2>1. 1 \in 1 .. k /\ 1 - 1 = 0 /\ 0 + 1 = 1 /\ 1 \in 0 .. k
    OBVIOUS
  <2> QED
    BY <1>7, <1>8, <2>1
<1>10. o + m <= 3 + n /\ (k = 1 => o + m = 3 + n)
  <2>1. off[1] = o - 3 + m /\ off[1] <= n /\ off[k] = n
    BY <1>8, <1>9
  <2>2. PICK b : b = off[1]
    OBVIOUS
  <2>3. b = o - 3 + m /\ b <= n /\ (k = 1 => b = n)
    BY ONLY <2>1, <2>2
  <2> QED
    BY ONLY <2>3, <1>7, o \in Nat, n \in Nat
<1>11. Spans(d, Tail(ch), 0)
  <2>1. PICK g : g = [i \in 0 .. k - 1 |-> off[i + 1]]
    OBVIOUS
  <2>2. \A i \in 0 .. k - 1 : i + 1 \in 0 .. k /\ g[i] = off[i + 1]
    BY <2>1
  <2>3. g \in [0 .. k - 1 -> 0 .. n]
    BY <1>8, <2>1, <2>2
  <2>4. g[0] = (o + m) - 3 /\ g[k - 1] = n
    <3>1. 0 \in 0 .. k - 1 /\ k - 1 \in 0 .. k - 1 /\ 0 + 1 = 1 /\ (k - 1) + 1 = k
      OBVIOUS
    <3>2. g[0] = off[1] /\ g[k - 1] = off[k]
      BY ONLY <2>2, <3>1
    <3>3. off[1] = (o + m) - 3
      <4>1. off[1] = o - 3 + m
        BY <1>9
      <4>2. o - 3 + m = (o + m) - 3
        BY ONLY <1>7, o \in Nat
      <4> QED
        BY ONLY <4>1, <4>2
    <3> QED
      BY <1>8, <3>2, <3>3
  <2>5. ASSUME NEW i \in 1 .. k - 1
        PROVE  g[i] = g[i - 1] + Len(Tail(ch)[0 + i])
    <3>0. i \in Nat /\ 1 <= i /\ i <= k - 1 /\ k - 1 <= l - 1
      BY ONLY SMTT(20), <1>4, i \in 1 .. k - 1, k \in Nat
    <3>1. i \in 0 .. k - 1 /\ i - 1 \in 0 .. k - 1 /\ (i - 1) + 1 = i /\ i + 1 \in 1 .. k /\ (i + 1) - 1 = i /\ i \in 1 .. l - 1
          /\ 0 + i = i /\ 0 + (i + 1) = i + 1
      BY ONLY <3>0, k \in Nat, l \in Nat
    <3>2. off[i + 1] = off[i] + Len(ch[i + 1])
      BY <1>8, <3>1
    <3>3. Tail(ch)[0 + i] = ch[i + 1]
      BY <1>5, <3>1
    <3> QED
      BY <2>2, <3>1, <3>2, <3>3
  <2>6. d.num_chunks = k - 1 /\ d.length_words = n /\ d.chunk_offset - 3 = (o + m) - 3
    BY <1>7
  <2> QED
    BY <2>3, <2>4, <2>5, <2>6 DEF Spans
<1>12. PICK less : less = [i \in 0 .. Len(q) |-> IF i = 0 THEN l - 1 ELSE rest[i]]
  OBVIOUS
<1>13. less[0] = l - 1 /\ \A i \in 1 .. Len(q) : less[i] = rest[i]
  BY <1>1, <1>12
<1>14. \A i \in 1 .. Len(q) : rest[i] \in 0 .. y
  <2> SUFFICES ASSUME NEW i \in 1 .. Len(q) PROVE rest[i] \in 0 .. y
    OBVIOUS
  <2>1. i \in 0 .. Len(q) /\ 1 \in 0 .. Len(q) /\ 1 <= i
    BY <1>1
  <2>2. rest[i] <= rest[1]
    BY <1>3, <2>1 DEF IsRest
  <2>3. rest[i] \in 0 .. Len(ch)
    BY <1>3, <2>1
  <2> QED
    BY <1>4, <2>2, <2>3
<1>15. l - 1 \in Nat /\ y <= l - 1
  BY SMTT(40), <1>4
<1>16. less \in [0 .. Len(r) -> 0 .. l - 1]
  <2>1. \A i \in 0 .. Len(q) : less[i] \in 0 .. l - 1
    <3> SUFFICES ASSUME NEW i \in 0 .. Len(q) PROVE less[i] \in 0 .. l - 1
      OBVIOUS
    <3>1. CASE i = 0
      BY SMTT(20), <1>13, <1>15, <3>1
    <3>2. CASE i # 0
      <4>1. i \in 1 .. Len(q)
        BY <1>1, <3>2
      <4>2. rest[i] \in 0 .. y
        BY <1>14, <4>1
      <4> QED
        BY SMTT(20), <1>13, <1>15, <4>1, <4>2
    <3> QED
      BY <3>1, <3>2
  <2> QED
    BY <1>1, <1>12, <2>1
<1>17. less[0] = Len(Tail(ch)) /\ less[Len(r)] = 0
  <2>1. Len(q) \in 1 .. Len(q) /\ rest[Len(q)] = 0
    BY <1>1, <1>3 DEF IsRest
  <2> QED
    BY <1>1, <1>5, <1>13, <2>1
<1>18. \A i, j \in 0 .. Len(r) : i <= j => less[j] <= less[i]
  <2> SUFFICES ASSUME NEW i \in 0 .. Len(q), NEW j \in 0 .. Len(q), i <= j PROVE less[j] <= less[i]
    BY <1>1
  <2>1. CASE i = 0
    <3>1. less[j] \in 0 .. l - 1
      BY <1>1, <1>16
    <3> QED
      BY <1>13, <1>15, <2>1, <3>1
  <2>2. CASE i # 0
    <3>1. i \in 1 .. Len(q) /\ j \in 1 .. Len(q)
      BY SMTT(20), <1>1, <2>2
    <3>2. rest[j] <= rest[i]
      BY <1>3 DEF IsRest
    <3> QED
      BY <1>13, <3>1, <3>2
  <2> QED
    BY <2>1, <2>2
<1>19. \A i \in 1 .. Len(r) : IsStore(r[i]) => less[i - 1] = less[i] + r[i].num_chunks
                                              /\ Spans(r[i], Tail(ch), Len(Tail(ch)) - less[i - 1])
  <2> SUFFICES ASSUME NEW i \in 1 .. Len(q), IsStore(r[i])
               PROVE  less[i - 1] = less[i] + r[i].num_chunks /\ Spans(r[i], Tail(ch), Len(Tail(ch)) - less[i - 1])
    BY <1>1
  <2>1. CASE i = 1
    <3>a. i = 1 /\ 1 \in 1 .. Len(q)
      BY <1>1, <2>1
    <3>b. less[1] = rest[1]
      BY <1>13, <3>a
    <3>c. i - 1 = 0
      BY <3>a
    <3>0. i - 1 = 0 /\ i = 1 /\ 1 \in 1 .. Len(q) /\ less[1] = rest[1]
      BY <3>a, <3>b, <3>c
    <3>1. i - 1 = 0 /\ less[i] = y /\ less[i - 1] = l - 1
      BY ONLY <3>0, <1>4, <1>13
    <3>2. l - 1 = y + (k - 1)
      BY <1>4
    <3>3. Len(Tail(ch)) - less[i - 1] = 0
      BY <1>5, <3>1
    <3> QED
      BY <1>1, <1>11, <2>1, <3>1, <3>2, <3>3
  <2>2. CASE i # 1
    <3>0. i \in 2 .. Len(q) /\ i - 1 \in 1 .. Len(q)
      BY ONLY <1>1, <2>2, i \in 1 .. Len(r)
    <3>1. i \in 2 .. Len(q) /\ i - 1 \in 1 .. Len(q) /\ r[i] = q[i]
      BY <1>1, <3>0
    <3>2. less[i - 1] = rest[i - 1] /\ less[i] = rest[i] /\ rest[i - 1] \in 0 .. y
      BY <1>13, <1>14, <3>1
    <3>3. q[i].num_chunks \in Nat /\ IsStore(q[i])
      BY <3>1
    <3>4. PICK b : b = i - 1
      OBVIOUS
    <3>5. PICK j \in Nat, h \in Nat, x \in Nat, w \in Nat, s \in Nat :
           /\ j = q[i].num_chunks /\ h = Len(ch) /\ x = rest[b] /\ w = rest[i] /\ x = w + j /\ s = h - x
           /\ x <= h /\ Spans(q[i], ch, s)
      <4>1. RestAt(q, ch, rest, i, b)
        BY <1>2, <1>3, <3>3, <3>4, RestIs
      <4> QED
        BY ONLY <4>1 DEF RestAt
    <3>6. h = l /\ x <= y
      <4>1. rest[b] \in 0 .. y
        BY <3>2, <3>4
      <4>2. x = rest[b] /\ h = Len(ch)
        BY <3>5
      <4>3. l = Len(ch)
        BY <1>4
      <4>4. x \in 0 .. y
        BY ONLY <4>1, <4>2
      <4>5. h = l
        BY ONLY <4>2, <4>3
      <4> QED
        BY <4>4, <4>5
    <3>7. PICK t \in Nat : t = s - 1 /\ s = t + 1 /\ t = (l - 1) - x /\ s + j <= l
      <4>1. s >= 1 /\ s - 1 \in Nat /\ s + j <= l /\ s - 1 = (l - 1) - x
        <5>1. l = y + k /\ s = h - x /\ x = w + j
          BY <1>4, <3>5
        <5> QED
          BY ONLY <5>1, <3>6, k \in Nat, k >= 1, l \in Nat, y \in Nat, s \in Nat, x \in Nat, w \in Nat, j \in Nat,
             h \in Nat
      <4> QED
        BY <4>1
    <3>8. \A a \in 1 .. j : Tail(ch)[t + a] = ch[s + a]
      <4> SUFFICES ASSUME NEW a \in 1 .. j PROVE Tail(ch)[t + a] = ch[s + a]
        OBVIOUS
      <4>1. t + a \in 1 .. l - 1 /\ (t + a) + 1 = s + a
        BY ONLY <3>7, a \in 1 .. j, j \in Nat, l \in Nat, t \in Nat, s \in Nat
      <4> QED
        BY <1>5, <4>1
    <3>9. Spans(q[i], Tail(ch), t)
      <4>1. PICK z : z = q[i]
        OBVIOUS
      <4>2. z.num_chunks \in Nat /\ j = z.num_chunks /\ Spans(z, ch, s)
        BY <3>3, <3>5, <4>1
      <4>3. \A a \in 1 .. z.num_chunks : Tail(ch)[t + a] = ch[s + a]
        BY <3>8, <4>2
      <4>4. Spans(z, Tail(ch), t)
        BY ONLY <4>2, <4>3, t \in Nat, s \in Nat, SpansIn
      <4> QED
        BY <4>1, <4>4
    <3>10. Len(Tail(ch)) - less[i - 1] = t /\ less[i - 1] = less[i] + q[i].num_chunks
      <4>1. less[i - 1] = x /\ less[i] = w
        BY <3>2, <3>4, <3>5
      <4> QED
        BY <1>5, <3>5, <3>7, <4>1
    <3> QED
      BY <3>1, <3>9, <3>10
  <2> QED
    BY <2>1, <2>2
<1>20. \A i \in 1 .. Len(r) : ~IsStore(r[i]) => less[i - 1] = less[i]
  <2> SUFFICES ASSUME NEW i \in 1 .. Len(q), ~IsStore(r[i]) PROVE less[i - 1] = less[i]
    BY <1>1
  <2>1. i # 1
    BY <1>1
  <2>2. i \in 2 .. Len(q) /\ i - 1 \in 1 .. Len(q) /\ r[i] = q[i]
    <3>1. i \in 2 .. Len(q) /\ i - 1 \in 1 .. Len(q)
      BY ONLY <1>1, <2>1, i \in 1 .. Len(r)
    <3> QED
      BY <1>1, <3>1
  <2> QED
    BY <1>3, <1>13, <2>2 DEF IsRest
<1>21. less \in [0 .. Len(r) -> 0 .. Len(Tail(ch))]
  BY <1>5, <1>16
<1>22. IsRest(less, r, Tail(ch))
  BY <1>17, <1>18, <1>19, <1>20, <1>21 DEF IsRest
<1>23. \A i \in 1 .. Len(Tail(ch)) : IsChunk(Tail(ch)[i])
  <2> SUFFICES ASSUME NEW i \in 1 .. l - 1 PROVE IsChunk(Tail(ch)[i])
    BY <1>5
  <2>1. i + 1 \in 1 .. Len(ch)
    BY <1>4
  <2> QED
    BY <1>2, <1>5, <2>1
<1>24. ChunksOK(r, Tail(ch))
  BY <1>5, <1>21, <1>22, <1>23 DEF ChunksOK
<1>25. /\ ch # <<>> /\ IsChunk(ch[1]) /\ Head(ch) = ch[1] /\ Len(ch[1]) \in Nat
       /\ Len(ch[1]) >= 1 /\ o + Len(ch[1]) <= 3 + n /\ (k = 1 => o + Len(ch[1]) = 3 + n)
       /\ Len(Tail(ch)) = Len(ch) - 1
  BY <1>4, <1>5, <1>6, <1>7, <1>10
<1> QED
  BY <1>24, <1>25 DEF Consumed

\* A command with its chunks comes: c behind q, and cs, none if c is no record, behind ch.
Brings(c, cs) == /\ IsList(cs) /\ \A i \in 1 .. Len(cs) : IsChunk(cs[i])
                 /\ IsStore(c) => c.num_chunks = Len(cs) /\ Spans(c, cs, 0)
                 /\ ~IsStore(c) => cs = <<>>

\* The chunks stay in order when a command and its chunks come.
LEMMA ChunksAppend ==
  ASSUME NEW q, IsList(q), NEW ch, ChunksOK(q, ch), \A i \in 1 .. Len(q) : q[i].num_chunks \in Nat,
         NEW c, c.num_chunks \in Nat, NEW cs, Brings(c, cs)
  PROVE  ChunksOK(Append(q, c), ch \o cs)
<1>1. PICK r, dh : r = Append(q, c) /\ dh = ch \o cs
  OBVIOUS
<1>2. IsList(ch) /\ (\A i \in 1 .. Len(ch) : IsChunk(ch[i])) /\ IsList(cs)
  BY DEF ChunksOK, Brings
<1>3. PICK n \in Nat, l \in Nat, k \in Nat : n = Len(q) /\ l = Len(ch) /\ k = Len(cs)
  BY <1>2, ListIs
<1>4. Len(r) = n + 1 /\ r[n + 1] = c /\ \A i \in 1 .. n : r[i] = q[i]
  BY <1>1, <1>3, ListAppend
<1>5. /\ IsList(dh) /\ Len(dh) = l + k /\ (\A i \in 1 .. l : dh[i] = ch[i])
      /\ \A i \in 1 .. k : dh[l + i] = cs[i]
  BY <1>1, <1>2, <1>3, ListConcat
<1>6. PICK rest \in [0 .. Len(q) -> 0 .. Len(ch)] : IsRest(rest, q, ch)
  BY DEF ChunksOK
<1>7. PICK more : more = [i \in 0 .. n + 1 |-> IF i = n + 1 THEN 0 ELSE rest[i] + k]
  OBVIOUS
<1>8. more[n + 1] = 0 /\ \A i \in 0 .. n : more[i] = rest[i] + k
  BY <1>7
<1>9. rest[0] = l /\ rest[n] = 0 /\ \A i \in 0 .. n : rest[i] \in Nat /\ rest[i] <= l
  BY <1>3, <1>6 DEF IsRest
<1>10. more \in [0 .. Len(r) -> 0 .. Len(dh)]
  <2>1. \A i \in 0 .. n + 1 : more[i] \in 0 .. l + k
    <3> SUFFICES ASSUME NEW i \in 0 .. n + 1 PROVE more[i] \in 0 .. l + k
      OBVIOUS
    <3>1. CASE i = n + 1
      BY <1>8, <3>1
    <3>2. CASE i # n + 1
      <4>1. i \in 0 .. n
        BY <3>2
      <4>2. PICK a \in Nat : a = rest[i] /\ a <= l /\ more[i] = a + k
        BY <1>8, <1>9, <4>1
      <4>3. a + k \in 0 .. l + k
        BY ONLY <4>2, a \in Nat, k \in Nat, l \in Nat
      <4> QED
        BY <4>2, <4>3
    <3> QED
      BY <3>1, <3>2
  <2> QED
    BY <1>4, <1>5, <1>7, <2>1
<1>11. more[0] = Len(dh) /\ more[Len(r)] = 0
  <2>1. 0 \in 0 .. n
    OBVIOUS
  <2> QED
    BY <1>4, <1>5, <1>8, <1>9, <2>1
<1>12. \A i, j \in 0 .. Len(r) : i <= j => more[j] <= more[i]
  <2> SUFFICES ASSUME NEW i \in 0 .. n + 1, NEW j \in 0 .. n + 1, i <= j PROVE more[j] <= more[i]
    BY <1>4
  <2>1. CASE j = n + 1
    <3>1. more[i] \in 0 .. Len(dh)
      BY <1>4, <1>10
    <3> QED
      BY <1>5, <1>8, <2>1, <3>1
  <2>2. CASE j # n + 1
    <3>1. i \in 0 .. n /\ j \in 0 .. n
      BY <2>2
    <3>2. rest[j] <= rest[i]
      BY <1>3, <1>6, <3>1 DEF IsRest
    <3>3. PICK a \in Nat, b \in Nat : a = rest[i] /\ b = rest[j] /\ more[i] = a + k /\ more[j] = b + k
      BY <1>8, <1>9, <3>1
    <3>4. b <= a
      BY <3>2, <3>3
    <3> QED
      BY <3>3, <3>4
  <2> QED
    BY <2>1, <2>2
<1>13. ASSUME NEW i \in 1 .. n, IsStore(q[i])
       PROVE  more[i - 1] = more[i] + q[i].num_chunks /\ Spans(q[i], dh, Len(dh) - more[i - 1])
  <2>1. PICK b : b = i - 1
    OBVIOUS
  <2>2. q[i].num_chunks \in Nat /\ i \in 1 .. Len(q)
    BY <1>3
  <2>3. PICK j \in Nat, h \in Nat, x \in Nat, w \in Nat, s \in Nat :
           /\ j = q[i].num_chunks /\ h = Len(ch) /\ x = rest[b] /\ w = rest[i] /\ x = w + j /\ s = h - x
           /\ x <= h /\ Spans(q[i], ch, s)
    <3>1. RestAt(q, ch, rest, i, b)
      BY <1>2, <1>6, <1>13, <2>1, <2>2, RestIs
    <3> QED
      BY ONLY <3>1 DEF RestAt
  <2>4. h = l
    BY <1>3, <2>3
  <2>5. b \in 0 .. n /\ i \in 0 .. n
    BY <2>1
  <2>6. more[b] = x + k /\ more[i] = w + k
    BY <1>8, <2>3, <2>5
  <2>7. \A a \in 1 .. j : dh[s + a] = ch[s + a]
    <3> SUFFICES ASSUME NEW a \in 1 .. j PROVE dh[s + a] = ch[s + a]
      OBVIOUS
    <3>1. s + a \in 1 .. l
      <4>1. s = l - x /\ x = w + j
        BY <2>3, <2>4
      <4> QED
        BY ONLY <4>1, a \in 1 .. j, l \in Nat, x \in Nat, w \in Nat, j \in Nat, s \in Nat
    <3> QED
      BY <1>5, <3>1
  <2>8. Spans(q[i], dh, s)
    <3>1. PICK z : z = q[i]
      OBVIOUS
    <3>2. z.num_chunks \in Nat /\ j = z.num_chunks /\ Spans(z, ch, s)
      BY <2>2, <2>3, <3>1
    <3>3. \A a \in 1 .. z.num_chunks : dh[s + a] = ch[s + a]
      BY <2>7, <3>2
    <3>4. Spans(z, dh, s)
      BY ONLY <3>2, <3>3, s \in Nat, SpansIn
    <3> QED
      BY <3>1, <3>4
  <2>9. Len(dh) - more[b] = s
    BY <1>5, <2>3, <2>4, <2>6
  <2>10. x + k = (w + k) + j
    <3>1. x = w + j
      BY <2>3
    <3> QED
      BY <3>1
  <2> QED
    BY <2>1, <2>3, <2>6, <2>8, <2>9, <2>10
<1>14. ASSUME IsStore(c)
       PROVE  more[n] = more[n + 1] + c.num_chunks /\ Spans(c, dh, Len(dh) - more[n])
  <2>1. c.num_chunks = k /\ Spans(c, cs, 0)
    BY <1>3, <1>14 DEF Brings
  <2>2. more[n] = k
    BY <1>8, <1>9
  <2>3. \A a \in 1 .. c.num_chunks : dh[l + a] = cs[0 + a]
    BY <1>5, <2>1
  <2>4. Spans(c, dh, l)
    BY ONLY <2>1, <2>3, c.num_chunks \in Nat, l \in Nat, SpansIn
  <2> QED
    BY <1>5, <1>8, <2>1, <2>2, <2>4
<1>15. ~IsStore(c) => k = 0
  BY <1>3, ListNone DEF Brings
<1>16. \A i \in 1 .. Len(r) : i \in 1 .. n \/ (i = n + 1 /\ i - 1 = n)
  <2>1. \A i \in 1 .. n + 1 : i \in 1 .. n \/ (i = n + 1 /\ i - 1 = n)
    OBVIOUS
  <2> QED
    BY <1>4, <2>1
<1>17. \A i \in 1 .. Len(r) : IsStore(r[i]) => more[i - 1] = more[i] + r[i].num_chunks
                                               /\ Spans(r[i], dh, Len(dh) - more[i - 1])
  BY <1>4, <1>13, <1>14, <1>16
<1>18. \A i \in 1 .. Len(r) : ~IsStore(r[i]) => more[i - 1] = more[i]
  <2> SUFFICES ASSUME NEW i \in 1 .. Len(r), ~IsStore(r[i]) PROVE more[i - 1] = more[i]
    OBVIOUS
  <2>1. CASE i = n + 1
    <3>1. ~IsStore(c) /\ k = 0 /\ i - 1 = n
      BY <1>4, <1>15, <2>1
    <3>2. more[n] = rest[n] + k /\ more[i] = 0
      BY <1>8, <2>1
    <3>3. more[n] = 0
      BY <1>9, <3>1, <3>2
    <3> QED
      BY <3>1, <3>2, <3>3
  <2>2. CASE i # n + 1
    <3>1. i \in 1 .. n /\ i - 1 \in 0 .. n /\ i \in 0 .. n
      BY <1>4, <2>2
    <3>2. rest[i - 1] = rest[i]
      BY <1>3, <1>4, <1>6, <3>1 DEF IsRest
    <3> QED
      BY <1>8, <3>1, <3>2
  <2> QED
    BY <2>1, <2>2
<1>19. IsRest(more, r, dh)
  BY <1>10, <1>11, <1>12, <1>17, <1>18 DEF IsRest
<1>20. \A i \in 1 .. Len(dh) : IsChunk(dh[i])
  <2> SUFFICES ASSUME NEW i \in 1 .. l + k PROVE IsChunk(dh[i])
    BY <1>5
  <2>1. CASE i <= l
    <3>1. i \in 1 .. l
      BY <2>1
    <3> QED
      BY <1>2, <1>3, <1>5, <3>1
  <2>2. CASE i > l
    <3>1. PICK a \in 1 .. k : i = l + a
      <4>1. i - l \in 1 .. k /\ i = l + (i - l)
        BY <2>2
      <4> QED
        BY <4>1
    <3> QED
      BY <1>3, <1>5, <3>1 DEF Brings
  <2> QED
    BY <2>1, <2>2
<1> QED
  BY <1>1, <1>5, <1>10, <1>19, <1>20 DEF ChunksOK

\* The same for a command without chunks.
LEMMA ChunksPlus ==
  ASSUME NEW q, IsList(q), NEW ch, ChunksOK(q, ch), \A i \in 1 .. Len(q) : q[i].num_chunks \in Nat,
         NEW c, c.num_chunks \in Nat, ~IsStore(c)
  PROVE  ChunksOK(Append(q, c), ch)
<1>1. Brings(c, <<>>)
  BY ListNone DEF Brings
<1>2. ChunksOK(Append(q, c), ch \o <<>>)
  BY <1>1, ChunksAppend
<1>3. ch \o <<>> = ch
  <2>1. PICK T : ch \in Seq(T)
    BY DEF ChunksOK, IsList
  <2> QED
    BY <2>1
<1> QED
  BY <1>2, <1>3

--------------------------------------------------------------------------------

(* Sums. *)
Sums(g, l, n) == /\ g \in [0 .. n -> Nat] /\ g[0] = 0
                 /\ \A i \in 1 .. n : g[i] = g[i - 1] + l[i]

\* A list of partial sums ends in the sum of the lengths.
LEMMA SumIs ==
  ASSUME NEW l, NEW n \in Nat, Len(l) = n, NEW g, Sums(g, l, n)
  PROVE  SumOf(l) = g[n]
<1> DEFINE IsSum(h) == h = [i \in 0 .. Len(l) |-> IF i = 0 THEN 0 ELSE h[i - 1] + l[i]]
<1>1. IsSum(g)
  <2>1. g = [i \in 0 .. n |-> g[i]]
    BY DEF Sums
  <2>2. \A i \in 0 .. n : g[i] = IF i = 0 THEN 0 ELSE g[i - 1] + l[i]
    <3> SUFFICES ASSUME NEW i \in 0 .. n PROVE g[i] = IF i = 0 THEN 0 ELSE g[i - 1] + l[i]
      OBVIOUS
    <3>1. CASE i = 0
      BY <3>1 DEF Sums
    <3>2. CASE i # 0
      <4>1. i \in 1 .. n
        BY <3>2
      <4> QED
        BY <3>2, <4>1 DEF Sums
    <3> QED
      BY <3>1, <3>2
  <2>3. g = [i \in 0 .. n |-> IF i = 0 THEN 0 ELSE g[i - 1] + l[i]]
    BY <2>1, <2>2
  <2> QED
    BY <2>3
<1>2. PICK h : h = CHOOSE y : IsSum(y)
  OBVIOUS
<1>3. IsSum(h)
  BY <1>1, <1>2
<1>4. SumOf(l) = h[n]
  BY <1>2 DEF SumOf
<1>5. \A i \in 0 .. n : h[i] = IF i = 0 THEN 0 ELSE h[i - 1] + l[i]
  BY <1>3
<1> HIDE DEF IsSum
<1> DEFINE Equal == {i \in Nat : i <= n => h[i] = g[i]}
<1>6. 0 \in Equal
  BY <1>5 DEF Sums
<1>7. \A i \in Nat : i \in Equal => i + 1 \in Equal
  <2> SUFFICES ASSUME NEW i \in Nat, i + 1 <= n, h[i] = g[i] PROVE h[i + 1] = g[i + 1]
    OBVIOUS
  <2>1. i + 1 \in 1 .. n /\ i + 1 \in 0 .. n /\ (i + 1) - 1 = i /\ i + 1 # 0
    OBVIOUS
  <2>2. PICK k : k = i + 1 /\ k \in 1 .. n /\ k \in 0 .. n /\ k # 0 /\ k - 1 = i
    BY <2>1
  <2>3. h[k] = h[k - 1] + l[k]
    BY <1>5, <2>2
  <2>4. g[k] = g[k - 1] + l[k]
    BY <2>2 DEF Sums
  <2> QED
    BY <2>2, <2>3, <2>4
<1> HIDE DEF Equal
<1>8. \A i \in Nat : i \in Equal
  BY <1>6, <1>7, Induction
<1>9. h[n] = g[n]
  BY <1>8 DEF Equal
<1> QED
  BY <1>4, <1>9

HasSums(l, m) == \E g \in [0 .. m -> Nat] : Sums(g, l, m) /\ \A i \in 0 .. m : g[i] <= g[m]

\* Every list of lengths has its partial sums.
LEMMA SumExists ==
  ASSUME NEW l, NEW n \in Nat, \A i \in 1 .. n : l[i] \in Nat
  PROVE  HasSums(l, n)
<1> DEFINE Has == {m \in Nat : m <= n => HasSums(l, m)}
<1>1. 0 \in Has
  <2>1. PICK g : g = [i \in 0 .. 0 |-> 0]
    OBVIOUS
  <2>2. g \in [0 .. 0 -> Nat] /\ g[0] = 0
    BY <2>1
  <2>3. \A i \in 0 .. 0 : i = 0
    OBVIOUS
  <2>4. \A i \in 0 .. 0 : g[i] <= g[0]
    BY <2>2, <2>3
  <2>5. Sums(g, l, 0)
    BY <2>2 DEF Sums
  <2>6. HasSums(l, 0)
    BY <2>2, <2>4, <2>5 DEF HasSums
  <2> QED
    BY <2>6
<1>2. ASSUME NEW m \in Nat, m + 1 <= n, HasSums(l, m)
      PROVE  HasSums(l, m + 1)
  <2>1. PICK g \in [0 .. m -> Nat] : Sums(g, l, m) /\ \A i \in 0 .. m : g[i] <= g[m]
    BY <1>2 DEF HasSums
  <2>2. PICK k \in Nat : k = m + 1 /\ k - 1 = m /\ k \in 1 .. n
    BY <1>2
  <2>3. PICK h : h = [i \in 0 .. k |-> IF i = k THEN g[m] + l[k] ELSE g[i]]
    OBVIOUS
  <2>4. PICK x \in Nat, y \in Nat : x = g[m] /\ y = l[k]
    BY <2>2
  <2>5. h[k] = x + y /\ \A i \in 0 .. m : h[i] = g[i]
    BY <2>2, <2>3, <2>4
  <2>6. \A i \in 0 .. k : i \in 0 .. m \/ i = k
    BY <2>2
  <2>7. \A i \in 0 .. k : h[i] \in Nat /\ h[i] <= h[k]
    <3> SUFFICES ASSUME NEW i \in 0 .. k PROVE h[i] \in Nat /\ h[i] <= h[k]
      OBVIOUS
    <3>1. CASE i = k
      BY <2>5, <3>1
    <3>2. CASE i \in 0 .. m
      <4>1. PICK a \in Nat : a = g[i] /\ a <= x
        BY <2>1, <2>4, <3>2
      <4>2. a <= x + y
        BY <4>1
      <4> QED
        BY <2>5, <3>2, <4>1, <4>2
    <3> QED
      BY <2>6, <3>1, <3>2
  <2>8. h \in [0 .. k -> Nat]
    BY <2>3, <2>7
  <2>9. \A i \in 1 .. k : h[i] = h[i - 1] + l[i]
    <3> SUFFICES ASSUME NEW i \in 1 .. k PROVE h[i] = h[i - 1] + l[i]
      OBVIOUS
    <3>1. CASE i = k
      <4>1. m \in 0 .. m /\ i - 1 = m
        BY <2>2, <3>1
      <4>2. h[m] = x
        BY <2>4, <2>5, <4>1
      <4> QED
        BY <2>4, <2>5, <3>1, <4>1, <4>2
    <3>2. CASE i # k
      <4>1. i \in 1 .. m /\ i \in 0 .. m /\ i - 1 \in 0 .. m
        BY <2>2, <3>2
      <4>2. g[i] = g[i - 1] + l[i]
        BY <2>1, <4>1 DEF Sums
      <4> QED
        BY <2>5, <4>1, <4>2
    <3> QED
      BY <3>1, <3>2
  <2>10. h[0] = 0
    <3>1. 0 \in 0 .. m /\ g[0] = 0
      BY <2>1 DEF Sums
    <3> QED
      BY <2>5, <3>1
  <2>11. Sums(h, l, k)
    BY <2>8, <2>9, <2>10 DEF Sums
  <2>12. HasSums(l, k)
    BY <2>7, <2>8, <2>11 DEF HasSums
  <2> QED
    BY <2>2, <2>12
<1>3. \A m \in Nat : m \in Has => m + 1 \in Has
  <2> SUFFICES ASSUME NEW m \in Nat, m <= n => HasSums(l, m), m + 1 <= n PROVE HasSums(l, m + 1)
    OBVIOUS
  <2> QED
    BY <1>2
<1> HIDE DEF Has
<1>4. \A m \in Nat : m \in Has
  BY <1>1, <1>3, Induction
<1> QED
  BY <1>4 DEF Has

\* The sums of the lengths of a record, up to its own.
LEMMA SumOfIs ==
  ASSUME NEW l, NEW n \in Nat, Len(l) = n, \A i \in 1 .. n : l[i] \in Nat
  PROVE  /\ SumOf(l) \in Nat
         /\ \E g \in [0 .. n -> 0 .. SumOf(l)] : Sums(g, l, n) /\ g[n] = SumOf(l)
<1>1. PICK g \in [0 .. n -> Nat] : Sums(g, l, n) /\ \A i \in 0 .. n : g[i] <= g[n]
  BY SumExists DEF HasSums
<1>2. SumOf(l) = g[n]
  BY <1>1, SumIs
<1>3. PICK x \in Nat : x = g[n]
  BY <1>1
<1>4. \A i \in 0 .. n : g[i] \in 0 .. x
  BY <1>1, <1>3
<1>5. g \in [0 .. n -> 0 .. SumOf(l)]
  BY <1>2, <1>3, <1>4
<1> QED
  BY <1>1, <1>2, <1>3, <1>5

--------------------------------------------------------------------------------

(* The words that are promised. *)

\* What is promised stays within its bound when the head goes on as another step of itself.
LEMMA DueHead ==
  ASSUME NEW q, IsList(q), q # <<>>, NEW c, NEW tk, NEW v, WordsFor(c, v) = WordsFor(q[1], v), NEW m,
         DueWithin(q, tk, v, m), NEW r, r = [q EXCEPT ![1] = c]
  PROVE  DueWithin(r, tk, v, m)
<1>1. /\ Len(r) = Len(q) /\ r[1] = c /\ \A n \in 2 .. Len(q) : r[n] = q[n]
      /\ Len(q) \in Nat
  BY ListIs, ListFirst
<1>2. PICK due \in [0 .. Len(q) -> 0 .. m] : IsDue(due, q, tk, v)
  BY DEF DueWithin
<1>3. \A n \in 1 .. Len(q) : n = 1 \/ n \in 2 .. Len(q)
  BY <1>1
<1>4. \A n \in 1 .. Len(q) : WordsFor(r[n], v) = WordsFor(q[n], v)
  BY <1>1, <1>3
<1>5. IsDue(due, r, tk, v)
  BY <1>1, <1>2, <1>4 DEF IsDue
<1> QED
  BY <1>1, <1>2, <1>5 DEF DueWithin

\* When the head goes its own words are promised no longer.
LEMMA DueTail ==
  ASSUME NEW q, IsList(q), q # <<>>, NEW tk, NEW v, NEW m \in Nat, DueWithin(q, tk, v, m),
         NEW w \in Nat, w = WordsFor(q[1], v)
  PROVE  w <= m /\ DueWithin(Tail(q), tk, v, m - w)
<1>1. PICK r : r = Tail(q)
  OBVIOUS
<1>2. PICK l \in Nat : l = Len(q) - 1 /\ Len(q) = l + 1 /\ Len(r) = l /\ \A n \in 1 .. l : r[n] = q[n + 1]
  <2>1. Len(q) \in Nat /\ Len(q) >= 1 /\ Len(r) = Len(q) - 1 /\ \A n \in 1 .. Len(q) - 1 : r[n] = q[n + 1]
    BY <1>1, ListIs, ListHead
  <2> QED
    BY <2>1
<1>3. PICK due \in [0 .. Len(q) -> 0 .. m] : IsDue(due, q, tk, v)
  BY DEF DueWithin
<1>4. PICK x \in 0 .. m, y \in 0 .. m : x = due[0] /\ y = due[1]
  <2>1. 0 \in 0 .. Len(q) /\ 1 \in 0 .. Len(q)
    BY <1>2
  <2> QED
    BY <1>3, <2>1
<1>5. x = y + w
  <2>1. 1 \in 1 .. Len(q) /\ 1 - 1 = 0
    BY <1>2
  <2>2. due[0] = due[1] + WordsFor(q[1], v)
    BY <1>3, <2>1 DEF IsDue
  <2> QED
    BY <1>4, <2>2
<1>6. w <= m /\ m - w \in Nat /\ y <= m - w
  BY <1>4, <1>5
<1>7. PICK less : less = [n \in 0 .. l |-> due[n + 1]]
  OBVIOUS
<1>8. \A n \in 0 .. l : n + 1 \in 0 .. Len(q) /\ 1 <= n + 1 /\ less[n] = due[n + 1]
  BY <1>2, <1>7
<1>9. less \in [0 .. Len(r) -> 0 .. m - w]
  <2>1. \A n \in 0 .. l : less[n] \in 0 .. m - w
    <3> SUFFICES ASSUME NEW n \in 0 .. l PROVE less[n] \in 0 .. m - w
      OBVIOUS
    <3>1. due[n + 1] \in 0 .. m /\ less[n] = due[n + 1]
      BY <1>3, <1>8
    <3>2. due[n + 1] <= due[1]
      <4>1. 1 \in 0 .. Len(q)
        BY <1>2
      <4> QED
        BY <1>3, <1>8, <4>1 DEF IsDue
    <3> QED
      BY <1>4, <1>6, <3>1, <3>2
  <2> QED
    BY <1>2, <1>7, <2>1
<1>10. less[Len(r)] = TokenWords(tk, v)
  <2>1. l \in 0 .. l /\ due[l + 1] = TokenWords(tk, v)
    BY <1>2, <1>3 DEF IsDue
  <2> QED
    BY <1>2, <1>8, <2>1
<1>11. \A i, n \in 0 .. Len(r) : i <= n => less[n] <= less[i]
  <2> SUFFICES ASSUME NEW i \in 0 .. l, NEW n \in 0 .. l, i <= n PROVE less[n] <= less[i]
    BY <1>2
  <2>1. i + 1 <= n + 1
    OBVIOUS
  <2> QED
    BY <1>3, <1>8, <2>1 DEF IsDue
<1>12. \A n \in 1 .. Len(r) : less[n - 1] = less[n] + WordsFor(r[n], v)
  <2> SUFFICES ASSUME NEW n \in 1 .. l PROVE less[n - 1] = less[n] + WordsFor(r[n], v)
    BY <1>2
  <2>1. PICK k \in 1 .. Len(q) : k = n + 1 /\ k - 1 = n
    BY <1>2
  <2>2. due[k - 1] = due[k] + WordsFor(q[k], v)
    BY <1>3, <2>1 DEF IsDue
  <2>3. PICK j \in 0 .. l : j = n - 1 /\ j + 1 = n
    OBVIOUS
  <2>4. less[j] = due[n] /\ less[n] = due[k]
    <3>1. n \in 0 .. l
      OBVIOUS
    <3> QED
      BY <1>8, <2>1, <2>3, <3>1
  <2> QED
    BY <1>2, <2>1, <2>2, <2>3, <2>4
<1>13. IsDue(less, r, tk, v)
  BY <1>10, <1>11, <1>12 DEF IsDue
<1>14. DueWithin(r, tk, v, m - w)
  BY <1>9, <1>13 DEF DueWithin
<1> QED
  BY <1>1, <1>6, <1>14

\* When a command comes its words are promised as well.
LEMMA DueAppend ==
  ASSUME NEW q, IsList(q), NEW tk, NEW v, NEW m \in Nat, DueWithin(q, tk, v, m),
         NEW c, NEW w \in Nat, w = WordsFor(c, v), \A n \in 1 .. Len(q) : WordsFor(q[n], v) \in Nat
  PROVE  DueWithin(Append(q, c), tk, v, m + w)
<1>1. PICK r : r = Append(q, c)
  OBVIOUS
<1>2. PICK n \in Nat : n = Len(q)
  BY ListIs
<1>3. Len(r) = n + 1 /\ r[n + 1] = c /\ \A i \in 1 .. n : r[i] = q[i]
  BY <1>1, <1>2, ListAppend
<1>4. PICK due \in [0 .. Len(q) -> 0 .. m] : IsDue(due, q, tk, v)
  BY DEF DueWithin
<1>5. PICK more : more = [i \in 0 .. n + 1 |-> IF i = n + 1 THEN due[n] ELSE due[i] + w]
  OBVIOUS
<1>6. more[n + 1] = due[n] /\ \A i \in 0 .. n : more[i] = due[i] + w
  BY <1>5
<1>7. \A i \in 0 .. n : due[i] \in 0 .. m
  BY <1>2, <1>4
<1>8. PICK t \in Nat : t = due[n] /\ t <= m /\ t = TokenWords(tk, v)
  <2>1. n \in 0 .. n
    OBVIOUS
  <2> QED
    BY <1>2, <1>4, <1>7, <2>1 DEF IsDue
<1>9. \A i \in 0 .. n + 1 : i \in 0 .. n \/ i = n + 1
  OBVIOUS
<1>10. \A i \in 0 .. n + 1 : more[i] \in 0 .. m + w
  <2> SUFFICES ASSUME NEW i \in 0 .. n + 1 PROVE more[i] \in 0 .. m + w
    OBVIOUS
  <2>1. CASE i = n + 1
    BY <1>6, <1>8, <2>1
  <2>2. CASE i \in 0 .. n
    <3>1. PICK a \in 0 .. m : a = due[i] /\ more[i] = a + w
      BY <1>6, <1>7, <2>2
    <3> QED
      BY <3>1
  <2> QED
    BY <1>9, <2>1, <2>2
<1>11. more \in [0 .. Len(r) -> 0 .. m + w]
  BY <1>3, <1>5, <1>10
<1>12. more[Len(r)] = TokenWords(tk, v)
  BY <1>3, <1>6, <1>8
<1>13. \A i, j \in 0 .. Len(r) : i <= j => more[j] <= more[i]
  <2> SUFFICES ASSUME NEW i \in 0 .. n + 1, NEW j \in 0 .. n + 1, i <= j PROVE more[j] <= more[i]
    BY <1>3
  <2>1. CASE i = n + 1
    <3>1. j = n + 1
      BY <2>1
    <3> QED
      BY <1>6, <1>8, <2>1, <3>1
  <2>2. CASE i \in 0 .. n /\ j \in 0 .. n
    <3>1. due[j] <= due[i]
      BY <1>2, <1>4, <2>2 DEF IsDue
    <3>2. PICK a \in 0 .. m, b \in 0 .. m : a = due[i] /\ b = due[j] /\ more[i] = a + w /\ more[j] = b + w
      BY <1>6, <1>7, <2>2
    <3>3. b <= a
      BY <3>1, <3>2
    <3> QED
      BY <3>2, <3>3
  <2>3. CASE i \in 0 .. n /\ j = n + 1
    <3>1. n \in 0 .. n /\ i <= n
      BY <2>3
    <3>2. due[n] <= due[i]
      BY <1>2, <1>4, <2>3, <3>1 DEF IsDue
    <3>3. PICK a \in 0 .. m : a = due[i] /\ more[i] = a + w
      BY <1>6, <1>7, <2>3
    <3>4. t <= a
      BY <1>8, <3>2, <3>3
    <3>5. more[j] = t
      BY <1>6, <1>8, <2>3
    <3> QED
      BY <3>3, <3>4, <3>5
  <2> QED
    BY <1>9, <2>1, <2>2, <2>3
<1>14. \A i \in 1 .. Len(r) : more[i - 1] = more[i] + WordsFor(r[i], v)
  <2> SUFFICES ASSUME NEW i \in 1 .. n + 1 PROVE more[i - 1] = more[i] + WordsFor(r[i], v)
    BY <1>3
  <2>1. CASE i = n + 1
    <3>1. i - 1 = n /\ n \in 0 .. n
      BY <2>1
    <3>2. more[n] = t + w /\ more[i] = t
      BY <1>6, <1>8, <2>1, <3>1
    <3> QED
      BY <1>3, <2>1, <3>1, <3>2
  <2>2. CASE i # n + 1
    <3>1. PICK b \in 0 .. n : b = i - 1 /\ i \in 1 .. n /\ i \in 0 .. n
      BY <2>2
    <3>2. due[b] = due[i] + WordsFor(q[i], v) /\ r[i] = q[i]
      BY <1>2, <1>3, <1>4, <3>1 DEF IsDue
    <3>3. PICK x \in 0 .. m, y \in 0 .. m : x = due[b] /\ y = due[i] /\ more[b] = x + w /\ more[i] = y + w
      BY <1>6, <1>7, <3>1
    <3>4. PICK z : z = WordsFor(q[i], v)
      OBVIOUS
    <3>5. x = y + z /\ z = WordsFor(r[i], v)
      BY <3>2, <3>3, <3>4
    <3>6. z \in Nat
      BY <1>2, <3>1, <3>4
    <3> QED
      BY <3>1, <3>3, <3>5, <3>6
  <2> QED
    BY <2>1, <2>2
<1>15. IsDue(more, r, tk, v)
  BY <1>12, <1>13, <1>14 DEF IsDue
<1> QED
  BY <1>1, <1>11, <1>15 DEF DueWithin

\* A bound on what is promised may be raised.
LEMMA DueMore ==
  ASSUME NEW q, NEW tk, NEW v, NEW m \in Nat, NEW n \in Nat, m <= n, DueWithin(q, tk, v, m)
  PROVE  DueWithin(q, tk, v, n)
<1>1. PICK due \in [0 .. Len(q) -> 0 .. m] : IsDue(due, q, tk, v)
  BY DEF DueWithin
<1>2. \A i \in 0 .. m : i \in 0 .. n
  OBVIOUS
<1>3. due \in [0 .. Len(q) -> 0 .. n]
  BY <1>1, <1>2
<1> QED
  BY <1>1, <1>3 DEF DueWithin

\* Another token.
LEMMA DueToken ==
  ASSUME NEW q, IsList(q), NEW tk, NEW new, NEW v, NEW m \in Nat, DueWithin(q, tk, v, m),
         NEW a \in Nat, a = TokenWords(tk, v), NEW b \in Nat, b = TokenWords(new, v),
         \A n \in 1 .. Len(q) : WordsFor(q[n], v) \in Nat
  PROVE  a <= m /\ DueWithin(q, new, v, (m - a) + b)
<1>1. PICK n \in Nat : n = Len(q)
  BY ListIs
<1>2. PICK due \in [0 .. Len(q) -> 0 .. m] : IsDue(due, q, tk, v)
  BY DEF DueWithin
<1>3. \A i \in 0 .. n : due[i] \in 0 .. m
  BY <1>1, <1>2
<1>4. due[n] = a
  BY <1>1, <1>2 DEF IsDue
<1>5. \A i \in 0 .. n : a <= due[i]
  <2> SUFFICES ASSUME NEW i \in 0 .. n PROVE a <= due[i]
    OBVIOUS
  <2>1. n \in 0 .. n /\ i <= n
    OBVIOUS
  <2>2. due[n] <= due[i]
    BY <1>1, <1>2, <2>1 DEF IsDue
  <2> QED
    BY <1>4, <2>2
<1>6. a <= m /\ (m - a) + b \in Nat
  <2>1. n \in 0 .. n
    OBVIOUS
  <2> QED
    BY <1>3, <1>4, <2>1
<1>7. PICK other : other = [i \in 0 .. n |-> (due[i] - a) + b]
  OBVIOUS
<1>8. \A i \in 0 .. n : other[i] = (due[i] - a) + b
  BY <1>7
<1>9. \A i \in 0 .. n : other[i] \in 0 .. (m - a) + b
  <2> SUFFICES ASSUME NEW i \in 0 .. n PROVE other[i] \in 0 .. (m - a) + b
    OBVIOUS
  <2>1. PICK x \in 0 .. m : x = due[i] /\ a <= x /\ other[i] = (x - a) + b
    BY <1>3, <1>5, <1>8
  <2> QED
    BY SMTT(40), <1>6, <2>1
<1>10. other \in [0 .. Len(q) -> 0 .. (m - a) + b]
  BY <1>1, <1>7, <1>9
<1>11. other[Len(q)] = TokenWords(new, v)
  <2>1. n \in 0 .. n /\ (a - a) + b = b
    OBVIOUS
  <2> QED
    BY <1>1, <1>4, <1>8, <2>1
<1>12. \A i, j \in 0 .. Len(q) : i <= j => other[j] <= other[i]
  <2> SUFFICES ASSUME NEW i \in 0 .. n, NEW j \in 0 .. n, i <= j PROVE other[j] <= other[i]
    BY <1>1
  <2>1. due[j] <= due[i]
    BY <1>1, <1>2 DEF IsDue
  <2>2. PICK x \in 0 .. m, y \in 0 .. m : x = due[i] /\ y = due[j] /\ other[i] = (x - a) + b /\ other[j] = (y - a) + b
    BY <1>3, <1>8
  <2>3. y <= x
    BY <2>1, <2>2
  <2> QED
    BY SMTT(20), <2>2, <2>3
<1>13. \A i \in 1 .. Len(q) : other[i - 1] = other[i] + WordsFor(q[i], v)
  <2> SUFFICES ASSUME NEW i \in 1 .. n PROVE other[i - 1] = other[i] + WordsFor(q[i], v)
    BY <1>1
  <2>1. PICK k \in 0 .. n : k = i - 1 /\ i \in 0 .. n
    OBVIOUS
  <2>2. due[k] = due[i] + WordsFor(q[i], v)
    BY <1>1, <1>2, <2>1 DEF IsDue
  <2>3. PICK x \in 0 .. m, y \in 0 .. m : x = due[k] /\ y = due[i] /\ other[k] = (x - a) + b /\ other[i] = (y - a) + b
    BY <1>3, <1>8, <2>1
  <2>4. PICK z \in Nat : z = WordsFor(q[i], v)
    BY <1>1
  <2>5. x = y + z
    BY <2>2, <2>3, <2>4
  <2>6. (x - a) + b = ((y - a) + b) + z
    BY ONLY <2>5, a \in Nat, b \in Nat, y \in 0 .. m, x \in 0 .. m, m \in Nat, z \in Nat
  <2>7. other[k] = other[i] + z
    BY <2>3, <2>6
  <2> QED
    BY <2>1, <2>4, <2>7
<1>14. IsDue(other, q, new, v)
  BY <1>11, <1>12, <1>13 DEF IsDue
<1> QED
  BY <1>6, <1>10, <1>14 DEF DueWithin

\* What is promised in all.
LEMMA DueSum ==
  ASSUME NEW q, IsList(q), NEW tk, NEW v, NEW m \in Nat, DueWithin(q, tk, v, m),
         \A n \in 1 .. Len(q) : WordsFor(q[n], v) \in Nat,
         NEW l, l = [n \in DOMAIN q |-> WordsFor(q[n], v)]
  PROVE  SumOf(l) + TokenWords(tk, v) <= m
<1>1. PICK n \in Nat : n = Len(q) /\ DOMAIN q = 1 .. n
  BY ListIs
<1>2. PICK due \in [0 .. Len(q) -> 0 .. m] : IsDue(due, q, tk, v)
  BY DEF DueWithin
<1>3. l = [i \in 1 .. n |-> l[i]] /\ \A i \in 1 .. n : l[i] = WordsFor(q[i], v) /\ l[i] \in Nat
  BY <1>1
<1>4. Len(l) = n
  BY <1>3, ListOf
<1>5. \A i \in 0 .. n : due[i] \in 0 .. m
  BY <1>1, <1>2
<1>6. PICK x \in 0 .. m : x = due[0]
  <2>1. 0 \in 0 .. n
    OBVIOUS
  <2> QED
    BY <1>5, <2>1
<1>7. PICK g : g = [i \in 0 .. n |-> x - due[i]]
  OBVIOUS
<1>8. \A i \in 0 .. n : g[i] = x - due[i] /\ due[i] <= x
  <2> SUFFICES ASSUME NEW i \in 0 .. n PROVE g[i] = x - due[i] /\ due[i] <= x
    OBVIOUS
  <2>1. 0 \in 0 .. n /\ 0 <= i
    OBVIOUS
  <2>2. due[i] <= due[0]
    BY <1>1, <1>2, <2>1 DEF IsDue
  <2> QED
    BY <1>6, <1>7, <2>2
<1>9. \A i \in 0 .. n : g[i] \in Nat
  <2> SUFFICES ASSUME NEW i \in 0 .. n PROVE g[i] \in Nat
    OBVIOUS
  <2>1. PICK y \in 0 .. m : y = due[i] /\ y <= x /\ g[i] = x - y
    BY <1>5, <1>8
  <2> QED
    BY <2>1
<1>10. g \in [0 .. n -> Nat]
  BY <1>7, <1>9
<1>11. g[0] = 0
  <2>1. 0 \in 0 .. n
    OBVIOUS
  <2> QED
    BY <1>6, <1>8, <2>1
<1>12. \A i \in 1 .. n : g[i] = g[i - 1] + l[i]
  <2> SUFFICES ASSUME NEW i \in 1 .. n PROVE g[i] = g[i - 1] + l[i]
    OBVIOUS
  <2>1. PICK k \in 0 .. n : k = i - 1 /\ i \in 0 .. n
    OBVIOUS
  <2>2. due[k] = due[i] + WordsFor(q[i], v)
    BY <1>1, <1>2, <2>1 DEF IsDue
  <2>3. PICK y \in 0 .. m, w \in 0 .. m : y = due[k] /\ w = due[i] /\ g[k] = x - y /\ g[i] = x - w
    BY <1>5, <1>8, <2>1
  <2>4. PICK z \in Nat : z = l[i] /\ z = WordsFor(q[i], v)
    BY <1>3
  <2>5. y = w + z
    BY <2>2, <2>3, <2>4
  <2>6. x - w = (x - y) + z
    BY ONLY <2>5, x \in 0 .. m, y \in 0 .. m, w \in 0 .. m, m \in Nat, z \in Nat
  <2>7. g[i] = g[k] + z
    BY <2>3, <2>6
  <2> QED
    BY <2>1, <2>4, <2>7
<1>13. Sums(g, l, n)
  BY <1>10, <1>11, <1>12 DEF Sums
<1>14. SumOf(l) = g[n]
  BY <1>4, <1>13, SumIs
<1>15. PICK t \in 0 .. m : t = due[n] /\ t = TokenWords(tk, v) /\ g[n] = x - t
  <2>1. n \in 0 .. n
    OBVIOUS
  <2> QED
    BY <1>1, <1>2, <1>5, <1>8, <2>1 DEF IsDue
<1> QED
  BY <1>14, <1>15

\* The kinds of the fields of a page.
LEMMA PageFields ==
  ASSUME NEW d, IsPage(d)
  PROVE  /\ d.page_type \in PageTypes /\ d.vpage_id \in Page /\ d.write_offset \in Nat /\ d.words_reserved \in Nat
BY DEF IsPage

\* With virtual pages apart, the page of a virtual page is found.
LEMMA PageFound ==
  ASSUME NEW pages, Apart(pages), NEW p \in Page, NEW v, pages[p].vpage_id = v
  PROVE  (CHOOSE i \in Page : pages[i].vpage_id = v) = p
BY DEF Apart

\* The kinds of the fields of a command.
LEMMA CmdFields ==
  ASSUME NEW c, IsCmd(c)
  PROVE  /\ c.num_chunks \in Nat /\ c.chunk_offset \in Nat /\ c.vpage_id \in Page
         /\ c.record_id \in 0 .. MaxId /\ c.length_words \in Nat
BY DEF IsCmd

\* A command wants its header and its length on its own page, nothing on others.
LEMMA WordsForNat ==
  ASSUME NEW c, IsCmd(c), NEW v
  PROVE  WordsFor(c, v) \in Nat /\ (IsStore(c) /\ c.vpage_id = v => WordsFor(c, v) = 3 + c.length_words)
         /\ (~(IsStore(c) /\ c.vpage_id = v) => WordsFor(c, v) = 0)
BY CmdFields DEF WordsFor, IsStore, FDS_HEADER_SIZE

\* What each command of a queue is, and its head.
LEMMA QueueWords ==
  ASSUME NEW pages, NEW q, NEW gc, QueueOK(pages, q, gc)
  PROVE  /\ \A v : \A n \in 1 .. Len(q) : WordsFor(q[n], v) \in Nat
         /\ \A n \in 1 .. Len(q) : q[n].num_chunks \in Nat
         /\ IsList(q) /\ Len(q) \in Nat
         /\ q # <<>> => Len(q) >= 1 /\ 1 \in 1 .. Len(q) /\ Head(q) = q[1] /\ CmdOK(pages, q[1]) /\ IsCmd(q[1])
<1>1. \A n \in 1 .. Len(q) : IsCmd(q[n])
  BY DEF QueueOK, CmdOK
<1>2. IsList(q) /\ Len(q) \in Nat /\ (q # <<>> => Len(q) >= 1 /\ 1 \in 1 .. Len(q) /\ Head(q) = q[1])
  BY ListIs, ListHead DEF QueueOK
<1>3. q # <<>> => CmdOK(pages, q[1])
  BY <1>2 DEF QueueOK
<1> QED
  BY <1>1, <1>2, <1>3, WordsForNat, CmdFields

\* What the page of the record at the head is.
HeadAt(pages, q, gc, f, p, n, s, w) ==
  /\ pages[p].page_type = "VALID" /\ pages[p].vpage_id = q[1].vpage_id /\ Kind(f, p) = "VALID"
  /\ n = q[1].length_words /\ s = StartAddr(p) /\ w = pages[p].write_offset
  /\ \A i \in Page : Kind(f, i) = pages[i].page_type
  /\ \A i \in Page : i # p => pages[i].vpage_id # q[1].vpage_id
  /\ gc.state \notin Mid
  /\ s + w + 3 + n < EndAddr(p)
  /\ End(f, p) = s + w + Extra(q, q[1].vpage_id)

\* The page of the record at the head, with its offset and reservation.
LEMMA HeadPage ==
  ASSUME NEW pages, NEW q, NEW ch, NEW gc, NEW stack, NEW tk, NEW ds, NEW f,
         Layout(pages, q, ch, gc, stack, tk, ds, f), q # <<>>, IsStore(q[1])
  PROVE  \E p \in Page, n \in Nat, s \in Nat, w \in Nat : HeadAt(pages, q, gc, f, p, n, s, w)
<1>1. /\ PagesTyped(pages) /\ Apart(pages) /\ KindsOK(pages, gc, f) /\ EndsOK(pages, q, f) /\ RoomOK(pages, gc)
      /\ QueueOK(pages, q, gc) /\ SpaceOK(pages, q, tk) /\ GcOK(pages, q, gc, stack, f)
  BY DEF Layout, PagesOK
<1>2. /\ IsList(q) /\ Len(q) >= 1 /\ 1 \in 1 .. Len(q) /\ Head(q) = q[1] /\ CmdOK(pages, q[1]) /\ IsCmd(q[1])
  BY <1>1, QueueWords
<1>3. PICK c : c = q[1]
  OBVIOUS
<1>4. PICK p \in Page : pages[p].page_type = "VALID" /\ pages[p].vpage_id = c.vpage_id
  BY <1>2, <1>3 DEF CmdOK, ValidPage
<1>5. PICK n \in Nat : n = c.length_words
  BY <1>2, <1>3, CmdFields
<1>6. PICK s \in Nat : s = StartAddr(p) /\ EndAddr(p) = s + Size
  BY PageIs
<1>7. PICK w \in Nat, b \in Nat : w = pages[p].write_offset /\ b = pages[p].words_reserved
  BY <1>1, PageFields DEF PagesTyped
<1>8. gc.state \notin Mid
  <2>1. c.id # "GC"
    BY <1>3 DEF IsStore
  <2> QED
    BY <1>1, <1>2, <1>3, <2>1 DEF GcOK, HeadIs
<1>9. \A i \in Page : Kind(f, i) = pages[i].page_type
  BY <1>1, <1>8 DEF KindsOK, KindNow, Mid
<1>10. \A i \in Page : i # p => pages[i].vpage_id # c.vpage_id
  BY <1>1, <1>4 DEF Apart
<1>11. w + b < Size /\ Size \in Nat
  BY <1>1, <1>4, <1>7, Sizes DEF RoomOK, Size
<1>12. 3 + n <= b
  <2>1. DueWithin(q, tk, c.vpage_id, b)
    BY <1>1, <1>4, <1>7 DEF SpaceOK
  <2>2. WordsFor(q[1], c.vpage_id) = 3 + n /\ 3 + n \in Nat
    BY <1>2, <1>3, <1>5, WordsForNat
  <2> QED
    BY <1>2, <2>1, <2>2, DueTail
<1>13. s + w + 3 + n < EndAddr(p)
  BY <1>6, <1>11, <1>12
<1>14. End(f, p) = s + w + Extra(q, c.vpage_id)
  BY <1>1, <1>4, <1>6, <1>7 DEF EndsOK
<1> QED
  BY ZenonT(20), <1>3, <1>4, <1>5, <1>6, <1>7, <1>8, <1>9, <1>10, <1>13, <1>14 DEF HeadAt

\* What has been written of the record at the head lies beyond write_offset.
LEMMA ExtraIs ==
  ASSUME NEW q, q # <<>>, IsList(q), IsStore(q[1]), NEW v
  PROVE  /\ q[1].op_code # "WRITE_TL" => Extra(q, q[1].vpage_id) = 3 + q[1].length_words
         /\ q[1].op_code = "WRITE_TL" => Extra(q, v) = 0
         /\ v # q[1].vpage_id => Extra(q, v) = 0
BY ListHead DEF Extra, HeadIs, IsStore

\* Of a record not begun nothing has been written.
LEMMA NoExtra ==
  ASSUME NEW q, IsList(q), q # <<>> => Fresh(Head(q)) \/ ~IsStore(Head(q)), NEW v
  PROVE  Extra(q, v) = 0
BY DEF Extra, HeadIs, IsStore, Fresh

\* The queue stays well formed when its head goes on.
LEMMA QueueGoes ==
  ASSUME NEW pages, NEW q, NEW gc, QueueOK(pages, q, gc), q # <<>>, Head(q) = q[1],
         NEW d, CmdOK(pages, d), d.id = q[1].id, NEW r, Goes(q, d, r)
  PROVE  QueueOK(pages, r, gc)
<1>1. d.id = Head(q).id
  OBVIOUS
<1>2. r = [q EXCEPT ![1] = d]
  BY DEF Goes
<1> QED
  BY <1>1, <1>2, QueueHead

\* What is promised is the same when the head goes on.
LEMMA DueGoes ==
  ASSUME NEW q, IsList(q), q # <<>>, NEW c, NEW tk, NEW v, WordsFor(c, v) = WordsFor(q[1], v), NEW m,
         DueWithin(q, tk, v, m), NEW r, Goes(q, c, r)
  PROVE  DueWithin(r, tk, v, m)
<1>1. DueWithin([q EXCEPT ![1] = c], tk, v, m)
  BY DueHead
<1> QED
  BY <1>1 DEF Goes

\* The command at the head writes its record on.
LEMMA LayoutHead ==
  ASSUME NEW pages, NEW q, NEW ch, NEW gc, NEW stack, NEW tk, NEW ds, NEW f,
         Layout(pages, q, ch, gc, stack, tk, ds, f), q # <<>>, IsStore(q[1]), FlashOK(f),
         NEW p \in Page, NEW n \in Nat, NEW s \in Nat, NEW w \in Nat, HeadAt(pages, q, gc, f, p, n, s, w),
         NEW d, IsCmd(d), d.id = q[1].id, d.vpage_id = q[1].vpage_id, d.length_words = n, d.instance = q[1].instance,
         d.op_code # "WRITE_TL", NEW r, Goes(q, d, r), NEW dh, ChunksOK(r, dh),
         NEW g, NEW H, Changes(f, g, p, "VALID", H, s + w + 3 + n), \A a \in HeadersOf(f, p) : a \in H
  PROVE  Layout(pages, r, dh, gc, stack, tk, ds, g)
<1>1. /\ PagesTyped(pages) /\ Apart(pages) /\ KindsOK(pages, gc, f) /\ EndsOK(pages, q, f) /\ RoomOK(pages, gc)
      /\ QueueOK(pages, q, gc) /\ SpaceOK(pages, q, tk) /\ GcOK(pages, q, gc, stack, f) /\ StackOK(pages, stack, f)
      /\ DescsOK(pages, ds)
  BY DEF Layout, PagesOK
<1>2. /\ IsList(q) /\ Len(q) >= 1 /\ 1 \in 1 .. Len(q) /\ Head(q) = q[1] /\ CmdOK(pages, q[1]) /\ IsCmd(q[1])
      /\ \A v : \A i \in 1 .. Len(q) : WordsFor(q[i], v) \in Nat
  BY <1>1, QueueWords
<1>3. CmdOK(pages, d)
  BY <1>2 DEF CmdOK, IsStore
<1>4. QueueOK(pages, r, gc) /\ IsList(r) /\ Len(r) = Len(q) /\ r # <<>> /\ Head(r) = d /\ r[1] = d
  <2>1. QueueOK(pages, r, gc)
    BY <1>1, <1>2, <1>3, QueueGoes
  <2>2. IsList(r) /\ Len(r) = Len(q) /\ r # <<>> /\ Head(r) = d /\ r[1] = d
    BY <1>2, Gone
  <2> QED
    BY <2>1, <2>2
<1>5. /\ Kind(g, p) = "VALID" /\ HeadersOf(g, p) = H /\ End(g, p) = s + w + 3 + n
      /\ \A i \in Page : i # p => /\ Kind(g, i) = Kind(f, i) /\ HeadersOf(g, i) = HeadersOf(f, i)
                                  /\ End(g, i) = End(f, i)
  BY ChangesAre
<1>6. KindsOK(pages, gc, g)
  BY <1>1, <1>5 DEF KindsOK, HeadAt
<1>7. \A v : Extra(r, v) = IF v = q[1].vpage_id THEN 3 + n ELSE 0
  <2>1. IsStore(r[1])
    BY <1>4 DEF IsStore
  <2> QED
    BY <1>4, <2>1, ExtraIs
<1>8. EndsOK(pages, r, g)
  <2> SUFFICES ASSUME NEW i \in Page
               PROVE  End(g, i) = StartAddr(i) + pages[i].write_offset + Extra(r, pages[i].vpage_id)
    BY DEF EndsOK
  <2>1. CASE i = p
    <3>1. End(g, i) = s + w + 3 + n /\ StartAddr(i) = s /\ pages[i].write_offset = w /\ Extra(r, pages[i].vpage_id) = 3 + n
      BY <1>5, <1>7, <2>1 DEF HeadAt
    <3> QED
      BY <3>1
  <2>2. CASE i # p
    <3>1. pages[i].vpage_id # q[1].vpage_id
      BY <2>2 DEF HeadAt
    <3>2. Extra(r, pages[i].vpage_id) = 0 /\ Extra(q, pages[i].vpage_id) = 0
      BY <1>2, <1>7, <3>1, ExtraIs
    <3> QED
      BY <1>1, <1>5, <2>2, <3>2 DEF EndsOK
  <2> QED
    BY <2>1, <2>2
<1>9. SpaceOK(pages, r, tk)
  <2>1. \A v : WordsFor(d, v) = WordsFor(q[1], v)
    BY DEF WordsFor, HeadAt
  <2>2. \A i \in Page : pages[i].page_type = "VALID" => DueWithin(r, tk, pages[i].vpage_id, pages[i].words_reserved)
    BY <1>1, <1>2, <2>1, DueGoes DEF SpaceOK
  <2> QED
    BY <1>1, <2>2 DEF SpaceOK
<1>10. StackOK(pages, stack, g)
  <2>1. \A i \in Page : \A a \in HeadersOf(f, i) : a \in HeadersOf(g, i)
    BY <1>5
  <2> QED
    BY <1>1, <2>1 DEF StackOK
<1>11. GcOK(pages, r, gc, stack, g)
  BY <1>1 DEF GcOK, HeadAt, Mid
<1> QED
  BY <1>1, <1>4, <1>6, <1>8, <1>9, <1>10, <1>11 DEF Layout, PagesOK

--------------------------------------------------------------------------------

(* A record is written. *)

\* The words of a record are well formed.
LEMMA WordsAre ==
  /\ \A k \in 0 .. MaxId : WordOK(<<"ID", k>>) /\ IdOK(<<"ID", k>>)
  /\ \A s \in Slots : WordOK(<<"IC", s>>)
  /\ \A w \in DataWords : WordOK(w)
<1>1. \A w \in HeadWords \cup DataWords : w # Mixed
  BY FdsAssumption
<1>2. ASSUME NEW k \in 0 .. MaxId PROVE WordOK(<<"ID", k>>) /\ IdOK(<<"ID", k>>)
  <2>1. <<"ID", k>> \in HeadWords
    BY DEF HeadWords
  <2>2. <<"ID", k>> # Mixed
    BY <1>1, <2>1
  <2>3. ~IsTL(<<"ID", k>>)
    BY DEF IsTL
  <2> QED
    BY <2>2, <2>3 DEF WordOK, IdOK
<1>3. ASSUME NEW s \in Slots PROVE WordOK(<<"IC", s>>)
  <2>1. <<"IC", s>> \in HeadWords
    BY DEF HeadWords
  <2>2. <<"IC", s>> # Mixed
    BY <1>1, <2>1
  <2>3. ~IsTL(<<"IC", s>>)
    BY DEF IsTL
  <2> QED
    BY <2>2, <2>3 DEF WordOK
<1>4. ASSUME NEW w \in DataWords PROVE WordOK(w)
  <2>1. w # Mixed
    BY <1>1
  <2>2. PICK n, i, j : w = <<"data", n, i, j>>
    BY DEF DataWords
  <2>3. ~IsTL(w)
    BY <2>2 DEF IsTL
  <2> QED
    BY <2>1, <2>3 DEF WordOK
<1> QED
  BY <1>2, <1>3, <1>4

Advances(q, d, op_code) == d = [q[1] EXCEPT !.op_code = op_code]

\* A command that has gone on differs in its step alone.
LEMMA AdvancesIs ==
  ASSUME NEW q, IsCmd(q[1]), NEW op_code, NEW d, Advances(q, d, op_code)
  PROVE  /\ IsCmd(d) /\ d.id = q[1].id /\ d.vpage_id = q[1].vpage_id /\ d.length_words = q[1].length_words
         /\ d.instance = q[1].instance /\ d.op_code = op_code /\ d.num_chunks = q[1].num_chunks
         /\ d.chunk_offset = q[1].chunk_offset /\ d.record_id = q[1].record_id /\ Alike(q[1], d)
BY DEF Advances, IsCmd, Alike, IsStore

\* What a step of the command at the head comes to.
Step(pages, r, ch, gc, stack, tk, ds, f, op) ==
  /\ SafeOp(f, op) /\ Layout(pages, r, ch, gc, stack, tk, ds, Done(f, op))
  /\ WritingAt(pages, Head(r), Done(f, op)) /\ Accounts(pages, r, f)

\* Only the record at the head is not accounted for.
LEMMA HeadAccounts ==
  ASSUME NEW pages, NEW q, NEW ch, NEW gc, NEW stack, NEW tk, NEW ds, NEW f,
         Layout(pages, q, ch, gc, stack, tk, ds, f), q # <<>>, IsStore(q[1]),
         NEW d, IsStore(d), d.op_code # "WRITE_TL", d.vpage_id = q[1].vpage_id, d.length_words = q[1].length_words,
         NEW r, Goes(q, d, r)
  PROVE  Accounts(pages, r, f)
<1>1. EndsOK(pages, q, f) /\ QueueOK(pages, q, gc)
  BY DEF Layout, PagesOK
<1>2. IsList(q) /\ Head(q) = q[1] /\ IsCmd(q[1])
  BY <1>1, QueueWords
<1>3. /\ IsList(r) /\ r # <<>> /\ Head(r) = d /\ r[1] = d
  BY <1>2, Gone
<1>4. \A v : Extra(q, v) = 0 \/ Extra(q, v) = Extra(r, v)
  BY <1>2, <1>3, ExtraIs
<1>5. \A i \in Page : StartAddr(i) \in Nat /\ pages[i].write_offset \in Nat
  BY PageFields, PageIs DEF Layout, PagesOK, PagesTyped
<1> QED
  BY <1>1, <1>4, <1>5 DEF EndsOK, Accounts

\* The header of the record.
LEMMA WriteTL ==
  ASSUME NEW pages, NEW q, NEW ch, NEW gc, NEW stack, NEW tk, NEW ds, NEW f,
         Layout(pages, q, ch, gc, stack, tk, ds, f), q # <<>>, IsStore(q[1]), FlashOK(f),
         NEW p \in Page, NEW n \in Nat, NEW s \in Nat, NEW w \in Nat, HeadAt(pages, q, gc, f, p, n, s, w),
         Fresh(q[1]), NEW d, Advances(q, d, "WRITE_ID"), NEW r, Goes(q, d, r),
         NEW op, op = Store(s + w, <<TL(n, "valid")>>)
  PROVE  Step(pages, r, ch, gc, stack, tk, ds, f, op)
<1> PICK words : words = <<TL(n, "valid")>>
  OBVIOUS
<1> PICK g : g = Done(f, op)
  OBVIOUS
<1>1. /\ IsList(q) /\ Head(q) = q[1] /\ IsCmd(q[1])
  BY QueueWords DEF Layout
<1>2. /\ q[1].op_code = "WRITE_TL" /\ q[1].num_chunks >= 1 /\ q[1].chunk_offset = 3
  BY DEF Fresh, IsStore
<1>3. IsCmd(d) /\ IsStore(d) /\ d.id = q[1].id /\ d.vpage_id = q[1].vpage_id /\ d.length_words = n
      /\ d.instance = q[1].instance /\ d.op_code = "WRITE_ID" /\ d.num_chunks >= 1 /\ d.chunk_offset = 3
      /\ Alike(q[1], d) /\ d.length_words = q[1].length_words
  BY <1>1, <1>2, AdvancesIs DEF HeadAt, IsStore
<1>4. PICK dst \in Nat : dst = s + w
  OBVIOUS
<1>5. /\ pages[p].page_type = "VALID" /\ pages[p].vpage_id = q[1].vpage_id /\ Kind(f, p) = "VALID"
      /\ s = StartAddr(p) /\ w = pages[p].write_offset /\ dst + 3 + n < EndAddr(p) /\ End(f, p) = dst
  <2>1. Extra(q, q[1].vpage_id) = 0
    BY <1>1, <1>2, ExtraIs
  <2> QED
    BY <1>4, <2>1 DEF HeadAt
<1>6. n <= Cells
  <2>1. PICK z \in Nat : z = EndAddr(p) /\ z <= Cells
    BY PageIs
  <2> QED
    BY ONLY <1>5, <2>1, dst \in Nat, n \in Nat, Sizes
<1>7. IsList(words) /\ Len(words) = 1 /\ words[1] = TL(n, "valid")
  BY ListOne
<1>8. WordOK(TL(n, "valid")) /\ LengthWords(TL(n, "valid")) = n
  BY <1>6, TLMade
<1>9. op = Store(dst, words)
  BY <1>4
<1>10. /\ SafeOp(f, op) /\ g[dst] = TL(n, "valid") /\ Wrote(f, g, dst, words, 1)
       /\ Changes(f, g, p, "VALID", HeadersOf(f, p) \cup {dst}, dst + 3 + n)
  <2>1. 1 <= Len(words) /\ Len(words) <= 3 + n /\ \A i \in 1 .. Len(words) : WordOK(words[i])
    BY <1>7, <1>8
  <2>2. ~(Len(words) >= 3)
    BY <1>7
  <2>3. Kind(f, p) = "VALID" /\ dst = End(f, p)
    BY <1>5
  <2>4. RecordMade(f, op, g, p, dst, n, words)
    BY <1>5, <1>7, <1>9, <2>1, <2>2, <2>3, SafeRecord
  <2> QED
    BY <1>7, <2>3, <2>4 DEF RecordMade
<1>11. Layout(pages, r, ch, gc, stack, tk, ds, g)
  <2>1. ChunksOK(r, ch)
    BY <1>1, <1>3, ChunksHead DEF Layout, Goes
  <2>2. Changes(f, g, p, "VALID", HeadersOf(f, p) \cup {dst}, s + w + 3 + n)
    BY <1>4, <1>10
  <2>3. \A a \in HeadersOf(f, p) : a \in HeadersOf(f, p) \cup {dst}
    OBVIOUS
  <2> QED
    BY <1>3, <2>1, <2>2, <2>3, LayoutHead
<1>12. WritingAt(pages, d, g)
  <2>1. HeadersOf(g, p) = HeadersOf(f, p) \cup {dst}
    BY <1>10, ChangesAre
  <2>2. PICK z \in Nat : z = EndAddr(p) /\ s + Size = z
    BY <1>5, PageIs
  <2>3. \A a \in dst .. z - 1 : f[a] = Erased
    BY <1>5, <2>2, EndIs
  <2>4. \A a \in dst .. z - 1 : a \in Address
    BY SMTT(20), <1>4, <1>5, <2>2, PageWords
  <2>5. dst \in Address
    BY <1>5, <2>2, <2>4
  <2>6. Blank(g, dst + 1, dst + 2 + n)
    <3> SUFFICES ASSUME NEW a \in dst + 1 .. dst + 2 + n PROVE g[a] = Erased
      BY DEF Blank
    <3>1. a \in dst .. z - 1 /\ ~(dst <= a /\ a < dst + 1)
      BY <1>5, <2>2
    <3> QED
      BY <1>10, <2>3, <2>4, <3>1 DEF Wrote
  <2>7. Progress(d, g, dst, d.length_words, d.chunk_offset)
    BY <1>3, <2>6 DEF Progress
  <2>8. WritesAt(pages, d, g, p, dst)
    BY <1>3, <1>4, <1>5, <1>8, <1>10, <2>1, <2>7 DEF WritesAt
  <2> QED
    BY <2>5, <2>8 DEF WritingAt
<1>13. Accounts(pages, r, f)
  BY <1>3, HeadAccounts
<1>14. Head(r) = d
  BY <1>1, Gone
<1> QED
  BY <1>10, <1>11, <1>12, <1>13, <1>14 DEF Step

\* Where the record at the head is.
BodyAt(pages, q, f, p, n, s, w, a, o) ==
  /\ a = s + w /\ a \in HeadersOf(f, p) /\ a \in Address /\ LengthWords(f[a]) = n /\ NextRecord(f, a) = a + 3 + n
  /\ End(f, p) = a + 3 + n /\ o = q[1].chunk_offset /\ Progress(q[1], f, a, n, o)
  /\ \A b \in a .. a + 2 + n : b \in Address

\* Where the record at the head is being written, its header is the last one of the page.
LEMMA BodyIs ==
  ASSUME NEW pages, NEW q, NEW ch, NEW gc, NEW stack, NEW tk, NEW ds, NEW f,
         Layout(pages, q, ch, gc, stack, tk, ds, f), q # <<>>, IsStore(q[1]), FlashOK(f),
         NEW p \in Page, NEW n \in Nat, NEW s \in Nat, NEW w \in Nat, HeadAt(pages, q, gc, f, p, n, s, w),
         q[1].op_code # "WRITE_TL", WritingAt(pages, q[1], f)
  PROVE  \E a \in Nat, o \in Nat : BodyAt(pages, q, f, p, n, s, w, a, o)
<1>1. /\ IsList(q) /\ Head(q) = q[1] /\ IsCmd(q[1])
  BY QueueWords DEF Layout
<1>2. PICK i \in Page, b \in Address : WritesAt(pages, q[1], f, i, b)
  BY DEF WritingAt
<1>3. i = p
  BY <1>2 DEF WritesAt, HeadAt
<1>4. PICK o \in Nat : o = q[1].chunk_offset
  BY <1>1, CmdFields
<1>5. PICK a \in Nat : a = b
  BY <1>2, <1>3, HeaderMeans DEF WritesAt
<1>6. /\ a = s + w /\ a \in HeadersOf(f, p) /\ a \in Address /\ LengthWords(f[a]) = n
      /\ Progress(q[1], f, a, n, o)
  BY <1>2, <1>3, <1>4, <1>5 DEF WritesAt, HeadAt
<1>7. NextRecord(f, a) = a + 3 + n
  BY <1>6, HeaderMeans
<1>8. End(f, p) = a + 3 + n
  <2>1. Extra(q, q[1].vpage_id) = 3 + n
    BY <1>1, ExtraIs DEF HeadAt
  <2>2. End(f, p) = s + w + Extra(q, q[1].vpage_id)
    BY DEF HeadAt
  <2> QED
    BY ONLY <1>6, <2>1, <2>2, a \in Nat, s \in Nat, w \in Nat, n \in Nat
<1>9. \A c \in a .. a + 2 + n : c \in Address
  <2>1. PICK z \in Nat : z = EndAddr(p)
    BY PageIs
  <2>2. s + w + 3 + n < z /\ s = StartAddr(p)
    BY <2>1 DEF HeadAt
  <2>3. \A c \in a .. a + 2 + n : c \in Int /\ StartAddr(p) <= c /\ c < EndAddr(p)
    BY ONLY <1>6, <2>1, <2>2, a \in Nat, s \in Nat, w \in Nat, n \in Nat
  <2> QED
    BY <2>3, PageWords
<1> QED
  BY <1>4, <1>6, <1>7, <1>8, <1>9 DEF BodyAt

\* Words of the record at the head: l of them, k words behind its header.
Part(f, a, n, words, l, k) ==
  /\ IsList(words) /\ l = Len(words) /\ l >= 1 /\ k >= 1 /\ k + l <= 3 + n
  /\ \A i \in 1 .. l : f[a + k + i - 1] = Erased /\ WordOK(words[i])
  /\ \A i \in 1 .. l : k + i - 1 = 2 => IdOK(words[i])

\* The command at the head after it.
Next1(q, d, n) ==
  /\ IsCmd(d) /\ d.id = q[1].id /\ d.vpage_id = q[1].vpage_id /\ d.length_words = n
  /\ d.instance = q[1].instance /\ d.op_code # "WRITE_TL"

\* Words written behind that header leave the page laid out, and the layout of the RAM with it.
LEMMA WriteOn ==
  ASSUME NEW pages, NEW q, NEW ch, NEW gc, NEW stack, NEW tk, NEW ds, NEW f,
         Layout(pages, q, ch, gc, stack, tk, ds, f), q # <<>>, IsStore(q[1]), FlashOK(f),
         NEW p \in Page, NEW n \in Nat, NEW s \in Nat, NEW w \in Nat, HeadAt(pages, q, gc, f, p, n, s, w),
         NEW a \in Nat, NEW o \in Nat, BodyAt(pages, q, f, p, n, s, w, a, o),
         NEW words, NEW l \in Nat, NEW k \in Nat, Part(f, a, n, words, l, k),
         NEW d, Next1(q, d, n), NEW r, Goes(q, d, r), NEW dh, ChunksOK(r, dh),
         NEW dst, dst = a + k, NEW op, op = Store(dst, words), NEW g, g = Done(f, op),
         Wrote(f, g, dst, words, l) => Progress(d, g, a, n, d.chunk_offset)
  PROVE  Step(pages, r, dh, gc, stack, tk, ds, f, op)
<1>1. /\ IsList(q) /\ Head(q) = q[1] /\ IsCmd(q[1])
  BY QueueWords DEF Layout
<1>2. IsCmd(d) /\ IsStore(d) /\ d.id = q[1].id /\ d.vpage_id = q[1].vpage_id /\ d.length_words = n
      /\ d.instance = q[1].instance /\ d.op_code # "WRITE_TL" /\ d.length_words = q[1].length_words
  BY DEF HeadAt, Next1, IsStore
<1>3. /\ pages[p].page_type = "VALID" /\ pages[p].vpage_id = q[1].vpage_id /\ Kind(f, p) = "VALID"
      /\ s = StartAddr(p) /\ w = pages[p].write_offset
  BY DEF HeadAt
<1>4. /\ a = s + w /\ a \in HeadersOf(f, p) /\ a \in Address /\ LengthWords(f[a]) = n /\ NextRecord(f, a) = a + 3 + n
      /\ End(f, p) = a + 3 + n
  BY DEF BodyAt
<1>5. dst \in Nat /\ a < dst /\ dst + l <= a + 3 + n
  BY DEF Part
<1>6. BodyMade(f, op, g, p, a, dst, words)
  <2>1. IsList(words) /\ l = Len(words) /\ Len(words) >= 1 /\ dst + Len(words) <= NextRecord(f, a)
    BY <1>4, <1>5 DEF Part
  <2>2. \A i \in 1 .. Len(words) : f[dst + i - 1] = Erased /\ WordOK(words[i])
    BY <2>1 DEF Part
  <2>3. \A i \in 1 .. Len(words) : dst + i - 1 = a + 2 => IdOK(words[i])
    <3>1. \A i \in 1 .. l : k + i - 1 = 2 => IdOK(words[i])
      BY DEF Part
    <3>2. \A i \in 1 .. l : dst + i - 1 = a + 2 => k + i - 1 = 2
      BY ONLY dst = a + k, a \in Nat, k \in Nat, l \in Nat
    <3> QED
      BY <2>1, <3>1, <3>2
  <2> QED
    BY <1>3, <1>4, <1>5, <2>1, <2>2, <2>3, SafeBody
<1>7. SafeOp(f, op) /\ Changes(f, g, p, "VALID", HeadersOf(f, p), End(f, p)) /\ Wrote(f, g, dst, words, l)
  BY <1>6 DEF BodyMade, Part
<1>8. Layout(pages, r, dh, gc, stack, tk, ds, g)
  <2>1. End(f, p) = s + w + 3 + n
    BY <1>4
  <2>2. Changes(f, g, p, "VALID", HeadersOf(f, p), s + w + 3 + n)
    BY <1>7, <2>1
  <2> QED
    BY <1>2, <2>2, LayoutHead
<1>9. WritingAt(pages, d, g)
  <2>1. HeadersOf(g, p) = HeadersOf(f, p)
    BY <1>7, ChangesAre
  <2>2. g[a] = f[a]
    BY <1>4, <1>5, <1>7 DEF Wrote
  <2>3. Progress(d, g, a, d.length_words, d.chunk_offset)
    BY <1>2, <1>7
  <2>4. WritesAt(pages, d, g, p, a)
    BY <1>2, <1>3, <1>4, <2>1, <2>2, <2>3 DEF WritesAt
  <2> QED
    BY <1>4, <2>4 DEF WritingAt
<1>10. Accounts(pages, r, f)
  BY <1>2, HeadAccounts
<1>11. Head(r) = d
  BY <1>1, Gone
<1> QED
  BY <1>7, <1>8, <1>9, <1>10, <1>11 DEF Step

\* One word of a record.
LEMMA PartOne ==
  ASSUME NEW f, NEW a \in Nat, NEW n \in Nat, NEW x, WordOK(x), NEW k \in Nat, k >= 1, k <= 2 + n,
         f[a + k] = Erased, k = 2 => IdOK(x)
  PROVE  Part(f, a, n, <<x>>, 1, k)
<1>1. PICK words : words = <<x>>
  OBVIOUS
<1>2. IsList(words) /\ Len(words) = 1 /\ words[1] = x
  BY <1>1, ListOne
<1>3. \A i \in 1 .. 1 : i = 1
  OBVIOUS
<1>4. a + k + 1 - 1 = a + k /\ k + 1 - 1 = k
  OBVIOUS
<1>5. \A i \in 1 .. 1 : f[a + k + i - 1] = Erased /\ WordOK(words[i])
  BY <1>2, <1>3, <1>4
<1>6. \A i \in 1 .. 1 : k + i - 1 = 2 => IdOK(words[i])
  BY <1>2, <1>3, <1>4
<1>7. 1 >= 1 /\ k + 1 <= 3 + n
  OBVIOUS
<1> QED
  BY <1>1, <1>2, <1>5, <1>6, <1>7 DEF Part

\* The ID.
LEMMA WriteID ==
  ASSUME NEW pages, NEW q, NEW ch, NEW gc, NEW stack, NEW tk, NEW ds, NEW f,
         Layout(pages, q, ch, gc, stack, tk, ds, f), q # <<>>, IsStore(q[1]), FlashOK(f),
         NEW p \in Page, NEW n \in Nat, NEW s \in Nat, NEW w \in Nat, HeadAt(pages, q, gc, f, p, n, s, w),
         q[1].op_code = "WRITE_ID", WritingAt(pages, q[1], f),
         NEW d, Advances(q, d, "WRITE_CHUNK"), NEW r, Goes(q, d, r),
         NEW op, op = Store(s + w + 2, <<<<"ID", q[1].record_id>>>>)
  PROVE  Step(pages, r, ch, gc, stack, tk, ds, f, op)
<1>1. /\ IsList(q) /\ Head(q) = q[1] /\ IsCmd(q[1])
  BY QueueWords DEF Layout
<1>2. PICK a \in Nat, o \in Nat : BodyAt(pages, q, f, p, n, s, w, a, o)
  BY BodyIs
<1>3. /\ a = s + w /\ o = q[1].chunk_offset /\ o = 3 /\ q[1].num_chunks >= 1 /\ Blank(f, a + 1, a + 2 + n)
      /\ n = q[1].length_words
  BY <1>2 DEF BodyAt, Progress, HeadAt
<1>4. IsCmd(d) /\ d.id = q[1].id /\ d.vpage_id = q[1].vpage_id /\ d.length_words = n
      /\ d.instance = q[1].instance /\ d.op_code = "WRITE_CHUNK" /\ d.num_chunks >= 1 /\ d.chunk_offset = 3
      /\ Alike(q[1], d)
  <2>1. /\ IsCmd(d) /\ d.id = q[1].id /\ d.vpage_id = q[1].vpage_id /\ d.length_words = q[1].length_words
        /\ d.instance = q[1].instance /\ d.op_code = "WRITE_CHUNK" /\ d.num_chunks = q[1].num_chunks
        /\ d.chunk_offset = q[1].chunk_offset /\ Alike(q[1], d)
    BY <1>1, AdvancesIs
  <2> QED
    BY <1>3, <2>1
<1>5. PICK x : x = <<"ID", q[1].record_id>>
  OBVIOUS
<1>6. WordOK(x) /\ IdOK(x)
  BY <1>1, <1>5, WordsAre, CmdFields
<1>7. f[a + 2] = Erased /\ f[a + 1] = Erased /\ \A b \in a + 3 .. a + 2 + n : f[b] = Erased
  BY <1>3 DEF Blank
<1>8. Part(f, a, n, <<x>>, 1, 2)
  BY <1>6, <1>7, PartOne
<1>9a. PICK dst \in Nat : dst = a + 2
  OBVIOUS
<1>9b. PICK words : words = <<x>>
  OBVIOUS
<1>9. dst = a + 2 /\ words = <<x>>
  BY <1>9a, <1>9b
<1>10. PICK g : g = Done(f, op)
  OBVIOUS
<1>11. Wrote(f, g, dst, words, 1) => Progress(d, g, a, n, d.chunk_offset)
  <2> HAVE Wrote(f, g, dst, words, 1)
  <2>1. \A b \in a .. a + 2 + n : b # dst => g[b] = f[b]
    <3>1. \A b \in a .. a + 2 + n : b \in Address
      BY <1>2 DEF BodyAt
    <3>2. \A b \in a .. a + 2 + n : b # dst => ~(dst <= b /\ b < dst + 1)
      BY <1>9
    <3> QED
      BY <3>1, <3>2 DEF Wrote
  <2>2. g[a + 1] = Erased
    <3>1. a + 1 \in a .. a + 2 + n /\ a + 1 # dst
      BY <1>9
    <3> QED
      BY <1>7, <2>1, <3>1
  <2>3. Blank(g, a + 3, a + 2 + n)
    <3>1. \A b \in a + 3 .. a + 2 + n : b \in a .. a + 2 + n /\ b # dst
      BY <1>9
    <3> QED
      BY <1>7, <2>1, <3>1 DEF Blank
  <2> QED
    BY <1>4, <2>2, <2>3 DEF Progress
<1>12. ChunksOK(r, ch)
  BY <1>1, <1>4, ChunksHead DEF Layout, Goes
<1>13. Next1(q, d, n)
  BY <1>4 DEF Next1
<1>14. op = Store(dst, words) /\ Part(f, a, n, words, 1, 2)
  BY <1>3, <1>5, <1>8, <1>9
<1> QED
  BY <1>2, <1>9, <1>10, <1>11, <1>12, <1>13, <1>14, WriteOn

\* IC.
LEMMA WriteIC ==
  ASSUME NEW pages, NEW q, NEW ch, NEW gc, NEW stack, NEW tk, NEW ds, NEW f,
         Layout(pages, q, ch, gc, stack, tk, ds, f), q # <<>>, IsStore(q[1]), FlashOK(f),
         NEW p \in Page, NEW n \in Nat, NEW s \in Nat, NEW w \in Nat, HeadAt(pages, q, gc, f, p, n, s, w),
         q[1].op_code = "WRITE_IC", WritingAt(pages, q[1], f),
         NEW d, Advances(q, d, "DONE"), NEW r, Goes(q, d, r),
         NEW op, op = Store(s + w + 1, <<<<"IC", q[1].instance>>>>)
  PROVE  Step(pages, r, ch, gc, stack, tk, ds, f, op)
<1>1. /\ IsList(q) /\ Head(q) = q[1] /\ IsCmd(q[1]) /\ CmdOK(pages, q[1])
  BY QueueWords DEF Layout
<1>2. PICK a \in Nat, o \in Nat : BodyAt(pages, q, f, p, n, s, w, a, o)
  BY BodyIs
<1>3. /\ a = s + w /\ o = q[1].chunk_offset /\ o = 3 + n /\ q[1].num_chunks = 0 /\ f[a + 1] = Erased
      /\ n = q[1].length_words
  BY <1>2 DEF BodyAt, Progress, HeadAt
<1>4. IsCmd(d) /\ d.id = q[1].id /\ d.vpage_id = q[1].vpage_id /\ d.length_words = n
      /\ d.instance = q[1].instance /\ d.op_code = "DONE" /\ d.num_chunks = 0 /\ d.chunk_offset = 3 + n
      /\ Alike(q[1], d)
  <2>1. /\ IsCmd(d) /\ d.id = q[1].id /\ d.vpage_id = q[1].vpage_id /\ d.length_words = q[1].length_words
        /\ d.instance = q[1].instance /\ d.op_code = "DONE" /\ d.num_chunks = q[1].num_chunks
        /\ d.chunk_offset = q[1].chunk_offset /\ Alike(q[1], d)
    BY <1>1, AdvancesIs
  <2> QED
    BY <1>3, <2>1
<1>5. PICK x : x = <<"IC", q[1].instance>>
  OBVIOUS
<1>6. WordOK(x)
  BY <1>1, <1>5, WordsAre DEF CmdOK, IsStore
<1>8. Part(f, a, n, <<x>>, 1, 1)
  <2>1. ~(1 = 2) /\ 1 >= 1 /\ 1 <= 2 + n
    OBVIOUS
  <2> QED
    BY <1>3, <1>6, <2>1, PartOne
<1>9a. PICK dst \in Nat : dst = a + 1
  OBVIOUS
<1>9b. PICK words : words = <<x>>
  OBVIOUS
<1>9. dst = a + 1 /\ words = <<x>>
  BY <1>9a, <1>9b
<1>10. PICK g : g = Done(f, op)
  OBVIOUS
<1>11. Progress(d, g, a, n, d.chunk_offset)
  BY <1>4 DEF Progress
<1>12. ChunksOK(r, ch)
  BY <1>1, <1>4, ChunksHead DEF Layout, Goes
<1>13. Next1(q, d, n)
  BY <1>4 DEF Next1
<1>14. op = Store(dst, words) /\ Part(f, a, n, words, 1, 1)
  BY <1>3, <1>5, <1>8, <1>9
<1> QED
  BY <1>2, <1>9, <1>10, <1>11, <1>12, <1>13, <1>14, WriteOn

\* The first of the chunks that are left.
Consumes(q, d, l) ==
  d = [q[1] EXCEPT !.num_chunks = @ - 1, !.chunk_offset = @ + l,
                   !.op_code = IF q[1].num_chunks = 1 THEN "WRITE_IC" ELSE "WRITE_CHUNK"]

\* One chunk of the record is written, and is counted where it went.
LEMMA WriteChunk ==
  ASSUME NEW pages, NEW q, NEW ch, NEW gc, NEW stack, NEW tk, NEW ds, NEW f,
         Layout(pages, q, ch, gc, stack, tk, ds, f), q # <<>>, IsStore(q[1]), FlashOK(f),
         NEW p \in Page, NEW n \in Nat, NEW s \in Nat, NEW w \in Nat, HeadAt(pages, q, gc, f, p, n, s, w),
         q[1].op_code = "WRITE_CHUNK", WritingAt(pages, q[1], f),
         NEW d, Consumes(q, d, Len(Head(ch))), NEW r, Goes(q, d, r),
         NEW op, op = Store(s + w + q[1].chunk_offset, Head(ch))
  PROVE  /\ Step(pages, r, Tail(ch), gc, stack, tk, ds, f, op)
         /\ Len(Tail(ch)) = Len(ch) - 1 /\ Len(ch) \in Nat
<1>1. /\ IsList(q) /\ Head(q) = q[1] /\ IsCmd(q[1]) /\ \A i \in 1 .. Len(q) : q[i].num_chunks \in Nat
  BY QueueWords DEF Layout
<1>2. PICK a \in Nat, o \in Nat : BodyAt(pages, q, f, p, n, s, w, a, o)
  BY BodyIs
<1>3. /\ a = s + w /\ o = q[1].chunk_offset /\ o >= 3 /\ q[1].num_chunks >= 1 /\ f[a + 1] = Erased
      /\ Blank(f, a + o, a + 2 + n) /\ n = q[1].length_words
  BY <1>2 DEF BodyAt, Progress, HeadAt
<1>4. PICK k \in Nat : k = q[1].num_chunks /\ k >= 1
  BY <1>1, <1>3, CmdFields
<1>5. ChunksOK(q, ch) /\ IsList(ch)
  BY DEF Layout, ChunksOK
<1>6. PICK words, l : words = Head(ch) /\ l = Len(words)
  OBVIOUS
<1>7. PICK chunk : chunk = ch[1]
  OBVIOUS
<1>8. PICK m : m = Len(chunk)
  OBVIOUS
<1>9. ch # <<>> /\ IsChunk(chunk) /\ Head(ch) = chunk /\ m \in Nat /\ m >= 1
      /\ o + m <= 3 + n /\ (k = 1 => o + m = 3 + n) /\ Len(Tail(ch)) = Len(ch) - 1
  <2>1. PICK c : c = [q[1] EXCEPT !.num_chunks = k - 1, !.chunk_offset = o + Len(ch[1])]
    OBVIOUS
  <2>2. IsStore(c) /\ c.num_chunks = k - 1 /\ c.chunk_offset = o + Len(ch[1]) /\ c.length_words = n
    BY <1>1, <1>3, <2>1 DEF IsCmd, IsStore
  <2>3. PICK z : Goes(q, c, z)
    BY DEF Goes
  <2>4. Consumed(ch, z, k, o, n)
    BY <1>1, <1>3, <1>4, <1>5, <2>2, <2>3, ChunksConsume
  <2> QED
    BY <1>7, <1>8, <2>4 DEF Consumed
<1>10. words = chunk /\ l = m
  BY <1>6, <1>8, <1>9
<1>10a. l \in Nat /\ m \in Nat /\ l = m /\ l >= 1 /\ o + l <= 3 + n /\ o >= 3 /\ k >= 1 /\ (k = 1 => o + m = 3 + n)
  BY <1>3, <1>4, <1>9, <1>10
<1>11. IsCmd(d) /\ d.id = q[1].id /\ d.vpage_id = q[1].vpage_id /\ d.length_words = n
      /\ d.instance = q[1].instance /\ d.op_code = IF k = 1 THEN "WRITE_IC" ELSE "WRITE_CHUNK"
  <2>1. d = [q[1] EXCEPT !.num_chunks = k - 1, !.chunk_offset = o + m,
                         !.op_code = IF k = 1 THEN "WRITE_IC" ELSE "WRITE_CHUNK"]
    BY <1>1, <1>3, <1>4, <1>6, <1>10 DEF Consumes, IsCmd
  <2>2. k - 1 \in Nat /\ o + m \in Nat
    BY <1>4, <1>9
  <2> QED
    BY <1>1, <1>3, <2>1, <2>2 DEF IsCmd
<1>12. d.num_chunks = k - 1 /\ d.chunk_offset = o + m /\ IsStore(d)
  <2>1. d = [q[1] EXCEPT !.num_chunks = k - 1, !.chunk_offset = o + m,
                         !.op_code = IF k = 1 THEN "WRITE_IC" ELSE "WRITE_CHUNK"]
    BY <1>1, <1>3, <1>4, <1>6, <1>10 DEF Consumes, IsCmd
  <2> QED
    BY <1>1, <1>11, <2>1 DEF IsCmd, IsStore
<1>13. ChunksOK(r, Tail(ch))
  <2>1. d.chunk_offset = o + Len(ch[1]) /\ d.length_words = n
    BY <1>7, <1>8, <1>11, <1>12
  <2>2. Consumed(ch, r, k, o, n)
    BY <1>1, <1>3, <1>4, <1>5, <1>12, <2>1, ChunksConsume
  <2> QED
    BY <2>2 DEF Consumed
<1>14. Part(f, a, n, words, l, o)
  <2>1. IsList(words) /\ \A i \in 1 .. l : words[i] \in DataWords
    BY <1>6, <1>9, <1>10 DEF IsChunk
  <2>2. \A i \in 1 .. l : WordOK(words[i])
    BY <2>1, WordsAre
  <2>3. \A i \in 1 .. l : a + o + i - 1 \in a + o .. a + 2 + n
    BY ONLY <1>10a, a \in Nat, o \in Nat, n \in Nat
  <2>4. \A i \in 1 .. l : f[a + o + i - 1] = Erased
    BY <1>3, <2>3 DEF Blank
  <2>5. \A i \in 1 .. l : ~(o + i - 1 = 2)
    BY ONLY <1>10a, o \in Nat
  <2> QED
    <3>1. l = Len(words) /\ l >= 1 /\ o >= 1 /\ o + l <= 3 + n
      BY <1>6, <1>10a
    <3> QED
      BY ONLY <2>1, <2>2, <2>4, <2>5, <3>1 DEF Part
<1>15. PICK dst \in Nat : dst = a + o
  OBVIOUS
<1>16. PICK g : g = Done(f, op)
  OBVIOUS
<1>17. Wrote(f, g, dst, words, l) => Progress(d, g, a, n, d.chunk_offset)
  <2> HAVE Wrote(f, g, dst, words, l)
  <2>1. \A b \in a .. a + 2 + n : ~(dst <= b /\ b < dst + l) => g[b] = f[b]
    <3>1. \A b \in a .. a + 2 + n : b \in Address
      BY <1>2 DEF BodyAt
    <3> QED
      BY <3>1 DEF Wrote
  <2>2. g[a + 1] = Erased
    <3>1. a + 1 \in a .. a + 2 + n /\ ~(dst <= a + 1 /\ a + 1 < dst + l)
      BY ONLY <1>10a, <1>15, a \in Nat, o \in Nat, n \in Nat
    <3> QED
      BY <1>3, <2>1, <3>1
  <2>3. Blank(g, a + (o + m), a + 2 + n)
    <3> SUFFICES ASSUME NEW b \in a + (o + m) .. a + 2 + n PROVE g[b] = Erased
      BY DEF Blank
    <3>1. b \in a .. a + 2 + n /\ b \in a + o .. a + 2 + n /\ ~(dst <= b /\ b < dst + l)
      BY ONLY <1>10a, <1>15, a \in Nat, o \in Nat, n \in Nat, b \in a + (o + m) .. a + 2 + n
    <3>2. f[b] = Erased
      BY <1>3, <3>1 DEF Blank
    <3> QED
      BY <2>1, <3>1, <3>2
  <2>4. CASE k = 1
    <3>1. d.op_code = "WRITE_IC" /\ d.num_chunks = 0 /\ d.chunk_offset = 3 + n
      BY <1>9, <1>11, <1>12, <2>4
    <3> QED
      BY <2>2, <3>1 DEF Progress
  <2>5. CASE k # 1
    <3>1. d.op_code = "WRITE_CHUNK" /\ d.num_chunks >= 1 /\ d.chunk_offset = o + m /\ o + m >= 3
      <4>1. d.op_code = "WRITE_CHUNK" /\ d.num_chunks = k - 1 /\ d.chunk_offset = o + m
        BY <1>11, <1>12, <2>5
      <4>2. k - 1 >= 1 /\ o + m >= 3
        BY ONLY <1>10a, <2>5, k \in Nat, o \in Nat
      <4> QED
        BY <4>1, <4>2
    <3> QED
      BY <2>2, <2>3, <3>1 DEF Progress
  <2> QED
    BY <2>4, <2>5
<1>18. Next1(q, d, n)
  <2>1. d.op_code # "WRITE_TL"
    BY <1>11
  <2> QED
    BY <1>11, <2>1 DEF Next1
<1>19. op = Store(dst, words)
  BY <1>3, <1>6, <1>15
<1>20. l \in Nat
  BY <1>9, <1>10
<1>21. Step(pages, r, Tail(ch), gc, stack, tk, ds, f, op)
  BY <1>2, <1>13, <1>14, <1>15, <1>16, <1>17, <1>18, <1>19, <1>20, WriteOn
<1> QED
  BY <1>5, <1>9, <1>21, ListIs

\* The pages with other numbers.
Alters(pages, other) ==
  /\ PagesTyped(other)
  /\ \A i \in Page : other[i].page_type = pages[i].page_type /\ other[i].vpage_id = pages[i].vpage_id
AlteredOK(other, q, gc, stack, tk, ds, f) ==
  /\ PagesTyped(other) /\ Apart(other) /\ KindsOK(other, gc, f) /\ QueueOK(other, q, gc) /\ TokenOK(other, tk)
  /\ StackOK(other, stack, f) /\ DescsOK(other, ds)

\* Where nothing but the numbers of the pages changes, the layout of the flash stays.
LEMMA PagesAlter ==
  ASSUME NEW pages, NEW q, NEW ch, NEW gc, NEW stack, NEW tk, NEW ds, NEW f,
         Layout(pages, q, ch, gc, stack, tk, ds, f), NEW other, Alters(pages, other)
  PROVE  AlteredOK(other, q, gc, stack, tk, ds, f)
<1>1. /\ PagesTyped(pages) /\ Apart(pages) /\ KindsOK(pages, gc, f)
      /\ QueueOK(pages, q, gc) /\ TokenOK(pages, tk) /\ StackOK(pages, stack, f) /\ DescsOK(pages, ds)
  BY DEF Layout, PagesOK, SpaceOK
<1>2. \A i \in Page : other[i].page_type = pages[i].page_type /\ other[i].vpage_id = pages[i].vpage_id
  BY DEF Alters
<1>3. \A v : ValidPage(pages, v) => ValidPage(other, v)
  BY <1>2 DEF ValidPage
<1>4. QueueOK(other, q, gc)
  BY <1>1, <1>3, QueuePages
<1>5. PagesTyped(other) /\ Apart(other)
  BY <1>1, <1>2 DEF Alters, Apart
<1>6. KindsOK(other, gc, f)
  BY <1>1, <1>2 DEF KindsOK, KindNow
<1>7. TokenOK(other, tk)
  BY <1>1, <1>3 DEF TokenOK
<1>8. StackOK(other, stack, f)
  BY <1>1, <1>2 DEF StackOK
<1>9. DescsOK(other, ds)
  BY <1>1, <1>3 DEF DescsOK, IsDesc
<1> QED
  BY <1>4, <1>5, <1>6, <1>7, <1>8, <1>9 DEF AlteredOK

\* A page whose writing ends where it is recorded is accounted for.
LEMMA EndsAccount ==
  ASSUME NEW pages, NEW q, NEW f, EndsOK(pages, q, f)
  PROVE  Accounts(pages, q, f)
BY DEF EndsOK, Accounts

\* The numbers of page p become w and b.
Numbers(pages, p, w, b, other) ==
  other = [pages EXCEPT ![p].write_offset = w, ![p].words_reserved = b]

\* What changes when one page gets other numbers.
LEMMA NumbersAre ==
  ASSUME NEW pages, PagesTyped(pages), NEW p \in Page, NEW w \in Nat, NEW b \in Nat, NEW other,
         Numbers(pages, p, w, b, other)
  PROVE  /\ Alters(pages, other) /\ other[p].write_offset = w /\ other[p].words_reserved = b
         /\ \A i \in Page : i # p => other[i] = pages[i]
<1>1. other = [i \in Page |-> IF i = p THEN [pages[p] EXCEPT !.write_offset = w, !.words_reserved = b] ELSE pages[i]]
  BY DEF Numbers, PagesTyped
<1>2. PICK d : d = [pages[p] EXCEPT !.write_offset = w, !.words_reserved = b]
  OBVIOUS
<1>3. IsPage(pages[p])
  BY DEF PagesTyped
<1>4. /\ IsPage(d) /\ d.page_type = pages[p].page_type /\ d.vpage_id = pages[p].vpage_id
      /\ d.write_offset = w /\ d.words_reserved = b
  BY <1>2, <1>3 DEF IsPage
<1>5. other[p] = d /\ \A i \in Page : i # p => other[i] = pages[i]
  BY <1>1, <1>2
<1>6. PagesTyped(other)
  <2>1. \A i \in Page : IsPage(other[i])
    BY <1>4, <1>5 DEF PagesTyped
  <2>2. other = [i \in Page |-> other[i]]
    BY <1>1
  <2> QED
    BY <2>1, <2>2 DEF PagesTyped
<1>7. \A i \in Page : other[i].page_type = pages[i].page_type /\ other[i].vpage_id = pages[i].vpage_id
  BY <1>4, <1>5
<1>8. Alters(pages, other)
  BY <1>6, <1>7 DEF Alters
<1> QED
  BY <1>4, <1>5, <1>8

\* The record at the head has been written.
LEMMA RecordDone ==
  ASSUME NEW pages, NEW q, NEW ch, NEW gc, NEW stack, NEW tk, NEW ds, NEW f,
         Layout(pages, q, ch, gc, stack, tk, ds, f), q # <<>>, IsStore(q[1]),
         NEW p \in Page, NEW n \in Nat, NEW s \in Nat, NEW w \in Nat, HeadAt(pages, q, gc, f, p, n, s, w),
         q[1].op_code # "WRITE_TL", q[1].num_chunks = 0,
         NEW b \in Nat, b = pages[p].words_reserved, NEW other, Numbers(pages, p, w + (3 + n), b - (3 + n), other)
  PROVE  Layout(other, Tail(q), ch, gc, stack, tk, ds, f) /\ Accounts(other, Tail(q), f)
<1>1. /\ PagesTyped(pages) /\ Apart(pages) /\ EndsOK(pages, q, f) /\ RoomOK(pages, gc)
      /\ QueueOK(pages, q, gc) /\ SpaceOK(pages, q, tk) /\ GcOK(pages, q, gc, stack, f) /\ ChunksOK(q, ch)
  BY DEF Layout, PagesOK
<1>2. /\ IsList(q) /\ Len(q) >= 1 /\ Head(q) = q[1] /\ CmdOK(pages, q[1]) /\ IsCmd(q[1])
      /\ \A v : \A i \in 1 .. Len(q) : WordsFor(q[i], v) \in Nat
  BY <1>1, QueueWords
<1>3. /\ pages[p].page_type = "VALID" /\ pages[p].vpage_id = q[1].vpage_id
      /\ n = q[1].length_words /\ s = StartAddr(p) /\ w = pages[p].write_offset
      /\ \A i \in Page : i # p => pages[i].vpage_id # q[1].vpage_id
      /\ gc.state \notin Mid
      /\ End(f, p) = s + w + Extra(q, q[1].vpage_id)
  BY DEF HeadAt
<1>4. WordsFor(q[1], q[1].vpage_id) = 3 + n /\ (\A v : v # q[1].vpage_id => WordsFor(q[1], v) = 0)
      /\ 3 + n \in Nat
  BY <1>2, <1>3, WordsForNat
<1>5. 3 + n <= b /\ DueWithin(Tail(q), tk, q[1].vpage_id, b - (3 + n))
  <2>1. DueWithin(q, tk, q[1].vpage_id, b)
    BY <1>1, <1>3 DEF SpaceOK
  <2> QED
    BY <1>2, <1>4, <2>1, DueTail
<1>6. PICK x \in Nat, y \in Nat : x = w + (3 + n) /\ y = b - (3 + n)
  BY <1>5
<1>7. /\ Alters(pages, other) /\ other[p].write_offset = x /\ other[p].words_reserved = y
      /\ \A i \in Page : i # p => other[i] = pages[i]
  <2>1. Numbers(pages, p, x, y, other)
    BY <1>6
  <2> QED
    BY <1>1, <2>1, NumbersAre
<1>8. AlteredOK(other, q, gc, stack, tk, ds, f)
  BY <1>7, PagesAlter
<1>9. QueueOK(other, Tail(q), gc) /\ (Tail(q) # <<>> => Fresh(Head(Tail(q))))
  BY <1>8, QueueTail DEF AlteredOK
<1>10. ChunksOK(Tail(q), ch)
  BY <1>1, <1>2, ChunksTail
<1>11. \A v : Extra(Tail(q), v) = 0
  BY <1>9, NoExtra DEF QueueOK
<1>12. EndsOK(other, Tail(q), f)
  <2> SUFFICES ASSUME NEW i \in Page
               PROVE  End(f, i) = StartAddr(i) + other[i].write_offset + Extra(Tail(q), other[i].vpage_id)
    BY DEF EndsOK
  <2>1. CASE i = p
    <3>1. Extra(q, q[1].vpage_id) = 3 + n
      BY <1>2, <1>3, ExtraIs
    <3>2. End(f, p) = s + w + (3 + n)
      BY <1>3, <3>1
    <3>3. End(f, p) = s + x + 0
      BY ONLY <1>6, <3>2, s \in Nat, w \in Nat, n \in Nat
    <3> QED
      BY <1>3, <1>7, <1>11, <2>1, <3>3
  <2>2. CASE i # p
    <3>1. Extra(q, pages[i].vpage_id) = 0
      BY <1>2, <1>3, <2>2, ExtraIs
    <3> QED
      BY <1>1, <1>7, <1>11, <2>2, <3>1 DEF EndsOK
  <2> QED
    BY <2>1, <2>2
<1>13. RoomOK(other, gc)
  <2>1. \A i \in Page : other[i].page_type = pages[i].page_type
    BY <1>7 DEF Alters
  <2>2. w + b < Size
    BY <1>1, <1>3 DEF RoomOK, Size
  <2>3. x + y < Size
    BY ONLY <1>5, <1>6, <2>2, w \in Nat, b \in Nat, n \in Nat
  <2>4. \A i \in Page :
          /\ other[i].page_type # "VALID" => other[i].words_reserved = 0
          /\ other[i].page_type = "VALID" => other[i].write_offset + other[i].words_reserved < FS_PAGE_SIZE_WORDS
          /\ other[i].page_type = "SWAP" /\ ~(gc.state \in {"COPY_RECORD", "READY_SWAP"} /\ i = gc.swap_page)
               => other[i].write_offset = 4
    <3> SUFFICES ASSUME NEW i \in Page
                 PROVE  /\ other[i].page_type # "VALID" => other[i].words_reserved = 0
                        /\ other[i].page_type = "VALID" => other[i].write_offset + other[i].words_reserved < FS_PAGE_SIZE_WORDS
                        /\ other[i].page_type = "SWAP" /\ ~(gc.state \in {"COPY_RECORD", "READY_SWAP"} /\ i = gc.swap_page)
                             => other[i].write_offset = 4
      OBVIOUS
    <3>1. CASE i = p
      BY <1>3, <1>7, <2>1, <2>3, <3>1 DEF Size
    <3>2. CASE i # p
      BY <1>1, <1>7, <3>2 DEF RoomOK
    <3> QED
      BY <3>1, <3>2
  <2> QED
    BY <2>4 DEF RoomOK
<1>14. SpaceOK(other, Tail(q), tk)
  <2>1. ASSUME NEW i \in Page, other[i].page_type = "VALID"
        PROVE  DueWithin(Tail(q), tk, other[i].vpage_id, other[i].words_reserved)
    <3>1. CASE i = p
      <4>1. other[i].vpage_id = q[1].vpage_id /\ other[i].words_reserved = b - (3 + n)
        BY <1>3, <1>6, <1>7, <3>1 DEF Alters
      <4> QED
        BY <1>5, <4>1
    <3>2. CASE i # p
      <4>0. PICK v : v = pages[i].vpage_id
        OBVIOUS
      <4>1. PICK m \in Nat : m = pages[i].words_reserved /\ v = pages[i].vpage_id
        BY <1>1, <4>0, PageFields DEF PagesTyped
      <4>2. other[i].vpage_id = v /\ other[i].words_reserved = m /\ pages[i].page_type = "VALID" /\ v # q[1].vpage_id
        BY <1>3, <1>7, <2>1, <3>2, <4>1
      <4>3. DueWithin(q, tk, v, m)
        BY <1>1, <4>1, <4>2 DEF SpaceOK
      <4>4. WordsFor(q[1], v) = 0 /\ 0 \in Nat /\ m - 0 = m
        BY <1>4, <4>2
      <4>5. DueWithin(Tail(q), tk, v, m - 0)
        BY <1>2, <4>3, <4>4, DueTail
      <4> QED
        BY <4>2, <4>4, <4>5
    <3> QED
      BY <3>1, <3>2
  <2> QED
    BY <1>8, <2>1 DEF SpaceOK, AlteredOK
<1>15. GcOK(other, Tail(q), gc, stack, f)
  BY <1>1, <1>3 DEF GcOK, Mid
<1>16. Layout(other, Tail(q), ch, gc, stack, tk, ds, f)
  BY <1>8, <1>9, <1>10, <1>12, <1>13, <1>14, <1>15 DEF Layout, PagesOK, AlteredOK
<1> QED
  BY <1>12, <1>16, EndsAccount

--------------------------------------------------------------------------------

(* Records are cleared. *)

\* The tag of a record that lies in the flash may be cleared, and the layout stays.
LEMMA ClearRecord ==
  ASSUME NEW pages, NEW q, NEW ch, NEW gc, NEW stack, NEW tk, NEW ds, NEW f,
         Layout(pages, q, ch, gc, stack, tk, ds, f), FlashOK(f), ~HeadIs(q, {"GC"}),
         NEW p \in Page, pages[p].page_type = "VALID", NEW a \in HeadersOf(f, p),
         NEW op, op = Store(a, <<TLInvalid>>)
  PROVE  SafeOp(f, op) /\ Layout(pages, q, ch, gc, a, tk, ds, Done(f, op))
<1>1. /\ PagesTyped(pages) /\ Apart(pages) /\ KindsOK(pages, gc, f) /\ EndsOK(pages, q, f) /\ RoomOK(pages, gc)
      /\ QueueOK(pages, q, gc) /\ ChunksOK(q, ch) /\ SpaceOK(pages, q, tk) /\ GcOK(pages, q, gc, stack, f)
      /\ DescsOK(pages, ds)
  BY DEF Layout, PagesOK
<1>2. gc.state \notin Mid
  BY <1>1 DEF GcOK
<1>3. Kind(f, p) = "VALID"
  BY <1>1, <1>2 DEF KindsOK, KindNow, Mid
<1>4. PICK g : g = Done(f, op)
  OBVIOUS
<1>5. ClearMade(f, op, g, p, a)
  BY <1>3, <1>4, SafeClear
<1>6. SafeOp(f, op) /\ Changes(f, g, p, "VALID", HeadersOf(f, p), End(f, p))
  BY <1>5 DEF ClearMade
<1>7. \A i \in Page : Kind(g, i) = Kind(f, i) /\ HeadersOf(g, i) = HeadersOf(f, i) /\ End(g, i) = End(f, i)
  BY <1>3, <1>6, ChangesAre
<1>8. KindsOK(pages, gc, g) /\ EndsOK(pages, q, g)
  BY <1>1, <1>7 DEF KindsOK, EndsOK
<1>9. StackOK(pages, a, g)
  BY <1>7 DEF StackOK
<1>10. GcOK(pages, q, gc, a, g)
  BY <1>1, <1>2 DEF GcOK, Mid
<1> QED
  BY <1>1, <1>4, <1>6, <1>8, <1>9, <1>10 DEF Layout, PagesOK

\* A command that is no record goes on.
LEMMA LayoutGoes ==
  ASSUME NEW pages, NEW q, NEW ch, NEW gc, NEW stack, NEW tk, NEW ds, NEW f,
         Layout(pages, q, ch, gc, stack, tk, ds, f), q # <<>>, ~IsStore(q[1]),
         NEW d, CmdOK(pages, d), d.id = q[1].id, Alike(q[1], d), NEW r, Goes(q, d, r)
  PROVE  Layout(pages, r, ch, gc, stack, tk, ds, f) /\ Head(r) = d /\ r # <<>> /\ Len(r) = Len(q)
<1>1. /\ PagesTyped(pages) /\ Apart(pages) /\ KindsOK(pages, gc, f) /\ EndsOK(pages, q, f) /\ RoomOK(pages, gc)
      /\ QueueOK(pages, q, gc) /\ ChunksOK(q, ch) /\ SpaceOK(pages, q, tk) /\ GcOK(pages, q, gc, stack, f)
      /\ DescsOK(pages, ds) /\ StackOK(pages, stack, f)
  BY DEF Layout, PagesOK
<1>2. /\ IsList(q) /\ Len(q) >= 1 /\ Head(q) = q[1] /\ CmdOK(pages, q[1]) /\ IsCmd(q[1])
  BY <1>1, QueueWords
<1>3. QueueOK(pages, r, gc)
  BY <1>1, <1>2, QueueGoes
<1>4. /\ IsList(r) /\ Len(r) = Len(q) /\ r # <<>> /\ Head(r) = d /\ r[1] = d
  BY <1>2, Gone
<1>5. ChunksOK(r, ch)
  BY <1>1, <1>2, ChunksHead DEF Goes
<1>6. \A v : Extra(r, v) = Extra(q, v)
  <2>1. ~IsStore(Head(q)) /\ ~IsStore(Head(r))
    BY <1>2, <1>4 DEF IsStore
  <2> QED
    BY <1>2, <1>4, <2>1, NoExtra
<1>7. EndsOK(pages, r, f)
  BY <1>1, <1>6 DEF EndsOK
<1>8. SpaceOK(pages, r, tk)
  <2>1. \A v : WordsFor(d, v) = WordsFor(q[1], v)
    BY DEF WordsFor, IsStore
  <2>2. \A i \in Page : pages[i].page_type = "VALID" => DueWithin(r, tk, pages[i].vpage_id, pages[i].words_reserved)
    BY <1>1, <1>2, <2>1, DueGoes DEF SpaceOK
  <2> QED
    BY <1>1, <2>2 DEF SpaceOK
<1>9. GcOK(pages, r, gc, stack, f)
  BY <1>1, <1>2, <1>4 DEF GcOK, HeadIs
<1> QED
  BY <1>1, <1>3, <1>4, <1>5, <1>7, <1>8, <1>9 DEF Layout, PagesOK

\* A command that is no record has ended.
LEMMA LayoutPops ==
  ASSUME NEW pages, NEW q, NEW ch, NEW gc, NEW stack, NEW tk, NEW ds, NEW f,
         Layout(pages, q, ch, gc, stack, tk, ds, f), q # <<>>, ~IsStore(q[1]), gc.state \notin Mid
  PROVE  Layout(pages, Tail(q), ch, gc, stack, tk, ds, f)
<1>1. /\ PagesTyped(pages) /\ Apart(pages) /\ KindsOK(pages, gc, f) /\ EndsOK(pages, q, f) /\ RoomOK(pages, gc)
      /\ QueueOK(pages, q, gc) /\ ChunksOK(q, ch) /\ SpaceOK(pages, q, tk) /\ GcOK(pages, q, gc, stack, f)
      /\ DescsOK(pages, ds) /\ StackOK(pages, stack, f)
  BY DEF Layout, PagesOK
<1>2. /\ IsList(q) /\ Len(q) >= 1 /\ Head(q) = q[1] /\ CmdOK(pages, q[1]) /\ IsCmd(q[1])
  BY <1>1, QueueWords
<1>3. QueueOK(pages, Tail(q), gc) /\ (Tail(q) # <<>> => Fresh(Head(Tail(q))))
  BY <1>1, QueueTail
<1>4. ChunksOK(Tail(q), ch)
  BY <1>1, <1>2, ChunksTail
<1>5. \A v : Extra(Tail(q), v) = 0 /\ Extra(q, v) = 0
  BY <1>2, <1>3, NoExtra DEF QueueOK
<1>6. EndsOK(pages, Tail(q), f)
  BY <1>1, <1>5 DEF EndsOK
<1>7. SpaceOK(pages, Tail(q), tk)
  <2>1. ASSUME NEW i \in Page, pages[i].page_type = "VALID"
        PROVE  DueWithin(Tail(q), tk, pages[i].vpage_id, pages[i].words_reserved)
    <3>1. PICK v : v = pages[i].vpage_id
      OBVIOUS
    <3>2. PICK m \in Nat : m = pages[i].words_reserved
      BY <1>1, PageFields DEF PagesTyped
    <3>3. DueWithin(q, tk, v, m)
      BY <1>1, <2>1, <3>1, <3>2 DEF SpaceOK
    <3>4. WordsFor(q[1], v) = 0 /\ 0 \in Nat /\ m - 0 = m
      BY <1>2, WordsForNat
    <3>5. DueWithin(Tail(q), tk, v, m - 0)
      BY <1>2, <3>3, <3>4, DueTail
    <3> QED
      BY <3>1, <3>2, <3>4, <3>5
  <2> QED
    BY <1>1, <2>1 DEF SpaceOK
<1>8. GcOK(pages, Tail(q), gc, stack, f)
  BY <1>1 DEF GcOK, Mid
<1> QED
  BY <1>1, <1>3, <1>4, <1>6, <1>7, <1>8 DEF Layout, PagesOK

\* The page of a virtual page.
LEMMA ValidPageIs ==
  ASSUME NEW pages, Apart(pages), NEW v, ValidPage(pages, v)
  PROVE  \E p \in Page : /\ pages[p].page_type = "VALID" /\ pages[p].vpage_id = v
                         /\ (CHOOSE i \in Page : pages[i].vpage_id = v) = p
BY PageFound DEF ValidPage

\* The first of pairs of numbers.
LEMMA FirstPair ==
  ASSUME NEW z, z # {}, \A va \in z : \E v \in Nat, a \in Nat : va = <<v, a>>
  PROVE  \E va \in z : \A vb \in z \ {va} : Before(va, vb)
<1> DEFINE S == {va[1] : va \in z}
<1>1. S # {} /\ S \in SUBSET Nat
  OBVIOUS
<1>2. PICK v \in S : \A i \in S : v <= i
  BY <1>1, Least
<1> DEFINE T == {va[2] : va \in {vb \in z : vb[1] = v}}
<1>3. T # {} /\ T \in SUBSET Nat
  BY <1>2
<1>4. PICK a \in T : \A i \in T : a <= i
  BY <1>3, Least
<1>5. PICK va \in z : va[1] = v /\ va[2] = a
  BY <1>4
<1>6. ASSUME NEW vb \in z \ {va} PROVE Before(va, vb)
  <2>1. PICK k \in Nat, b \in Nat : vb = <<k, b>>
    OBVIOUS
  <2>2. PICK i \in Nat, j \in Nat : va = <<i, j>>
    BY <1>5
  <2>3. k \in S /\ v <= k
    BY <1>2, <2>1
  <2>4. k = v => b \in T /\ a <= b
    BY <1>4, <2>1
  <2>5. i = v /\ j = a
    BY <1>5, <2>2
  <2>6. k = v => b # a
    BY <2>1, <2>2, <2>5
  <2> QED
    BY ONLY <1>5, <2>1, <2>2, <2>3, <2>4, <2>5, <2>6, k \in Nat, b \in Nat, i \in Nat, j \in Nat DEF Before
<1> QED
  BY <1>5, <1>6

--------------------------------------------------------------------------------

(* Pages are collected. *)
Collects(gc, state, cur, swap, scan, todo) ==
  gc = [state |-> state, cur_page |-> cur, swap_page |-> swap, p_scan_addr |-> scan, do_gc_page |-> todo]

\* The components of a collector given by them.
LEMMA CollectsIs ==
  ASSUME NEW gc, NEW state, NEW cur \in Page, NEW swap \in Page, NEW scan, NEW todo \in SUBSET Page,
         Collects(gc, state, cur, swap, scan, todo)
  PROVE  /\ IsGc(gc) /\ gc.state = state /\ gc.cur_page = cur /\ gc.swap_page = swap
         /\ gc.p_scan_addr = scan /\ gc.do_gc_page = todo
BY DEF Collects, IsGc

\* What holds while a collection is at the head.
GcHead(pages, q, ch, gc, tk, ds, f) ==
  /\ PagesTyped(pages) /\ Apart(pages) /\ KindsOK(pages, gc, f) /\ RoomOK(pages, gc)
  /\ QueueOK(pages, q, gc) /\ ChunksOK(q, ch) /\ SpaceOK(pages, q, tk) /\ DescsOK(pages, ds) /\ IsGc(gc)
  /\ \A i \in Page : End(f, i) = StartAddr(i) + pages[i].write_offset
  /\ \A v : Extra(q, v) = 0

\* With a collection at the head of the queue, the rest of the layout says so.
LEMMA GcHeadIs ==
  ASSUME NEW pages, NEW q, NEW ch, NEW gc, NEW stack, NEW tk, NEW ds, NEW f,
         Layout(pages, q, ch, gc, stack, tk, ds, f), HeadIs(q, {"GC"})
  PROVE  GcHead(pages, q, ch, gc, tk, ds, f) /\ GcOK(pages, q, gc, stack, f)
<1>1. /\ PagesTyped(pages) /\ Apart(pages) /\ KindsOK(pages, gc, f) /\ EndsOK(pages, q, f) /\ RoomOK(pages, gc)
      /\ QueueOK(pages, q, gc) /\ ChunksOK(q, ch) /\ SpaceOK(pages, q, tk) /\ GcOK(pages, q, gc, stack, f)
      /\ DescsOK(pages, ds) /\ IsGc(gc)
  BY DEF Layout, PagesOK, GcOK
<1>2. \A v : Extra(q, v) = 0
  BY DEF Extra, HeadIs
<1>3. \A i \in Page : StartAddr(i) \in Nat /\ pages[i].write_offset \in Nat
  BY <1>1, PageFields, PageIs DEF PagesTyped
<1>4. \A i \in Page : End(f, i) = StartAddr(i) + pages[i].write_offset
  BY <1>1, <1>2, <1>3 DEF EndsOK
<1> QED
  BY <1>1, <1>2, <1>4 DEF GcHead

\* And the other way round.
LEMMA GcHeadLayout ==
  ASSUME NEW pages, NEW q, NEW ch, NEW gc, NEW tk, NEW ds, NEW f,
         GcHead(pages, q, ch, gc, tk, ds, f), GcOK(pages, q, gc, NULL, f)
  PROVE  Layout(pages, q, ch, gc, NULL, tk, ds, f) /\ Accounts(pages, q, f)
<1>1. \A i \in Page : StartAddr(i) \in Nat /\ pages[i].write_offset \in Nat
  BY PageFields, PageIs DEF GcHead, PagesTyped
<1>2. EndsOK(pages, q, f)
  BY <1>1 DEF GcHead, EndsOK
<1>3. StackOK(pages, NULL, f)
  BY DEF StackOK
<1> QED
  BY <1>2, <1>3, EndsAccount DEF Layout, PagesOK, GcHead

\* Pages that keep where their records end account for them.
LEMMA GcAccounts ==
  ASSUME NEW pages, NEW q, NEW f, \A i \in Page : End(f, i) = StartAddr(i) + pages[i].write_offset
  PROVE  Accounts(pages, q, f)
BY DEF Accounts

\* A page is tagged.
LEMMA GcTags ==
  ASSUME NEW pages, NEW q, NEW ch, NEW gc, NEW stack, NEW tk, NEW ds, NEW f,
         Layout(pages, q, ch, gc, stack, tk, ds, f), FlashOK(f), HeadIs(q, {"GC"}),
         gc.state \in {"BEGIN", "INIT_SWAP"}, pages[gc.swap_page].page_type = "SWAP",
         NEW todo \in SUBSET Page, \A i \in todo : pages[i].page_type = "VALID", NEW p \in todo,
         NEW other, Collects(other, "GC_PAGE", p, gc.swap_page, NULL, {i \in todo : i > p}),
         NEW op, op = Store(StartAddr(p) + 3, <<<<"tag3", "gc">>>>)
  PROVE  SafeOp(f, op) /\ Layout(pages, q, ch, other, NULL, tk, ds, Done(f, op)) /\ Accounts(pages, q, f)
<1>1. GcHead(pages, q, ch, gc, tk, ds, f) /\ GcOK(pages, q, gc, stack, f)
  BY GcHeadIs
<1>2. p \in Page /\ pages[p].page_type = "VALID" /\ gc.swap_page \in Page
  BY <1>1 DEF GcHead, IsGc
<1>3. /\ IsGc(other) /\ other.state = "GC_PAGE" /\ other.cur_page = p /\ other.swap_page = gc.swap_page
      /\ other.p_scan_addr = NULL /\ other.do_gc_page = {i \in todo : i > p}
  BY <1>2, CollectsIs
<1>4. \A i \in Page : Kind(f, i) = pages[i].page_type
  BY <1>1 DEF GcHead, KindsOK, KindNow
<1>5. PICK g : g = Done(f, op)
  OBVIOUS
<1>6. SafeOp(f, op) /\ Changes(f, g, p, "GC", HeadersOf(f, p), End(f, p))
  BY <1>2, <1>4, <1>5, SafeGcTag
<1>7. /\ Kind(g, p) = "GC" /\ End(g, p) = End(f, p)
      /\ \A i \in Page : i # p => Kind(g, i) = Kind(f, i) /\ End(g, i) = End(f, i)
  BY <1>2, <1>6, ChangesAre
<1>8. KindsOK(pages, other, g)
  BY <1>3, <1>4, <1>7 DEF KindsOK, KindNow
<1>9. RoomOK(pages, other) /\ pages[gc.swap_page].write_offset = 4
  BY <1>1, <1>2, <1>3 DEF GcHead, RoomOK
<1>10. QueueOK(pages, q, other)
  BY <1>1, <1>3, QueueGc DEF GcHead, Mid
<1>11. \A i \in Page : End(g, i) = StartAddr(i) + pages[i].write_offset
  BY <1>1, <1>7 DEF GcHead
<1>12. GcHead(pages, q, ch, other, tk, ds, g)
  BY <1>1, <1>3, <1>8, <1>9, <1>10, <1>11 DEF GcHead
<1>13. GcOK(pages, q, other, NULL, g)
  <2>1. p \notin {i \in todo : i > p}
    BY <1>2, PageIs
  <2>2. \A i \in {j \in todo : j > p} : pages[i].page_type = "VALID"
    OBVIOUS
  <2> QED
    BY <1>2, <1>3, <1>9, <2>1, <2>2 DEF GcOK, Mid
<1>14. Accounts(pages, q, f)
  BY <1>1, GcAccounts DEF GcHead
<1> QED
  BY <1>5, <1>6, <1>12, <1>13, <1>14, GcHeadLayout

\* There is none to be tagged.
LEMMA GcRests ==
  ASSUME NEW pages, NEW q, NEW ch, NEW gc, NEW stack, NEW tk, NEW ds, NEW f,
         Layout(pages, q, ch, gc, stack, tk, ds, f), HeadIs(q, {"GC"}),
         gc.state \in {"BEGIN", "INIT_SWAP"}, NEW other, Collects(other, "BEGIN", 0, gc.swap_page, NULL, {})
  PROVE  Layout(pages, q, ch, other, NULL, tk, ds, f) /\ Accounts(pages, q, f)
<1>1. GcHead(pages, q, ch, gc, tk, ds, f) /\ GcOK(pages, q, gc, stack, f)
  BY GcHeadIs
<1>2. 0 \in Page /\ gc.swap_page \in Page
  BY <1>1, Sizes DEF GcHead, IsGc
<1>3. /\ IsGc(other) /\ other.state = "BEGIN" /\ other.swap_page = gc.swap_page /\ other.p_scan_addr = NULL
  BY <1>2, CollectsIs
<1>4. KindsOK(pages, other, f)
  BY <1>1, <1>3 DEF GcHead, KindsOK, KindNow
<1>5. RoomOK(pages, other)
  BY <1>1, <1>3 DEF GcHead, RoomOK
<1>6. QueueOK(pages, q, other)
  BY <1>1, <1>3, QueueGc DEF GcHead
<1>7. GcHead(pages, q, ch, other, tk, ds, f)
  BY <1>1, <1>3, <1>4, <1>5, <1>6 DEF GcHead
<1>8. GcOK(pages, q, other, NULL, f)
  BY <1>3 DEF GcOK, Mid
<1> QED
  BY <1>7, <1>8, GcHeadLayout

\* The swap page becomes the page that was collected.
LEMMA GcReady ==
  ASSUME NEW pages, NEW q, NEW ch, NEW gc, NEW stack, NEW tk, NEW ds, NEW f,
         Layout(pages, q, ch, gc, stack, tk, ds, f), FlashOK(f), HeadIs(q, {"GC"}),
         gc.state \in {"GC_PAGE", "COPY_RECORD"},
         NEW other, Collects(other, "READY_SWAP", gc.cur_page, gc.swap_page, gc.p_scan_addr, gc.do_gc_page),
         NEW op, op = Store(StartAddr(gc.swap_page), PageTag("valid", "plain"))
  PROVE  SafeOp(f, op) /\ Layout(pages, q, ch, other, NULL, tk, ds, Done(f, op)) /\ Accounts(pages, q, f)
<1>1. GcHead(pages, q, ch, gc, tk, ds, f) /\ GcOK(pages, q, gc, stack, f)
  BY GcHeadIs
<1>2. PICK p \in Page, cur \in Page : p = gc.swap_page /\ cur = gc.cur_page
  BY <1>1 DEF GcHead, IsGc
<1>3. /\ pages[p].page_type = "SWAP" /\ pages[cur].page_type = "VALID" /\ cur # p
      /\ cur \notin gc.do_gc_page /\ gc.do_gc_page \in SUBSET Page /\ \A i \in gc.do_gc_page : pages[i].page_type = "VALID"
  BY <1>1, <1>2 DEF GcOK, Mid, IsGc
<1>4. /\ IsGc(other) /\ other.state = "READY_SWAP" /\ other.cur_page = cur /\ other.swap_page = p
      /\ other.do_gc_page = gc.do_gc_page
  BY <1>2, <1>3, CollectsIs
<1>5. Kind(f, p) = "SWAP" /\ Kind(f, cur) = "GC"
  BY <1>1, <1>2, <1>3 DEF GcHead, KindsOK, KindNow
<1>6. PICK g : g = Done(f, op)
  OBVIOUS
<1>7. SafeOp(f, op) /\ Changes(f, g, p, "VALID", HeadersOf(f, p), End(f, p))
  BY <1>2, <1>5, <1>6, SafeSwapTag
<1>8. /\ Kind(g, p) = "VALID" /\ End(g, p) = End(f, p)
      /\ \A i \in Page : i # p => Kind(g, i) = Kind(f, i) /\ End(g, i) = End(f, i)
  BY <1>7, ChangesAre
<1>9. KindsOK(pages, other, g)
  BY <1>1, <1>2, <1>3, <1>4, <1>5, <1>8 DEF GcHead, KindsOK, KindNow
<1>10. RoomOK(pages, other)
  BY <1>1, <1>2, <1>4 DEF GcHead, RoomOK
<1>11. QueueOK(pages, q, other)
  BY <1>1, <1>4, QueueGc DEF GcHead, Mid
<1>12. \A i \in Page : End(g, i) = StartAddr(i) + pages[i].write_offset
  BY <1>1, <1>8 DEF GcHead
<1>13. GcHead(pages, q, ch, other, tk, ds, g)
  BY <1>1, <1>4, <1>9, <1>10, <1>11, <1>12 DEF GcHead
<1>14. pages[p].write_offset <= pages[cur].write_offset
  <2>1. PICK x \in Nat, y \in Nat : x = pages[p].write_offset /\ y = pages[cur].write_offset
    BY <1>1, PageFields DEF GcHead, PagesTyped
  <2>2. PICK s \in Nat, t \in Nat : s = StartAddr(cur) /\ t = End(f, cur) /\ s + 4 = Base(cur) /\ s + 4 <= t
    BY EndIs
  <2>3. t = s + y
    BY <1>1, <2>1, <2>2 DEF GcHead
  <2>4. CASE gc.state = "GC_PAGE"
    <3>1. x = 4
      BY <1>1, <1>2, <2>1, <2>4 DEF GcOK
    <3> QED
      BY <2>1, <2>2, <2>3, <3>1
  <2>5. CASE gc.state = "COPY_RECORD"
    <3>1. PICK a : a = gc.p_scan_addr
      OBVIOUS
    <3>2. a \in HeadersOf(f, cur) /\ x - 4 <= NextRecord(f, a) - Base(cur)
      BY <1>1, <1>2, <2>1, <2>5, <3>1 DEF GcOK
    <3>3. PICK z \in Nat : z = NextRecord(f, a) /\ z <= t
      BY <2>2, <3>2, HeaderMeans
    <3>4. x - 4 <= z - (s + 4)
      BY <2>2, <3>2, <3>3
    <3>5. x <= y
      BY ONLY <2>3, <3>3, <3>4, x \in Nat, y \in Nat, z \in Nat, s \in Nat, t \in Nat
    <3> QED
      BY <2>1, <3>5
  <2> QED
    BY <2>4, <2>5
<1>15. GcOK(pages, q, other, NULL, g)
  BY <1>3, <1>4, <1>14 DEF GcOK, Mid
<1>16. Accounts(pages, q, f)
  BY <1>1, GcAccounts DEF GcHead
<1> QED
  BY <1>6, <1>7, <1>13, <1>15, <1>16, GcHeadLayout

\* The page is formatted as the swap page.
LEMMA GcFormats ==
  ASSUME NEW pages, NEW q, NEW ch, NEW gc, NEW stack, NEW tk, NEW ds, NEW f,
         Layout(pages, q, ch, gc, stack, tk, ds, f), FlashOK(f), HeadIs(q, {"GC"}), gc.state = "NEW_SWAP",
         NEW other, Collects(other, "INIT_SWAP", gc.cur_page, gc.swap_page, gc.p_scan_addr, gc.do_gc_page),
         NEW op, op = Store(StartAddr(gc.swap_page), PageTag("swap", "plain"))
  PROVE  SafeOp(f, op) /\ Layout(pages, q, ch, other, NULL, tk, ds, Done(f, op)) /\ Accounts(pages, q, f)
<1>1. GcHead(pages, q, ch, gc, tk, ds, f) /\ GcOK(pages, q, gc, stack, f)
  BY GcHeadIs
<1>2. PICK p \in Page, cur \in Page : p = gc.swap_page /\ cur = gc.cur_page
  BY <1>1 DEF GcHead, IsGc
<1>3. /\ pages[p].page_type = "SWAP" /\ gc.do_gc_page \in SUBSET Page
      /\ \A i \in gc.do_gc_page : pages[i].page_type = "VALID"
  BY <1>1, <1>2 DEF GcOK, Mid, IsGc
<1>4. /\ IsGc(other) /\ other.state = "INIT_SWAP" /\ other.swap_page = p
      /\ other.do_gc_page = gc.do_gc_page
  BY <1>2, <1>3, CollectsIs
<1>5. Kind(f, p) = "ERASED" /\ \A i \in Page : i # p => Kind(f, i) = pages[i].page_type
  BY <1>1, <1>2 DEF GcHead, KindsOK, KindNow
<1>6. PICK g : g = Done(f, op)
  OBVIOUS
<1>7. SafeOp(f, op) /\ Changes(f, g, p, "SWAP", {}, Base(p))
  <2>1. op = Store(StartAddr(p), PageTag("swap", "plain"))
    BY <1>2
  <2> QED
    BY <1>5, <1>6, <2>1, SafeTag
<1>8. /\ Kind(g, p) = "SWAP" /\ End(g, p) = Base(p)
      /\ \A i \in Page : i # p => Kind(g, i) = Kind(f, i) /\ End(g, i) = End(f, i)
  BY <1>7, ChangesAre
<1>9. KindsOK(pages, other, g)
  BY <1>3, <1>4, <1>5, <1>8 DEF KindsOK, KindNow
<1>10. RoomOK(pages, other) /\ pages[p].write_offset = 4
  BY <1>1, <1>2, <1>3, <1>4 DEF GcHead, RoomOK
<1>11. QueueOK(pages, q, other)
  BY <1>1, <1>4, QueueGc DEF GcHead, Mid
<1>12. \A i \in Page : End(g, i) = StartAddr(i) + pages[i].write_offset
  <2>1. Base(p) = StartAddr(p) + 4
    BY PageIs
  <2> QED
    BY <1>1, <1>8, <1>10, <2>1 DEF GcHead
<1>13. GcHead(pages, q, ch, other, tk, ds, g)
  BY <1>1, <1>4, <1>9, <1>10, <1>11, <1>12 DEF GcHead
<1>14. GcOK(pages, q, other, NULL, g)
  BY <1>3, <1>4 DEF GcOK, Mid
<1>15. Accounts(pages, q, f)
  BY <1>1, GcAccounts DEF GcHead
<1> QED
  BY <1>6, <1>7, <1>13, <1>14, <1>15, GcHeadLayout

\* Where the search for the next record of the page begins.
From(gc, f) == IF gc.p_scan_addr = NULL THEN Base(gc.cur_page) ELSE NextRecord(f, gc.p_scan_addr)
FoundFrom(gc, f) == {a \in Headers(f, From(gc, f), EndAddr(gc.cur_page)) : HeaderIsValid(f, a)}

\* A record that is found, how many words it has, and where it goes.
CopyAt(pages, gc, f, a, m, wo, p, cur, dst) ==
  /\ p = gc.swap_page /\ cur = gc.cur_page /\ p # cur
  /\ a \in HeadersOf(f, cur) /\ m = LengthWords(f[a]) /\ NextRecord(f, a) = a + 3 + m /\ f[a] = TL(m, "valid")
  /\ wo = pages[p].write_offset /\ dst = StartAddr(p) + wo /\ dst = End(f, p) /\ dst + 3 + m < EndAddr(p)
  /\ wo - 4 <= a - Base(cur)

\* A record that the collector finds fits into the swap page, behind the ones copied.
LEMMA CopyFound ==
  ASSUME NEW pages, NEW q, NEW ch, NEW gc, NEW stack, NEW tk, NEW ds, NEW f,
         Layout(pages, q, ch, gc, stack, tk, ds, f), FlashOK(f), HeadIs(q, {"GC"}),
         gc.state \in {"GC_PAGE", "COPY_RECORD"}, NEW a \in FoundFrom(gc, f)
  PROVE  \E m \in Nat, wo \in Nat, dst \in Nat, p \in Page, cur \in Page :
           CopyAt(pages, gc, f, a, m, wo, p, cur, dst)
<1>1. GcHead(pages, q, ch, gc, tk, ds, f) /\ GcOK(pages, q, gc, stack, f)
  BY GcHeadIs
<1>2. PICK p \in Page, cur \in Page : p = gc.swap_page /\ cur = gc.cur_page
  BY <1>1 DEF GcHead, IsGc
<1>3. pages[p].page_type = "SWAP" /\ pages[cur].page_type = "VALID" /\ cur # p
  BY <1>1, <1>2 DEF GcOK, Mid
<1>4. PICK wo \in Nat : wo = pages[p].write_offset
  BY <1>1, PageFields DEF GcHead, PagesTyped
<1>5. PICK s \in Nat, t \in Nat, z \in Nat :
        /\ s = StartAddr(cur) /\ t = End(f, cur) /\ s + 4 = Base(cur) /\ s + 4 <= t /\ t < z /\ z = s + Size
        /\ Laid(f, cur, HeadersOf(f, cur), t)
  BY EndIs
<1>6. PICK from : from = From(gc, f)
  OBVIOUS
<1>7. from \in Nat /\ from \in HeadersOf(f, cur) \cup {t} /\ wo - 4 <= from - Base(cur)
  <2>1. CASE gc.state = "GC_PAGE"
    <3>1. gc.p_scan_addr = NULL /\ wo = 4
      BY <1>1, <1>2, <1>4, <2>1 DEF GcOK
    <3>2. from = Base(cur)
      BY <1>2, <1>6, <3>1 DEF From
    <3>3. Base(cur) \in HeadersOf(f, cur) \cup {t}
      BY <1>5 DEF Laid
    <3>4. from = s + 4 /\ wo - 4 <= from - (s + 4)
      BY ONLY <1>5, <3>1, <3>2, s \in Nat
    <3> QED
      BY <1>5, <3>2, <3>3, <3>4
  <2>2. CASE gc.state = "COPY_RECORD"
    <3>1. PICK b : b = gc.p_scan_addr
      OBVIOUS
    <3>2. b \in HeadersOf(f, cur) /\ wo - 4 <= NextRecord(f, b) - Base(cur)
      BY <1>1, <1>2, <1>4, <2>2, <3>1 DEF GcOK
    <3>3. b \in Nat /\ NextRecord(f, b) \in Nat
      BY <3>2, HeaderMeans
    <3>4. b # NULL
      BY <3>3 DEF NULL
    <3>5. from = NextRecord(f, b)
      BY <1>6, <3>1, <3>4 DEF From
    <3>6. NextRecord(f, b) \in HeadersOf(f, cur) \cup {t}
      BY <1>5, <3>2 DEF Laid
    <3> QED
      BY <3>2, <3>3, <3>5, <3>6
  <2> QED
    BY <2>1, <2>2
<1>8. Headers(f, from, EndAddr(cur)) = {b \in HeadersOf(f, cur) : b >= from}
  <2>1. WordsOK(f)
    BY DEF FlashOK
  <2> QED
    BY <1>5, <1>7, <2>1, LaidWalk
<1>9. a \in HeadersOf(f, cur) /\ a >= from /\ HeaderIsValid(f, a)
  BY <1>2, <1>6, <1>8 DEF FoundFrom
<1>10. PICK m \in Nat : m = LengthWords(f[a]) /\ a \in Nat /\ NextRecord(f, a) = a + 3 + m /\ a + 3 + m <= t
  BY <1>5, <1>9, HeaderMeans
<1>11. f[a] = TL(m, "valid")
  <2>1. PICK n \in Nat, v \in {"valid", "invalid"} :
           f[a] = TL(n, v) /\ n = LengthWords(f[a]) /\ f[a][3] = v
    BY <1>5, <1>9, HeaderIs
  <2>2. v = "valid" /\ n = m
    BY <1>9, <1>10, <2>1 DEF HeaderIsValid
  <2> QED
    BY <2>1, <2>2
<1>12. PICK y \in Nat, x \in Nat : y = StartAddr(p) /\ x = EndAddr(p) /\ x = y + Size /\ Size \in Nat
  BY PageIs, Sizes
<1>13. PICK dst \in Nat : dst = y + wo
  OBVIOUS
<1>14. dst = End(f, p)
  BY <1>1, <1>4, <1>12, <1>13 DEF GcHead
<1>15. wo - 4 <= a - (s + 4)
  <2>1. wo - 4 <= from - (s + 4)
    BY <1>5, <1>7
  <2>2. from \in Nat /\ a >= from
    BY <1>7, <1>9
  <2> QED
    BY ONLY <2>1, <2>2, <1>10, wo \in Nat, s \in Nat
<1>16. dst + 3 + m < x
  BY ONLY <1>5, <1>10, <1>12, <1>13, <1>15, wo \in Nat, s \in Nat, t \in Nat, m \in Nat, y \in Nat
<1>17. CopyAt(pages, gc, f, a, m, wo, p, cur, dst)
  BY <1>2, <1>3, <1>4, <1>5, <1>9, <1>10, <1>11, <1>12, <1>13, <1>14, <1>15, <1>16 DEF CopyAt
<1> QED
  BY <1>17

\* The next record is copied.
WordsAt(f, a, n, words) == words = [i \in 1 .. n |-> f[a + i - 1]]

\* Copying it keeps the layout.
LEMMA GcCopies ==
  ASSUME NEW pages, NEW q, NEW ch, NEW gc, NEW stack, NEW tk, NEW ds, NEW f,
         Layout(pages, q, ch, gc, stack, tk, ds, f), FlashOK(f), HeadIs(q, {"GC"}),
         gc.state \in {"GC_PAGE", "COPY_RECORD"}, NEW a,
         NEW m \in Nat, NEW wo \in Nat, NEW dst \in Nat, NEW p \in Page, NEW cur \in Page,
         CopyAt(pages, gc, f, a, m, wo, p, cur, dst),
         NEW other, Collects(other, "COPY_RECORD", cur, p, a, gc.do_gc_page),
         NEW b \in Nat, b = pages[p].words_reserved, NEW after, NEW x \in Nat, x = wo + (3 + m), Numbers(pages, p, x, b, after),
         NEW words, NEW k \in Nat, k = 3 + m, WordsAt(f, a, k, words), NEW op, op = Store(dst, words)
  PROVE  SafeOp(f, op) /\ Layout(after, q, ch, other, NULL, tk, ds, Done(f, op)) /\ Accounts(after, q, f)
<1>0. words = [i \in 1 .. 3 + m |-> f[a + i - 1]]
  BY DEF WordsAt
<1>1. GcHead(pages, q, ch, gc, tk, ds, f) /\ GcOK(pages, q, gc, stack, f)
  BY GcHeadIs
<1>2. /\ pages[p].page_type = "SWAP" /\ pages[cur].page_type = "VALID" /\ cur # p /\ p = gc.swap_page /\ cur = gc.cur_page
      /\ cur \notin gc.do_gc_page /\ gc.do_gc_page \in SUBSET Page /\ \A i \in gc.do_gc_page : pages[i].page_type = "VALID"
  BY <1>1 DEF GcOK, Mid, CopyAt, IsGc
<1>3. /\ IsGc(other) /\ other.state = "COPY_RECORD" /\ other.cur_page = cur /\ other.swap_page = p
      /\ other.p_scan_addr = a /\ other.do_gc_page = gc.do_gc_page
  BY <1>2, CollectsIs
<1>4. Kind(f, p) = "SWAP" /\ Kind(f, cur) = "GC"
  BY <1>1, <1>2 DEF GcHead, KindsOK, KindNow
<1>5. PICK g : g = Done(f, op)
  OBVIOUS
<1>6. /\ a \in HeadersOf(f, cur) /\ m = LengthWords(f[a]) /\ NextRecord(f, a) = a + 3 + m /\ f[a] = TL(m, "valid")
      /\ wo = pages[p].write_offset /\ dst = StartAddr(p) + wo /\ dst = End(f, p) /\ dst + 3 + m < EndAddr(p)
      /\ wo - 4 <= a - Base(cur)
  BY DEF CopyAt
<1>7. PICK s \in Nat, t \in Nat, z \in Nat :
        /\ s = StartAddr(cur) /\ t = End(f, cur) /\ z = EndAddr(cur) /\ s + 4 = Base(cur)
        /\ a \in Nat /\ s + 4 <= a /\ a + 3 + m <= t /\ t < z
  BY <1>6, HeaderMeans
<1>8. \A i \in 1 .. 3 + m : WordOK(words[i])
  <2> SUFFICES ASSUME NEW i \in 1 .. 3 + m PROVE WordOK(f[a + i - 1])
    BY <1>0
  <2>1. a + i - 1 \in Int /\ StartAddr(cur) <= a + i - 1 /\ a + i - 1 < EndAddr(cur)
    BY <1>7
  <2>2. a + i - 1 \in Address
    BY <2>1, PageWords
  <2> QED
    BY <2>2 DEF FlashOK, WordsOK
<1>9. IsList(words) /\ Len(words) = 3 + m /\ words[1] = TL(m, "valid") /\ IdOK(words[3])
  <2>1. IsList(words) /\ Len(words) = 3 + m
    <3>1. 3 + m \in Nat /\ words = [i \in 1 .. 3 + m |-> words[i]]
      BY <1>0
    <3> QED
      BY <3>1, ListOf
  <2>2. words[1] = f[a + 1 - 1] /\ words[3] = f[a + 3 - 1] /\ a + 1 - 1 = a /\ a + 3 - 1 = a + 2
    BY <1>0, <1>7
  <2>3. IdOK(f[a + 2])
    BY <1>6, EndIs
  <2> QED
    BY <1>6, <2>1, <2>2, <2>3
<1>10. RecordMade(f, op, g, p, dst, m, words)
  <2>1. 1 <= Len(words) /\ Len(words) <= 3 + m /\ \A i \in 1 .. Len(words) : WordOK(words[i])
    BY <1>8, <1>9
  <2>2. Kind(f, p) = "SWAP" /\ \E i \in Page : Kind(f, i) = "GC"
    BY <1>4
  <2> QED
    BY <1>5, <1>6, <1>9, <2>1, <2>2, SafeRecord
<1>11. SafeOp(f, op) /\ Changes(f, g, p, "SWAP", HeadersOf(f, p) \cup {dst}, dst + 3 + m)
  BY <1>4, <1>10 DEF RecordMade
<1>12. /\ Kind(g, p) = "SWAP" /\ End(g, p) = dst + 3 + m /\ HeadersOf(g, cur) = HeadersOf(f, cur)
       /\ \A i \in Page : i # p => Kind(g, i) = Kind(f, i) /\ End(g, i) = End(f, i)
  BY <1>2, <1>11, ChangesAre
<1>13. g[a] = f[a]
  <2>1. Same(f, g, cur)
    BY <1>2, <1>11 DEF Changes
  <2>2. a \in StartAddr(cur) .. EndAddr(cur) - 1
    BY <1>7
  <2> QED
    BY <2>1, <2>2 DEF Same
<1>14. x = wo + (3 + m)
  OBVIOUS
<1>15. /\ Alters(pages, after) /\ after[p].write_offset = x /\ after[p].words_reserved = b
       /\ \A i \in Page : i # p => after[i] = pages[i]
  <2>1. Numbers(pages, p, x, b, after) /\ PagesTyped(pages)
    BY <1>1, <1>14 DEF GcHead
  <2> QED
    BY <2>1, NumbersAre
<1>16. \A i \in Page : after[i].page_type = pages[i].page_type /\ after[i].vpage_id = pages[i].vpage_id
  BY <1>15 DEF Alters
<1>17. AlteredOK(after, q, gc, stack, tk, ds, f)
  BY <1>15, PagesAlter
<1>18. KindsOK(after, other, g)
  BY <1>1, <1>2, <1>3, <1>4, <1>12, <1>16 DEF GcHead, KindsOK, KindNow
<1>19. RoomOK(after, other)
  <2>1. b = 0
    BY <1>1, <1>2 DEF GcHead, RoomOK
  <2> QED
    BY <1>1, <1>2, <1>3, <1>15, <1>16, <2>1 DEF GcHead, RoomOK
<1>20. QueueOK(after, q, other)
  BY <1>3, <1>17, QueueGc DEF AlteredOK, Mid
<1>21. \A i \in Page : End(g, i) = StartAddr(i) + after[i].write_offset
  <2>1. dst + 3 + m = StartAddr(p) + x
    <3>1. PICK y \in Nat : y = StartAddr(p)
      BY PageIs
    <3>2. dst = y + wo
      BY <1>6, <3>1
    <3>3. dst + 3 + m = y + x
      BY ONLY <1>14, <3>2, wo \in Nat, m \in Nat, y \in Nat
    <3> QED
      BY <3>1, <3>3
  <2> QED
    BY <1>1, <1>12, <1>15, <2>1 DEF GcHead
<1>22. SpaceOK(after, q, tk)
  BY <1>1, <1>2, <1>15, <1>16, <1>17 DEF GcHead, SpaceOK, AlteredOK
<1>23. GcHead(after, q, ch, other, tk, ds, g)
  BY <1>1, <1>3, <1>17, <1>18, <1>19, <1>20, <1>21, <1>22 DEF GcHead, AlteredOK
<1>24. GcOK(after, q, other, NULL, g)
  <2>1. NextRecord(g, a) = a + 3 + m
    BY <1>6, <1>13, NextSame
  <2>2. x - 4 <= NextRecord(g, a) - Base(cur)
    <3>1. wo - 4 <= a - (s + 4) /\ a \in Nat
      BY <1>6, <1>7
    <3>2. x - 4 <= (a + 3 + m) - (s + 4)
      BY ONLY <1>14, <3>1, wo \in Nat, m \in Nat, s \in Nat
    <3> QED
      BY <1>7, <2>1, <3>2
  <2>3. a \in HeadersOf(g, cur)
    BY <1>6, <1>12
  <2>4. \A i \in gc.do_gc_page : after[i].page_type = "VALID"
    BY <1>2, <1>16
  <2> QED
    BY <1>2, <1>3, <1>15, <1>16, <2>2, <2>3, <2>4 DEF GcOK, Mid
<1>25. \A i \in Page : after[i].page_type = "VALID" => End(f, i) = StartAddr(i) + after[i].write_offset
  BY <1>1, <1>2, <1>15, <1>16 DEF GcHead
<1>26. Accounts(after, q, f)
  BY <1>25 DEF Accounts
<1> QED
  BY <1>5, <1>11, <1>23, <1>24, <1>26, GcHeadLayout

\* Page p takes the place of page cur.
Swaps(pages, p, cur, after) ==
  after = [pages EXCEPT
             ![p].page_type = "VALID", ![p].vpage_id = pages[cur].vpage_id,
             ![p].words_reserved = pages[cur].words_reserved,
             ![cur] = [@ EXCEPT !.page_type = "SWAP", !.words_reserved = 0,
                                !.vpage_id = pages[p].vpage_id, !.write_offset = FDS_PAGE_TAG_SIZE]]
SwapsTo(pages, p, cur, after) ==
  /\ PagesTyped(after)
  /\ after[p].page_type = "VALID" /\ after[p].vpage_id = pages[cur].vpage_id
  /\ after[p].words_reserved = pages[cur].words_reserved /\ after[p].write_offset = pages[p].write_offset
  /\ after[cur].page_type = "SWAP" /\ after[cur].vpage_id = pages[p].vpage_id
  /\ after[cur].words_reserved = 0 /\ after[cur].write_offset = 4
  /\ \A i \in Page : i # p /\ i # cur => after[i] = pages[i]

\* What changes when two pages change places.
LEMMA SwapsAre ==
  ASSUME NEW pages, PagesTyped(pages), NEW p \in Page, NEW cur \in Page, p # cur, NEW after,
         Swaps(pages, p, cur, after)
  PROVE  SwapsTo(pages, p, cur, after)
<1>1. PICK d, c : d = [pages[p] EXCEPT !.page_type = "VALID", !.vpage_id = pages[cur].vpage_id,
                                       !.words_reserved = pages[cur].words_reserved]
                  /\ c = [pages[cur] EXCEPT !.page_type = "SWAP", !.words_reserved = 0,
                                            !.vpage_id = pages[p].vpage_id, !.write_offset = 4]
  OBVIOUS
<1>2. IsPage(pages[p]) /\ IsPage(pages[cur])
  BY DEF PagesTyped
<1>3. /\ IsPage(d) /\ d.page_type = "VALID" /\ d.vpage_id = pages[cur].vpage_id
      /\ d.words_reserved = pages[cur].words_reserved /\ d.write_offset = pages[p].write_offset
  BY <1>1, <1>2 DEF IsPage, PageTypes
<1>4. /\ IsPage(c) /\ c.page_type = "SWAP" /\ c.vpage_id = pages[p].vpage_id
      /\ c.words_reserved = 0 /\ c.write_offset = 4
  BY <1>1, <1>2 DEF IsPage, PageTypes
<1>5. after[p] = d /\ after[cur] = c /\ \A i \in Page : i # p /\ i # cur => after[i] = pages[i]
  BY <1>1, <1>2 DEF Swaps, PagesTyped, FDS_PAGE_TAG_SIZE
<1>6. PagesTyped(after)
  <2>1. \A i \in Page : IsPage(after[i])
    BY <1>3, <1>4, <1>5 DEF PagesTyped
  <2>2. after = [i \in Page |-> after[i]]
    BY DEF Swaps, PagesTyped
  <2> QED
    BY <2>1, <2>2 DEF PagesTyped
<1> QED
  BY <1>3, <1>4, <1>5, <1>6 DEF SwapsTo

\* The page collected may be erased once the swap page has taken its place.
LEMMA GcSwaps ==
  ASSUME NEW pages, NEW q, NEW ch, NEW gc, NEW stack, NEW tk, NEW ds, NEW f,
         Layout(pages, q, ch, gc, stack, tk, ds, f), FlashOK(f), HeadIs(q, {"GC"}), gc.state = "READY_SWAP",
         NEW p \in Page, NEW cur \in Page, p = gc.swap_page, cur = gc.cur_page,
         NEW other, Collects(other, "NEW_SWAP", cur, cur, gc.p_scan_addr, gc.do_gc_page),
         NEW after, Swaps(pages, p, cur, after), NEW op, op = Erase(cur)
  PROVE  SafeOp(f, op) /\ Layout(after, q, ch, other, NULL, tk, ds, Done(f, op)) /\ Accounts(after, q, f)
<1>1. GcHead(pages, q, ch, gc, tk, ds, f) /\ GcOK(pages, q, gc, stack, f)
  BY GcHeadIs
<1>2. /\ pages[p].page_type = "SWAP" /\ pages[cur].page_type = "VALID" /\ cur # p
      /\ cur \notin gc.do_gc_page /\ gc.do_gc_page \in SUBSET Page /\ \A i \in gc.do_gc_page : pages[i].page_type = "VALID"
      /\ pages[p].write_offset <= pages[cur].write_offset
  BY <1>1 DEF GcOK, Mid, IsGc
<1>3. /\ IsGc(other) /\ other.state = "NEW_SWAP" /\ other.cur_page = cur /\ other.swap_page = cur
      /\ other.do_gc_page = gc.do_gc_page
  BY <1>2, CollectsIs
<1>4. SwapsTo(pages, p, cur, after) /\ PagesTyped(pages)
  BY <1>1, <1>2, SwapsAre DEF GcHead
<1>5. Kind(f, p) = "VALID" /\ Kind(f, cur) = "GC" /\ \A i \in Page : i # p /\ i # cur => Kind(f, i) = pages[i].page_type
  BY <1>1, <1>2 DEF GcHead, KindsOK, KindNow
<1>6. PICK g : g = Done(f, op)
  OBVIOUS
<1>7. SafeOp(f, op) /\ Changes(f, g, cur, "ERASED", {}, Base(cur))
  <2>1. ASSUME NEW i \in Page, i # cur, Kind(f, i) = "SWAP" PROVE End(f, i) = Base(i)
    <3>1. i # p /\ pages[i].page_type = "SWAP"
      BY <1>5, <2>1
    <3>2. pages[i].write_offset = 4
      BY <1>1, <3>1 DEF GcHead, RoomOK
    <3> QED
      BY <1>1, <3>2, PageIs DEF GcHead
  <2> QED
    BY <1>6, <2>1, SafeErase
<1>8. /\ Kind(g, cur) = "ERASED" /\ End(g, cur) = Base(cur)
      /\ \A i \in Page : i # cur => Kind(g, i) = Kind(f, i) /\ End(g, i) = End(f, i)
  BY <1>7, ChangesAre
<1>9. Apart(after)
  <2>1. Apart(pages)
    BY <1>1 DEF GcHead
  <2>2. \A i \in Page : after[i].vpage_id = pages[IF i = p THEN cur ELSE IF i = cur THEN p ELSE i].vpage_id
    BY <1>2, <1>4 DEF SwapsTo
  <2> QED
    BY <1>2, <2>1, <2>2 DEF Apart
<1>10. \A v : ValidPage(pages, v) => ValidPage(after, v)
  <2> SUFFICES ASSUME NEW v, ValidPage(pages, v) PROVE ValidPage(after, v)
    OBVIOUS
  <2>1. PICK i \in Page : pages[i].page_type = "VALID" /\ pages[i].vpage_id = v
    BY DEF ValidPage
  <2>2. CASE i = cur
    BY <1>4, <2>1, <2>2 DEF SwapsTo, ValidPage
  <2>3. CASE i # cur
    <3>1. i # p
      BY <1>2, <2>1
    <3> QED
      BY <1>4, <2>1, <2>3, <3>1 DEF SwapsTo, ValidPage
  <2> QED
    BY <2>2, <2>3
<1>11. KindsOK(after, other, g)
  <2> SUFFICES ASSUME NEW i \in Page PROVE Kind(g, i) = KindNow(after, other, i)
    BY DEF KindsOK
  <2>1. CASE i = cur
    BY <1>3, <1>8, <2>1 DEF KindNow
  <2>2. CASE i = p
    BY <1>2, <1>3, <1>4, <1>5, <1>8, <2>2 DEF KindNow, SwapsTo
  <2>3. CASE i # p /\ i # cur
    BY <1>3, <1>4, <1>5, <1>8, <2>3 DEF KindNow, SwapsTo
  <2> QED
    BY <2>1, <2>2, <2>3
<1>12. RoomOK(after, other)
  <2>1. PICK x \in Nat, y \in Nat, b \in Nat :
          x = pages[p].write_offset /\ y = pages[cur].write_offset /\ b = pages[cur].words_reserved
    BY <1>4, PageFields DEF PagesTyped
  <2>2. x <= y /\ y + b < Size /\ Size \in Nat
    BY <1>1, <1>2, <2>1, Sizes DEF GcHead, RoomOK, Size
  <2>3. x + b < Size
    BY ONLY <2>2, x \in Nat, y \in Nat, b \in Nat
  <2> SUFFICES ASSUME NEW i \in Page
               PROVE  /\ after[i].page_type # "VALID" => after[i].words_reserved = 0
                      /\ after[i].page_type = "VALID" => after[i].write_offset + after[i].words_reserved < FS_PAGE_SIZE_WORDS
                      /\ after[i].page_type = "SWAP" => after[i].write_offset = 4
    BY DEF RoomOK
  <2>4. CASE i = cur
    BY <1>4, <2>4 DEF SwapsTo
  <2>5. CASE i = p
    BY <1>4, <2>1, <2>3, <2>5 DEF SwapsTo, Size
  <2>6. CASE i # p /\ i # cur
    BY <1>1, <1>4, <2>6 DEF SwapsTo, GcHead, RoomOK
  <2> QED
    BY <2>4, <2>5, <2>6
<1>13. QueueOK(after, q, other)
  <2>1. QueueOK(after, q, gc)
    BY <1>1, <1>10, QueuePages DEF GcHead
  <2> QED
    BY <1>3, <2>1, QueueGc DEF Mid
<1>14. \A i \in Page : End(g, i) = StartAddr(i) + after[i].write_offset
  <2> SUFFICES ASSUME NEW i \in Page PROVE End(g, i) = StartAddr(i) + after[i].write_offset
    OBVIOUS
  <2>1. CASE i = cur
    BY <1>4, <1>8, <2>1, PageIs DEF SwapsTo
  <2>2. CASE i # cur
    BY <1>1, <1>4, <1>8, <2>2 DEF SwapsTo, GcHead
  <2> QED
    BY <2>1, <2>2
<1>15. SpaceOK(after, q, tk)
  <2>1. TokenOK(after, tk)
    BY <1>1, <1>10 DEF GcHead, SpaceOK, TokenOK
  <2>2. ASSUME NEW i \in Page, after[i].page_type = "VALID"
        PROVE  DueWithin(q, tk, after[i].vpage_id, after[i].words_reserved)
    <3>1. i # cur
      BY <1>4, <2>2 DEF SwapsTo
    <3>2. CASE i = p
      BY <1>1, <1>2, <1>4, <3>2 DEF SwapsTo, GcHead, SpaceOK
    <3>3. CASE i # p
      BY <1>1, <1>4, <2>2, <3>1, <3>3 DEF SwapsTo, GcHead, SpaceOK
    <3> QED
      BY <3>2, <3>3
  <2> QED
    BY <2>1, <2>2 DEF SpaceOK
<1>16. DescsOK(after, ds)
  BY <1>1, <1>10 DEF GcHead, DescsOK, IsDesc
<1>17. GcHead(after, q, ch, other, tk, ds, g)
  BY <1>1, <1>3, <1>4, <1>9, <1>11, <1>12, <1>13, <1>14, <1>15, <1>16 DEF GcHead, SwapsTo
<1>18. GcOK(after, q, other, NULL, g)
  <2>1. \A i \in gc.do_gc_page : after[i].page_type = "VALID"
    BY <1>2, <1>4 DEF SwapsTo
  <2> QED
    BY <1>3, <1>4, <2>1 DEF GcOK, Mid, SwapsTo
<1>19. \A i \in Page : after[i].page_type = "VALID" => End(f, i) = StartAddr(i) + after[i].write_offset
  BY <1>1, <1>4 DEF GcHead, SwapsTo
<1>20. Accounts(after, q, f)
  BY <1>19 DEF Accounts
<1> QED
  BY <1>6, <1>7, <1>17, <1>18, <1>20, GcHeadLayout

--------------------------------------------------------------------------------

(* What the calls of the client do. *)

\* The offsets stay.
SameOffsets(pages, other) == \A i \in Page : other[i].write_offset = pages[i].write_offset

\* Space is reserved, or freed.
LEMMA LayoutReserves ==
  ASSUME NEW pages, NEW q, NEW ch, NEW gc, NEW stack, NEW tk, NEW ds, NEW f,
         Layout(pages, q, ch, gc, stack, tk, ds, f), NEW other, Alters(pages, other), SameOffsets(pages, other),
         RoomOK(other, gc), NEW new, SpaceOK(other, q, new)
  PROVE  Layout(other, q, ch, gc, stack, new, ds, f)
<1>1. AlteredOK(other, q, gc, stack, tk, ds, f)
  BY PagesAlter
<1>2. EndsOK(pages, q, f) /\ ChunksOK(q, ch) /\ GcOK(pages, q, gc, stack, f)
  BY DEF Layout, PagesOK
<1>3. \A i \in Page : /\ other[i].page_type = pages[i].page_type /\ other[i].vpage_id = pages[i].vpage_id
                      /\ other[i].write_offset = pages[i].write_offset
  BY DEF Alters, SameOffsets
<1>4. EndsOK(other, q, f)
  BY <1>2, <1>3 DEF EndsOK
<1>5. GcOK(other, q, gc, stack, f)
  BY <1>2, <1>3 DEF GcOK, IsGc
<1> QED
  BY <1>1, <1>2, <1>4, <1>5 DEF Layout, PagesOK, AlteredOK

\* A command comes, and with it another token and other reservations.
Asks(q, gc, c, after) ==
  \/ c.id # "GC" /\ after = gc
  \/ c.id = "GC" /\ Collects(after, "BEGIN", gc.cur_page, gc.swap_page, gc.p_scan_addr, gc.do_gc_page)
     /\ \A n \in 1 .. Len(q) : q[n].id # "GC"

\* A command that comes at the end of the queue keeps the layout.
LEMMA LayoutAppends ==
  ASSUME NEW pages, NEW q, NEW ch, NEW gc, NEW stack, NEW tk, NEW ds, NEW f,
         Layout(pages, q, ch, gc, stack, tk, ds, f), NEW other, Alters(pages, other), SameOffsets(pages, other),
         RoomOK(other, gc), NEW c, CmdOK(pages, c), Fresh(c), NEW after, Asks(q, gc, c, after),
         NEW dh, ChunksOK(Append(q, c), dh), NEW new, SpaceOK(other, Append(q, c), new)
  PROVE  Layout(other, Append(q, c), dh, after, stack, new, ds, f)
<1>1. AlteredOK(other, q, gc, stack, tk, ds, f)
  BY PagesAlter
<1>2. EndsOK(pages, q, f) /\ GcOK(pages, q, gc, stack, f) /\ QueueOK(pages, q, gc)
  BY DEF Layout, PagesOK
<1>3. \A i \in Page : /\ other[i].page_type = pages[i].page_type /\ other[i].vpage_id = pages[i].vpage_id
                      /\ other[i].write_offset = pages[i].write_offset
  BY DEF Alters, SameOffsets
<1>4. IsGc(gc) /\ gc.cur_page \in Page /\ gc.swap_page \in Page /\ gc.do_gc_page \in SUBSET Page
  BY <1>2 DEF GcOK, IsGc
<1>5. c.id = "GC" => /\ IsGc(after) /\ after.state = "BEGIN" /\ after.swap_page = gc.swap_page
                     /\ after.p_scan_addr = gc.p_scan_addr
  BY <1>4, CollectsIs DEF Asks
<1>6. c.id = "GC" => gc.state \notin Mid
  <2>1. c.id = "GC" => \A n \in 1 .. Len(q) : q[n].id # "GC"
    BY DEF Asks
  <2>2. q # <<>> => 1 \in 1 .. Len(q) /\ Head(q) = q[1]
    BY <1>2, QueueWords
  <2> QED
    BY <1>2, <2>1, <2>2 DEF GcOK, HeadIs
<1>7. CmdOK(other, c)
  <2>1. \A v : ValidPage(pages, v) => ValidPage(other, v)
    BY <1>3 DEF ValidPage
  <2> QED
    BY <2>1 DEF CmdOK
<1>8. /\ QueueOK(other, Append(q, c), after) /\ Append(q, c) # <<>>
      /\ (q # <<>> => Head(Append(q, c)) = Head(q)) /\ (q = <<>> => Append(q, c) = <<c>>)
  <2>1. QueueOK(other, q, gc)
    BY <1>1 DEF AlteredOK
  <2>2. \/ c.id # "GC" /\ after = gc
        \/ c.id = "GC" /\ after.state = "BEGIN" /\ \A n \in 1 .. Len(q) : q[n].id # "GC"
    BY <1>5 DEF Asks
  <2> QED
    BY <1>7, <2>1, <2>2, QueueAppend
<1>9. \A v : Extra(Append(q, c), v) = Extra(q, v)
  <2>1. CASE q # <<>>
    BY <1>8, <2>1 DEF Extra, HeadIs
  <2>2. CASE q = <<>>
    <3>1. Head(Append(q, c)) = c
      BY <1>8, <2>2
    <3>2. \A v : Extra(Append(q, c), v) = 0
      BY <1>8, <3>1, NoExtra DEF QueueOK
    <3>3. \A v : Extra(q, v) = 0
      BY <2>2 DEF Extra, HeadIs
    <3> QED
      BY <3>2, <3>3
  <2> QED
    BY <2>1, <2>2
<1>10. EndsOK(other, Append(q, c), f)
  BY <1>2, <1>3, <1>9 DEF EndsOK
<1>11. KindsOK(other, after, f) /\ RoomOK(other, after)
  <2>1. CASE c.id # "GC"
    BY <1>1, <2>1 DEF Asks, AlteredOK
  <2>2. CASE c.id = "GC"
    BY <1>1, <1>5, <1>6, <2>2 DEF AlteredOK, KindsOK, KindNow, RoomOK, Mid
  <2> QED
    BY <2>1, <2>2
<1>12. GcOK(other, Append(q, c), after, stack, f)
  <2>1. CASE c.id # "GC"
    <3>1. after = gc
      BY <2>1 DEF Asks
    <3>2. HeadIs(q, {"GC"}) => HeadIs(Append(q, c), {"GC"})
      BY <1>8 DEF HeadIs
    <3> QED
      BY <1>2, <1>3, <1>4, <3>1, <3>2 DEF GcOK, Mid
  <2>2. CASE c.id = "GC"
    BY <1>2, <1>5, <1>6, <2>2 DEF GcOK, Mid
  <2> QED
    BY <2>1, <2>2
<1> QED
  BY <1>1, <1>8, <1>10, <1>11, <1>12 DEF Layout, PagesOK, AlteredOK

\* Nothing but the descriptors.
LEMMA LayoutDescs ==
  ASSUME NEW pages, NEW q, NEW ch, NEW gc, NEW stack, NEW tk, NEW ds, NEW f,
         Layout(pages, q, ch, gc, stack, tk, ds, f), NEW new, DescsOK(pages, new)
  PROVE  Layout(pages, q, ch, gc, stack, tk, new, f)
BY DEF Layout

\* The lengths of a record's chunks are positive numbers.
LEMMA LengthsAre ==
  ASSUME NEW lengths \in ChunkLists
  PROVE  /\ IsList(lengths) /\ Len(lengths) \in Nat /\ Len(lengths) >= 1 /\ SumOf(lengths) \in Nat
         /\ \A i \in 1 .. Len(lengths) : lengths[i] \in Nat /\ lengths[i] >= 1
<1>1. lengths # <<>> /\ lengths \in Seq(Nat \ {0})
  BY FdsAssumption
<1>2. IsList(lengths)
  BY <1>1 DEF IsList
<1>3. Len(lengths) \in Nat /\ Len(lengths) >= 1
  BY <1>1, <1>2, ListIs
<1>4. \A i \in 1 .. Len(lengths) : lengths[i] \in Nat /\ lengths[i] >= 1
  BY <1>1
<1>5. PICK n \in Nat : n = Len(lengths)
  BY <1>3
<1>6. SumOf(lengths) \in Nat
  BY <1>4, <1>5, SumOfIs
<1> QED
  BY <1>2, <1>3, <1>4, <1>6

\* The words that a reservation stands for, page by page.
LEMMA TokenWordsAre ==
  ASSUME NEW pages, NEW tk, TokenOK(pages, tk), NEW v
  PROVE  /\ TokenWords(tk, v) \in Nat
         /\ (tk # <<>> => SumOf(tk.lengths) \in Nat /\ ValidPage(pages, tk.vpage_id) /\ tk.lengths \in ChunkLists)
         /\ (tk # <<>> /\ tk.vpage_id = v => TokenWords(tk, v) = 3 + SumOf(tk.lengths))
         /\ (tk # <<>> /\ tk.vpage_id # v => TokenWords(tk, v) = 0)
         /\ (tk = <<>> => TokenWords(tk, v) = 0)
<1>1. tk # <<>> => SumOf(tk.lengths) \in Nat /\ ValidPage(pages, tk.vpage_id) /\ tk.lengths \in ChunkLists
  BY LengthsAre DEF TokenOK
<1> QED
  BY <1>1 DEF TokenWords

\* Without a reservation there are none.
LEMMA TokenNone == \A v : TokenWords(<<>>, v) = 0 /\ \A pages : TokenOK(pages, <<>>)
BY DEF TokenWords, TokenOK

\* The reservations of page p become b, and those of the others stay.
Reserves(pages, other, p, b) ==
  /\ Alters(pages, other) /\ SameOffsets(pages, other) /\ other[p].words_reserved = b
  /\ \A i \in Page : i # p => other[i] = pages[i]

\* What changes when words of a page are reserved.
LEMMA ReservesIs ==
  ASSUME NEW pages, PagesTyped(pages), NEW p \in Page, NEW b \in Nat, NEW other,
         other = [pages EXCEPT ![p].words_reserved = b]
  PROVE  Reserves(pages, other, p, b)
<1>1. other = [i \in Page |-> IF i = p THEN [pages[p] EXCEPT !.words_reserved = b] ELSE pages[i]]
  BY DEF PagesTyped
<1>2. PICK d : d = [pages[p] EXCEPT !.words_reserved = b]
  OBVIOUS
<1>3. IsPage(pages[p])
  BY DEF PagesTyped
<1>4. /\ IsPage(d) /\ d.page_type = pages[p].page_type /\ d.vpage_id = pages[p].vpage_id
      /\ d.write_offset = pages[p].write_offset /\ d.words_reserved = b
  BY <1>2, <1>3 DEF IsPage
<1>5. other[p] = d /\ \A i \in Page : i # p => other[i] = pages[i]
  BY <1>1, <1>2
<1>6. PagesTyped(other)
  <2>1. \A i \in Page : IsPage(other[i])
    BY <1>4, <1>5 DEF PagesTyped
  <2>2. other = [i \in Page |-> other[i]]
    BY <1>1
  <2> QED
    BY <2>1, <2>2 DEF PagesTyped
<1>7. Alters(pages, other) /\ SameOffsets(pages, other)
  BY <1>4, <1>5, <1>6 DEF Alters, SameOffsets
<1> QED
  BY <1>4, <1>5, <1>7 DEF Reserves

\* A page with room for them keeps to its bounds.
LEMMA ReservesRoom ==
  ASSUME NEW pages, NEW gc, RoomOK(pages, gc), NEW other, NEW p \in Page, NEW b, Reserves(pages, other, p, b),
         pages[p].page_type = "VALID", pages[p].write_offset + b < FS_PAGE_SIZE_WORDS
  PROVE  RoomOK(other, gc)
<1>1. \A i \in Page : other[i].page_type = pages[i].page_type /\ other[i].write_offset = pages[i].write_offset
  BY DEF Reserves, Alters, SameOffsets
<1> SUFFICES ASSUME NEW i \in Page
             PROVE  /\ other[i].page_type # "VALID" => other[i].words_reserved = 0
                    /\ other[i].page_type = "VALID" => other[i].write_offset + other[i].words_reserved < FS_PAGE_SIZE_WORDS
                    /\ other[i].page_type = "SWAP" /\ ~(gc.state \in {"COPY_RECORD", "READY_SWAP"} /\ i = gc.swap_page)
                         => other[i].write_offset = 4
  BY DEF RoomOK
<1>2. CASE i = p
  BY <1>1, <1>2 DEF Reserves
<1>3. CASE i # p
  BY <1>3 DEF Reserves, RoomOK
<1> QED
  BY <1>2, <1>3

\* What is due on the pages: other words for the page p, the same for the others.
LEMMA SpaceAlters ==
  ASSUME NEW pages, Apart(pages), NEW other, NEW p \in Page, NEW b, Reserves(pages, other, p, b), pages[p].page_type = "VALID",
         NEW q, NEW tk, NEW new, TokenOK(pages, new), DueWithin(q, new, pages[p].vpage_id, b),
         \A i \in Page : i # p /\ pages[i].page_type = "VALID"
                         => DueWithin(q, new, pages[i].vpage_id, pages[i].words_reserved)
  PROVE  SpaceOK(other, q, new)
<1>1. \A i \in Page : other[i].page_type = pages[i].page_type /\ other[i].vpage_id = pages[i].vpage_id
  BY DEF Reserves, Alters
<1>2. TokenOK(other, new)
  <2>1. \A v : ValidPage(pages, v) => ValidPage(other, v)
    BY <1>1 DEF ValidPage
  <2> QED
    BY <2>1 DEF TokenOK
<1>3. ASSUME NEW i \in Page, other[i].page_type = "VALID"
      PROVE  DueWithin(q, new, other[i].vpage_id, other[i].words_reserved)
  <2>1. CASE i = p
    BY <1>1, <2>1 DEF Reserves
  <2>2. CASE i # p
    BY <1>1, <1>3, <2>2 DEF Reserves
  <2> QED
    BY <2>1, <2>2
<1> QED
  BY <1>2, <1>3 DEF SpaceOK

\* A record is asked for, and space is reserved for it.
LEMMA SpaceStore ==
  ASSUME NEW pages, PagesTyped(pages), Apart(pages), NEW q, NEW gc, QueueOK(pages, q, gc), NEW tk, SpaceOK(pages, q, tk),
         NEW p \in Page, pages[p].page_type = "VALID", NEW m \in Nat, m = pages[p].words_reserved,
         NEW n \in Nat, NEW c, IsCmd(c), IsStore(c), c.vpage_id = pages[p].vpage_id, c.length_words = n,
         NEW other, Reserves(pages, other, p, m + (3 + n))
  PROVE  SpaceOK(other, Append(q, c), tk)
<1>1. IsList(q) /\ \A v : \A i \in 1 .. Len(q) : WordsFor(q[i], v) \in Nat
  BY QueueWords
<1>2. TokenOK(pages, tk)
  BY DEF SpaceOK
<1>3. PICK v : v = pages[p].vpage_id
  OBVIOUS
<1>4. PICK w \in Nat : w = 3 + n
  OBVIOUS
<1>5. DueWithin(Append(q, c), tk, v, m + w)
  <2>1. WordsFor(c, v) = w
    BY <1>3, <1>4, WordsForNat
  <2>2. DueWithin(q, tk, v, m)
    BY <1>3 DEF SpaceOK
  <2> QED
    BY <1>1, <2>1, <2>2, DueAppend
<1>6. ASSUME NEW i \in Page, i # p, pages[i].page_type = "VALID"
      PROVE  DueWithin(Append(q, c), tk, pages[i].vpage_id, pages[i].words_reserved)
  <2>0. PICK u : u = pages[i].vpage_id
    OBVIOUS
  <2>1. PICK k \in Nat : k = pages[i].words_reserved
    BY PageFields DEF PagesTyped
  <2>2. WordsFor(c, u) = 0
    <3>1. u # c.vpage_id
      BY <1>6, <2>0 DEF Apart
    <3> QED
      BY <3>1, WordsForNat
  <2>3. DueWithin(q, tk, u, k)
    BY <1>6, <2>0, <2>1 DEF SpaceOK
  <2>z. PICK z \in Nat : z = 0
    OBVIOUS
  <2>y. WordsFor(c, u) = z
    BY <2>2, <2>z
  <2>4. DueWithin(Append(q, c), tk, u, k + z)
    BY <1>1, <2>y, <2>3, DueAppend
  <2>5. k + z = k
    BY ONLY <2>1, <2>z
  <2> QED
    BY <2>0, <2>1, <2>4, <2>5
<1> QED
  BY <1>2, <1>3, <1>4, <1>5, <1>6, SpaceAlters

\* Another command comes.
LEMMA SpacePlain ==
  ASSUME NEW pages, PagesTyped(pages), NEW q, NEW gc, QueueOK(pages, q, gc), NEW tk, SpaceOK(pages, q, tk),
         NEW c, IsCmd(c), ~IsStore(c)
  PROVE  SpaceOK(pages, Append(q, c), tk)
<1>1. IsList(q) /\ \A v : \A i \in 1 .. Len(q) : WordsFor(q[i], v) \in Nat
  BY QueueWords
<1>2. ASSUME NEW i \in Page, pages[i].page_type = "VALID"
      PROVE  DueWithin(Append(q, c), tk, pages[i].vpage_id, pages[i].words_reserved)
  <2>0. PICK u : u = pages[i].vpage_id
    OBVIOUS
  <2>1. PICK k \in Nat : k = pages[i].words_reserved
    BY PageFields DEF PagesTyped
  <2>2. WordsFor(c, u) = 0
    BY WordsForNat
  <2>3. DueWithin(q, tk, u, k)
    BY <1>2, <2>0, <2>1 DEF SpaceOK
  <2>z. PICK z \in Nat : z = 0
    OBVIOUS
  <2>y. WordsFor(c, u) = z
    BY <2>2, <2>z
  <2>4. DueWithin(Append(q, c), tk, u, k + z)
    BY <1>1, <2>y, <2>3, DueAppend
  <2>5. k + z = k
    BY ONLY <2>1, <2>z
  <2> QED
    BY <2>0, <2>1, <2>4, <2>5
<1> QED
  BY <1>2 DEF SpaceOK

\* The words that are due with another token.
LEMMA DueOther ==
  ASSUME NEW pages, PagesTyped(pages), NEW q, NEW gc, QueueOK(pages, q, gc), NEW tk, SpaceOK(pages, q, tk), NEW new,
         TokenOK(pages, new), NEW i \in Page, pages[i].page_type = "VALID", NEW k \in Nat, k = pages[i].words_reserved,
         NEW u, u = pages[i].vpage_id, NEW a \in Nat, a = TokenWords(tk, u), NEW b \in Nat, b = TokenWords(new, u)
  PROVE  a <= k /\ DueWithin(q, new, u, (k - a) + b)
<1>1. IsList(q) /\ \A n \in 1 .. Len(q) : WordsFor(q[n], u) \in Nat
  BY QueueWords
<1>2. DueWithin(q, tk, u, k)
  BY DEF SpaceOK
<1> QED
  BY <1>1, <1>2, DueToken

\* Space is reserved for a token.
LEMMA SpaceToken ==
  ASSUME NEW pages, PagesTyped(pages), Apart(pages), NEW q, NEW gc, QueueOK(pages, q, gc), SpaceOK(pages, q, <<>>),
         NEW p \in Page, pages[p].page_type = "VALID", NEW m \in Nat, m = pages[p].words_reserved,
         NEW new, TokenOK(pages, new), new # <<>>, new.vpage_id = pages[p].vpage_id, NEW n \in Nat, n = SumOf(new.lengths),
         NEW other, Reserves(pages, other, p, m + (3 + n))
  PROVE  SpaceOK(other, q, new)
<1>1. PICK v : v = pages[p].vpage_id
  OBVIOUS
<1>2. PICK w \in Nat : w = 3 + n
  OBVIOUS
<1>3. PICK z \in Nat : z = 0
  OBVIOUS
<1>4. DueWithin(q, new, v, m + w)
  <2>1. TokenWords(new, v) = w
    BY <1>1, <1>2, TokenWordsAre
  <2>2. TokenWords(<<>>, v) = z
    BY <1>3, TokenNone
  <2>3. DueWithin(q, new, v, (m - z) + w)
    BY <1>1, <2>1, <2>2, DueOther
  <2>4. (m - z) + w = m + w
    BY ONLY <1>2, <1>3, m \in Nat
  <2> QED
    BY <2>3, <2>4
<1>5. ASSUME NEW i \in Page, i # p, pages[i].page_type = "VALID"
      PROVE  DueWithin(q, new, pages[i].vpage_id, pages[i].words_reserved)
  <2>0. PICK u : u = pages[i].vpage_id
    OBVIOUS
  <2>1. PICK k \in Nat : k = pages[i].words_reserved
    BY PageFields DEF PagesTyped
  <2>2. u # v
    BY <1>1, <1>5, <2>0 DEF Apart
  <2>3. TokenWords(new, u) = z
    BY <1>1, <1>3, <2>2, TokenWordsAre
  <2>4. TokenWords(<<>>, u) = z
    BY <1>3, TokenNone
  <2>5. DueWithin(q, new, u, (k - z) + z)
    BY <1>5, <2>0, <2>1, <2>3, <2>4, DueOther
  <2>6. (k - z) + z = k
    BY ONLY <1>3, <2>1
  <2> QED
    BY <2>0, <2>1, <2>5, <2>6
<1> QED
  BY <1>1, <1>2, <1>4, <1>5, SpaceAlters

\* A token is given back: the words of its header stay reserved.
LEMMA SpaceCancel ==
  ASSUME NEW pages, PagesTyped(pages), Apart(pages), NEW q, NEW gc, QueueOK(pages, q, gc), NEW tk, SpaceOK(pages, q, tk),
         NEW p \in Page, pages[p].page_type = "VALID", NEW m \in Nat, m = pages[p].words_reserved,
         tk # <<>>, tk.vpage_id = pages[p].vpage_id, NEW n \in Nat, n = SumOf(tk.lengths)
  PROVE  /\ n <= m
         /\ \A other : Reserves(pages, other, p, m - n) => SpaceOK(other, q, <<>>)
<1>1. PICK v : v = pages[p].vpage_id
  OBVIOUS
<1>2. PICK w \in Nat : w = 3 + n
  OBVIOUS
<1>3. PICK z \in Nat : z = 0
  OBVIOUS
<1>t. TokenOK(pages, tk) /\ TokenOK(pages, <<>>)
  BY TokenNone DEF SpaceOK
<1>4. w <= m /\ DueWithin(q, <<>>, v, (m - w) + z)
  <2>1. TokenWords(tk, v) = w
    BY <1>1, <1>2, <1>t, TokenWordsAre
  <2>2. TokenWords(<<>>, v) = z
    BY <1>3, TokenNone
  <2> QED
    BY <1>1, <1>t, <2>1, <2>2, DueOther
<1>5. n <= m /\ (m - w) + z \in Nat /\ m - n \in Nat /\ (m - w) + z <= m - n
  BY ONLY <1>2, <1>3, <1>4, m \in Nat, n \in Nat
<1>6. DueWithin(q, <<>>, v, m - n)
  BY <1>4, <1>5, DueMore
<1>7. ASSUME NEW i \in Page, i # p, pages[i].page_type = "VALID"
      PROVE  DueWithin(q, <<>>, pages[i].vpage_id, pages[i].words_reserved)
  <2>0. PICK u : u = pages[i].vpage_id
    OBVIOUS
  <2>1. PICK k \in Nat : k = pages[i].words_reserved
    BY PageFields DEF PagesTyped
  <2>2. u # v
    BY <1>1, <1>7, <2>0 DEF Apart
  <2>3. TokenWords(tk, u) = z
    BY <1>1, <1>3, <1>t, <2>2, TokenWordsAre
  <2>4. TokenWords(<<>>, u) = z
    BY <1>3, TokenNone
  <2>5. DueWithin(q, <<>>, u, (k - z) + z)
    BY <1>7, <1>t, <2>0, <2>1, <2>3, <2>4, DueOther
  <2>6. (k - z) + z = k
    BY ONLY <1>3, <2>1
  <2> QED
    BY <2>0, <2>1, <2>5, <2>6
<1>8. ASSUME NEW other, Reserves(pages, other, p, m - n)
      PROVE  SpaceOK(other, q, <<>>)
  BY <1>1, <1>6, <1>7, <1>8, <1>t, SpaceAlters
<1> QED
  BY <1>5, <1>8

\* The record of a token is asked for.
LEMMA SpaceTokenStore ==
  ASSUME NEW pages, PagesTyped(pages), Apart(pages), NEW q, NEW gc, QueueOK(pages, q, gc), NEW tk, SpaceOK(pages, q, tk),
         tk # <<>>, NEW n \in Nat, n = SumOf(tk.lengths),
         NEW c, IsCmd(c), IsStore(c), c.vpage_id = tk.vpage_id, c.length_words = n
  PROVE  SpaceOK(pages, Append(q, c), <<>>)
<1>1. IsList(q) /\ \A v : \A i \in 1 .. Len(q) : WordsFor(q[i], v) \in Nat
  BY QueueWords
<1>2. PICK w \in Nat : w = 3 + n
  OBVIOUS
<1>3. PICK z \in Nat : z = 0
  OBVIOUS
<1>t. TokenOK(pages, tk) /\ TokenOK(pages, <<>>)
  BY TokenNone DEF SpaceOK
<1>7. ASSUME NEW i \in Page, pages[i].page_type = "VALID"
      PROVE  DueWithin(Append(q, c), <<>>, pages[i].vpage_id, pages[i].words_reserved)
  <2>0. PICK u : u = pages[i].vpage_id
    OBVIOUS
  <2>1. PICK k \in Nat : k = pages[i].words_reserved
    BY PageFields DEF PagesTyped
  <2>2. PICK a \in Nat : a = IF tk.vpage_id = u THEN w ELSE z
    OBVIOUS
  <2>3. TokenWords(tk, u) = a
    BY <1>2, <1>3, <1>t, <2>2, TokenWordsAre
  <2>4. TokenWords(<<>>, u) = z
    BY <1>3, TokenNone
  <2>5. a <= k /\ DueWithin(q, <<>>, u, (k - a) + z)
    BY <1>7, <1>t, <2>0, <2>1, <2>3, <2>4, DueOther
  <2>6. WordsFor(c, u) = a
    BY <1>2, <1>3, <2>2, WordsForNat
  <2>7. PICK b \in Nat : b = (k - a) + z
    BY <2>5, <2>1, <2>2, <1>3
  <2>8. DueWithin(q, <<>>, u, b)
    BY <2>5, <2>7
  <2>9. DueWithin(Append(q, c), <<>>, u, b + a)
    BY <1>1, <2>6, <2>8, DueAppend
  <2>10. b + a = k
    BY ONLY <1>3, <2>1, <2>2, <2>7
  <2> QED
    BY <2>0, <2>1, <2>9, <2>10
<1> QED
  BY <1>7, <1>t DEF SpaceOK

--------------------------------------------------------------------------------

(* The commands of records. *)
Chunks(lengths) == [i \in 1 .. Len(lengths) |-> Chunk(i, lengths[i])]

\* The bounds of the model and of the queues, as plain numbers.
LEMMA LimitsAre ==
  /\ Limit["write"] \in Nat /\ Limit["update"] \in Nat /\ Limit["fault"] \in Nat
  /\ FDS_CHUNK_QUEUE_SIZE \in Nat /\ FDS_CMD_QUEUE_SIZE \in Nat /\ FDS_CMD_QUEUE_SIZE >= 2 /\ MaxId \in Nat /\ MaxId >= 1
BY FdsAssumption

\* A chunk of a record is a list of words that may be written.
LEMMA ChunkIs ==
  ASSUME Written \in Nat, Written < Limit["write"] + Limit["update"],
         NEW i \in Nat, 1 <= i, i <= FDS_CHUNK_QUEUE_SIZE, NEW n \in Nat, 1 <= n, n <= FS_PAGE_SIZE_WORDS
  PROVE  IsChunk(Chunk(i, n)) /\ Len(Chunk(i, n)) = n
<1> DEFINE w == Chunk(i, n)
<1>1. w = [j \in 1 .. n |-> <<"data", Written + 1, i, j>>]
  BY DEF Chunk
<1>2. \A j \in 1 .. n : w[j] = <<"data", Written + 1, i, j>>
  BY <1>1
<1>3. w = [j \in 1 .. n |-> w[j]]
  BY <1>1
<1> HIDE DEF w
<1>4. IsList(w) /\ Len(w) = n
  BY <1>3, ListOf
<1>5. PICK l \in Nat : l = Limit["write"] + Limit["update"]
  BY LimitsAre
<1>6. PICK t \in Nat : t = Written + 1
  OBVIOUS
<1>7. t \in 1 .. l
  BY <1>5, <1>6
<1>8. \A j \in 1 .. n : j \in 1 .. FS_PAGE_SIZE_WORDS
  BY FstorageAssumption
<1>9. i \in 1 .. FDS_CHUNK_QUEUE_SIZE
  BY LimitsAre
<1>10. ASSUME NEW j \in 1 .. n PROVE w[j] \in DataWords
  <2>1. w[j] = <<"data", t, i, j>>
    BY <1>2, <1>6
  <2>2. DataWords = {<<"data", a, b, d>> : a \in 1 .. l, b \in 1 .. FDS_CHUNK_QUEUE_SIZE, d \in 1 .. FS_PAGE_SIZE_WORDS}
    BY <1>5 DEF DataWords
  <2> QED
    BY <1>7, <1>8, <1>9, <2>1, <2>2
<1> QED
  BY <1>4, <1>10 DEF IsChunk, w

\* No chunk is longer than its record.
LEMMA ChunkFits ==
  ASSUME NEW l, NEW n \in Nat, NEW m \in Nat, NEW g \in [0 .. n -> 0 .. m], Sums(g, l, n),
         NEW i \in 1 .. n, NEW k \in Nat, k = l[i]
  PROVE  k <= m
<1>1. PICK h \in 0 .. n : h = i - 1
  OBVIOUS
<1>2. g[i] = g[h] + k
  BY <1>1 DEF Sums
<1>3. PICK a \in Nat, b \in Nat : a = g[i] /\ b = g[h] /\ a <= m
  <2>1. i \in 0 .. n
    OBVIOUS
  <2>2. g[i] \in 0 .. m /\ g[h] \in 0 .. m
    BY <2>1, <1>1
  <2> QED
    BY <2>2
<1> QED
  BY <1>2, <1>3

\* The chunks of a record.
LEMMA ChunksAre ==
  ASSUME Written \in Nat, Written < Limit["write"] + Limit["update"], NEW lengths \in ChunkLists,
         Len(lengths) <= FDS_CHUNK_QUEUE_SIZE, SumOf(lengths) <= FS_PAGE_SIZE_WORDS,
         NEW cs, cs = Chunks(lengths), NEW c, IsStore(c), c.num_chunks = Len(lengths), c.chunk_offset = 3,
         c.length_words = SumOf(lengths)
  PROVE  Brings(c, cs) /\ Len(cs) = Len(lengths)
<1>1. PICK n \in Nat : n = Len(lengths)
  BY LengthsAre
<1>2. PICK m \in Nat : m = SumOf(lengths)
  BY LengthsAre
<1>3. \A i \in 1 .. n : lengths[i] \in Nat /\ lengths[i] >= 1
  BY <1>1, LengthsAre
<1>4. PICK g \in [0 .. n -> 0 .. m] : Sums(g, lengths, n) /\ g[n] = m
  BY <1>1, <1>2, <1>3, SumOfIs
<1>5. /\ cs = [i \in 1 .. n |-> cs[i]]
      /\ \A i \in 1 .. n : cs[i] = Chunk(i, lengths[i])
  BY <1>1 DEF Chunks
<1>6. IsList(cs) /\ Len(cs) = n
  BY <1>5, ListOf
<1>s. FS_PAGE_SIZE_WORDS \in Nat /\ FDS_CHUNK_QUEUE_SIZE \in Nat
  BY FstorageAssumption, LimitsAre
<1>7. ASSUME NEW i \in 1 .. n
      PROVE  IsChunk(cs[i]) /\ Len(cs[i]) = lengths[i]
  <2>1. PICK k \in Nat : k = lengths[i] /\ k >= 1
    BY <1>3
  <2>2. k <= m
    BY <1>4, <2>1, ChunkFits
  <2>3. k <= FS_PAGE_SIZE_WORDS
    BY <1>2, <1>s, <2>2
  <2>4. i \in Nat /\ 1 <= i /\ i <= FDS_CHUNK_QUEUE_SIZE
    BY <1>1, <1>s
  <2>5. IsChunk(Chunk(i, k)) /\ Len(Chunk(i, k)) = k
    BY <2>1, <2>3, <2>4, ChunkIs
  <2> QED
    BY <1>5, <2>1, <2>5
<1>8. Spans(c, cs, 0)
  <2>1. g[0] = c.chunk_offset - 3
    BY <1>4 DEF Sums
  <2>2. ASSUME NEW i \in 1 .. n PROVE g[i] = g[i - 1] + Len(cs[0 + i])
    <3>1. g[i] = g[i - 1] + lengths[i]
      BY <1>4 DEF Sums
    <3>2. 0 + i = i
      OBVIOUS
    <3> QED
      BY <1>7, <3>1, <3>2
  <2>3. c.num_chunks = n /\ c.length_words = m
    BY <1>1, <1>2
  <2>4. g \in [0 .. c.num_chunks -> 0 .. c.length_words] /\ g[c.num_chunks] = c.length_words
    BY <1>4, <2>3
  <2> QED
    BY <2>1, <2>2, <2>3, <2>4 DEF Spans
<1> QED
  BY <1>1, <1>6, <1>7, <1>8 DEF Brings

\* The command of a record.
Made(id, lengths, s, v, new, c) ==
  c = [Command(id, "WRITE_TL") EXCEPT
         !.num_chunks = Len(lengths), !.vpage_id = v, !.record_id = new,
         !.length_words = SumOf(lengths), !.instance = s, !.data = Chunks(lengths)]
MadeFrom(pages, id, lengths, s, v, new, c) ==
  /\ id \in {"WRITE", "UPDATE"} /\ lengths \in ChunkLists /\ s \in Slots /\ v \in Page /\ ValidPage(pages, v)
  /\ new \in 0 .. MaxId /\ Made(id, lengths, s, v, new, c)
IsMade(pages, c, lengths, v) ==
  /\ IsCmd(c) /\ CmdOK(pages, c) /\ Fresh(c) /\ IsStore(c) /\ c.id # "GC" /\ c.vpage_id = v
  /\ c.length_words = SumOf(lengths) /\ c.num_chunks = Len(lengths) /\ c.chunk_offset = 3 /\ c.num_chunks \in Nat

\* The command made for a record.
LEMMA MadeIs ==
  ASSUME NEW pages, NEW id, NEW lengths, NEW s, NEW v, NEW new, NEW c, MadeFrom(pages, id, lengths, s, v, new, c)
  PROVE  IsMade(pages, c, lengths, v)
<1>0. /\ id \in {"WRITE", "UPDATE"} /\ lengths \in ChunkLists /\ s \in Slots /\ v \in Page /\ ValidPage(pages, v)
      /\ new \in 0 .. MaxId /\ Made(id, lengths, s, v, new, c)
  BY DEF MadeFrom
<1>1. PICK n \in Nat : n = Len(lengths) /\ n >= 1
  BY <1>0, LengthsAre
<1>2. PICK m \in Nat : m = SumOf(lengths)
  BY <1>0, LengthsAre
<1>3. c = [id |-> id, op_code |-> "WRITE_TL", num_chunks |-> n, chunk_offset |-> 3, vpage_id |-> v, record_id |-> new,
           length_words |-> m, instance |-> s, data |-> Chunks(lengths)]
  BY <1>0, <1>1, <1>2 DEF Made, Command, OFFSET_DATA
<1>4. /\ c.id = id /\ c.op_code = "WRITE_TL" /\ c.num_chunks = n /\ c.chunk_offset = 3 /\ c.vpage_id = v
      /\ c.record_id = new /\ c.length_words = m /\ c.instance = s
  BY <1>3
<1>5. IsCmd(c)
  <2>1. c = [id |-> c.id, op_code |-> c.op_code, num_chunks |-> c.num_chunks,
          chunk_offset |-> c.chunk_offset, vpage_id |-> c.vpage_id, record_id |-> c.record_id,
          length_words |-> c.length_words, instance |-> c.instance, data |-> c.data]
    BY <1>3
  <2> QED
    BY <1>0, <1>4, <2>1 DEF IsCmd
<1>6. IsStore(c) /\ Fresh(c)
  BY <1>0, <1>1, <1>4 DEF IsStore, Fresh
<1>7. CmdOK(pages, c)
  BY <1>0, <1>4, <1>5, <1>6 DEF CmdOK
<1>8. c.id # "GC"
  BY <1>0, <1>4
<1> QED
  BY <1>1, <1>2, <1>4, <1>5, <1>6, <1>7, <1>8 DEF IsMade

\* The other commands.
Clears(v, k, c) == c = [Command("CLEAR", "CLEAR_TL") EXCEPT !.vpage_id = v, !.record_id = k]

\* The command made to clear one record.
LEMMA ClearIs ==
  ASSUME NEW pages, NEW v \in Page, ValidPage(pages, v), NEW k \in 0 .. MaxId, NEW c, Clears(v, k, c)
  PROVE  IsCmd(c) /\ CmdOK(pages, c) /\ Fresh(c) /\ ~IsStore(c) /\ c.id = "CLEAR" /\ c.num_chunks \in Nat
<1>1. c = [id |-> "CLEAR", op_code |-> "CLEAR_TL", num_chunks |-> 0, chunk_offset |-> 3, vpage_id |-> v, record_id |-> k,
           length_words |-> 0, instance |-> 0, data |-> <<>>]
  BY DEF Clears, Command, OFFSET_DATA
<1>2. /\ c.id = "CLEAR" /\ c.op_code = "CLEAR_TL" /\ c.num_chunks = 0 /\ c.chunk_offset = 3 /\ c.vpage_id = v
      /\ c.record_id = k /\ c.length_words = 0
  BY <1>1
<1>3. IsCmd(c)
  <2>1. c = [id |-> c.id, op_code |-> c.op_code, num_chunks |-> c.num_chunks,
          chunk_offset |-> c.chunk_offset, vpage_id |-> c.vpage_id, record_id |-> c.record_id,
          length_words |-> c.length_words, instance |-> c.instance, data |-> c.data]
    BY <1>1
  <2> QED
    BY <1>2, <2>1 DEF IsCmd
<1>4. ~IsStore(c) /\ Fresh(c)
  BY <1>2 DEF Fresh, IsStore
<1>5. CmdOK(pages, c)
  BY <1>2, <1>3, <1>4 DEF CmdOK
<1> QED
  BY <1>2, <1>3, <1>4, <1>5

\* The commands to clear an instance and to collect.
LEMMA OthersAre ==
  ASSUME NEW pages, NEW s, NEW c,
         \/ c = [Command("CLEAR_INST", "CLEAR_INSTANCE") EXCEPT !.instance = s]
         \/ c = Command("GC", "NONE")
  PROVE  IsCmd(c) /\ CmdOK(pages, c) /\ Fresh(c) /\ ~IsStore(c) /\ c.id \in {"CLEAR_INST", "GC"} /\ c.num_chunks \in Nat
<1>p. 0 \in Page /\ 0 \in 0 .. MaxId
  BY Sizes, LimitsAre
<1>1. CASE c = [Command("CLEAR_INST", "CLEAR_INSTANCE") EXCEPT !.instance = s]
  <2>1. c = [id |-> "CLEAR_INST", op_code |-> "CLEAR_INSTANCE", num_chunks |-> 0, chunk_offset |-> 3, vpage_id |-> 0,
             record_id |-> 0, length_words |-> 0, instance |-> s, data |-> <<>>]
    BY <1>1 DEF Command, OFFSET_DATA
  <2>2. IsCmd(c)
    BY <1>p, <2>1 DEF IsCmd
  <2> QED
    BY <2>1, <2>2 DEF CmdOK, Fresh, IsStore
<1>2. CASE c = Command("GC", "NONE")
  <2>1. c = [id |-> "GC", op_code |-> "NONE", num_chunks |-> 0, chunk_offset |-> 3, vpage_id |-> 0,
             record_id |-> 0, length_words |-> 0, instance |-> 0, data |-> <<>>]
    BY <1>2 DEF Command, OFFSET_DATA
  <2>2. IsCmd(c)
    BY <1>p, <2>1 DEF IsCmd
  <2> QED
    BY <2>1, <2>2 DEF CmdOK, Fresh, IsStore
<1> QED
  BY <1>1, <1>2

--------------------------------------------------------------------------------

(* What a handler leaves behind. *)
At(x, f, tk, ds) ==
  /\ Ram(x) /\ Free(x) /\ FlashOK(f) /\ Core(x, f, tk, ds) /\ FlagsOK(x) /\ BoundsOK(x)

\* A command is executed: op is to be done for it.
Begins(y, f, tk, ds, op) ==
  /\ Ram(y) /\ Begun(y, op) /\ SafeOp(f, op) /\ Core(y, Done(f, op), tk, ds) /\ AtWork(y, op, Done(f, op))
  /\ FlagsOK(y) /\ BoundsOK(y) /\ Accounts(y.m_pages, y.m_cmd_queue, f) /\ y.m_cmd_queue # <<>>
Rests(y, f, tk, ds) == At(y, f, tk, ds) /\ Active(y) /\ (y.m_cmd_queue # <<>> => Stuck(y))
Leaves(y, f, tk, ds) == (\E op : Begins(y, f, tk, ds, op)) \/ Rests(y, f, tk, ds)

\* The parts of the RAM that a step of a command changes.
Becomes(x, y, r, ch, pages, gc, stack) ==
  /\ y.m_cmd_queue = r /\ y.m_chunk_queue = ch /\ y.m_pages = pages /\ y.m_gc = gc /\ y.stack = stack
  /\ y.m_flags = x.m_flags /\ y.m_last_rec_id = x.m_last_rec_id /\ y.m_swap_page_avail = x.m_swap_page_avail
SwapKnown(x, pages, gc) ==
  "INITIALIZED" \in x.m_flags => pages[gc.swap_page].page_type = "SWAP" /\ gc.state \in {"NONE", "BEGIN"} \cup Mid

\* A handler that leaves the kind of its command alone leaves the flags sound.
LEMMA FlagsStay ==
  ASSUME NEW x, FlagsOK(x), x.m_cmd_queue # <<>>, NEW y, NEW r, NEW ch, NEW pages, NEW gc, NEW stack,
         Becomes(x, y, r, ch, pages, gc, stack), r # <<>>, Head(r).id = Head(x.m_cmd_queue).id,
         SwapKnown(x, pages, gc)
  PROVE  FlagsOK(y)
<1>1. /\ y.m_flags = x.m_flags /\ y.m_last_rec_id = x.m_last_rec_id /\ y.m_cmd_queue = r
      /\ y.m_pages = pages /\ y.m_gc = gc
  BY DEF Becomes
<1>2. HeadIs(r, {"INIT"}) <=> HeadIs(x.m_cmd_queue, {"INIT"})
  BY DEF HeadIs
<1>3. ("PROCESSING" \in y.m_flags <=> y.m_cmd_queue # <<>>)
  BY <1>1 DEF FlagsOK
<1>4. /\ HeadIs(y.m_cmd_queue, {"INIT"}) => "INITIALIZED" \notin y.m_flags /\ "INITIALIZING" \in y.m_flags
      /\ y.m_cmd_queue # <<>> /\ ~HeadIs(y.m_cmd_queue, {"INIT"}) => "INITIALIZED" \in y.m_flags
  BY <1>1, <1>2 DEF FlagsOK
<1>5. "INITIALIZED" \in y.m_flags => y.m_pages[y.m_gc.swap_page].page_type = "SWAP"
                                    /\ y.m_gc.state \in {"NONE", "BEGIN"} \cup Mid
  BY <1>1 DEF SwapKnown
<1>6. y.m_last_rec_id \in 0 .. MaxId
  BY <1>1 DEF FlagsOK
<1> QED
  BY <1>3, <1>4, <1>5, <1>6 DEF FlagsOK

\* The swap page is known as long as pages and collector are the same.
LEMMA SwapStays ==
  ASSUME NEW x, FlagsOK(x)
  PROVE  SwapKnown(x, x.m_pages, x.m_gc)
BY DEF FlagsOK, SwapKnown

\* A handler that takes no more than a chunk from the queues keeps to their bounds.
LEMMA BoundsStay ==
  ASSUME NEW x, BoundsOK(x), NEW y, NEW r, NEW ch, NEW pages, NEW gc, NEW stack,
         Becomes(x, y, r, ch, pages, gc, stack), Len(r) = Len(x.m_cmd_queue),
         Len(ch) = Len(x.m_chunk_queue) \/ (Len(x.m_chunk_queue) \in Nat /\ Len(ch) = Len(x.m_chunk_queue) - 1)
  PROVE  BoundsOK(y)
<1>1. Len(y.m_cmd_queue) <= FDS_CMD_QUEUE_SIZE
  BY DEF BoundsOK, Becomes
<1>2. Len(y.m_chunk_queue) <= FDS_CHUNK_QUEUE_SIZE
  BY LimitsAre DEF BoundsOK, Becomes
<1> QED
  BY <1>1, <1>2 DEF BoundsOK

\* The command at the head has begun op.
LEMMA BeginsIs ==
  ASSUME NEW x, NEW f, NEW tk, NEW ds, At(x, f, tk, ds), x.m_cmd_queue # <<>>, NEW y, NEW op, Ram(y), Begun(y, op),
         NEW r, NEW ch, NEW pages, NEW gc, NEW stack, Becomes(x, y, r, ch, pages, gc, stack),
         SafeOp(f, op), Layout(pages, r, ch, gc, stack, tk, ds, Done(f, op)), Accounts(pages, r, f),
         r # <<>>, Head(r).id = Head(x.m_cmd_queue).id, Len(r) = Len(x.m_cmd_queue), SwapKnown(x, pages, gc),
         Len(ch) = Len(x.m_chunk_queue) \/ (Len(x.m_chunk_queue) \in Nat /\ Len(ch) = Len(x.m_chunk_queue) - 1),
         AtWork(y, op, Done(f, op))
  PROVE  Begins(y, f, tk, ds, op)
<1>1. FlagsOK(y)
  BY FlagsStay DEF At
<1>2. BoundsOK(y)
  BY BoundsStay DEF At
<1>3. Core(y, Done(f, op), tk, ds)
  BY DEF Core, Becomes
<1>4. Accounts(y.m_pages, y.m_cmd_queue, f) /\ y.m_cmd_queue # <<>>
  BY DEF Becomes
<1> QED
  BY <1>1, <1>2, <1>3, <1>4 DEF Begins

\* The command at the head goes on as d.
LEMMA HeadChanged ==
  ASSUME NEW z, Ram(z), NEW op, Begun(z, op), NEW x, Kept(x, z), NEW r, NEW y, y = [z EXCEPT !.m_cmd_queue = r]
  PROVE  Ram(y) /\ Begun(y, op) /\ Becomes(x, y, r, x.m_chunk_queue, x.m_pages, x.m_gc, x.stack)
BY DEF Ram, Begun, Kept, Becomes, FsOther

\* Setting the step of the first command, as a change of the queue.
LEMMA OpCodeGoes ==
  ASSUME NEW q, NEW code, NEW r, r = [q EXCEPT ![1].op_code = code], NEW d, d = [q[1] EXCEPT !.op_code = code]
  PROVE  Goes(q, d, r) /\ Advances(q, d, code)
BY DEF Goes, Advances

--------------------------------------------------------------------------------

(* The commands of records are executed. *)
Executes(res, f, tk, ds) == res.ret = "EXECUTING" /\ \E op : Begins(res.x, f, tk, ds, op)

\* Where the record at the head goes.
Where(x, q, pages, gc, f, p, n, s, w) ==
  /\ q = x.m_cmd_queue /\ pages = x.m_pages /\ gc = x.m_gc /\ q # <<>> /\ IsList(q) /\ Cmd(x) = q[1] /\ IsCmd(q[1])
  /\ HeadAt(pages, q, gc, f, p, n, s, w) /\ PageOf(x, q[1].vpage_id) = p /\ WriteAddr(x, p) = s + w

\* The record being written has its page, and its place there.
LEMMA WhereIs ==
  ASSUME NEW x, NEW f, NEW tk, NEW ds, At(x, f, tk, ds), HeadIs(x.m_cmd_queue, {"WRITE", "UPDATE"})
  PROVE  \E p \in Page, n \in Nat, s \in Nat, w \in Nat : Where(x, x.m_cmd_queue, x.m_pages, x.m_gc, f, p, n, s, w)
<1> PICK q : q = x.m_cmd_queue
  OBVIOUS
<1> PICK pages : pages = x.m_pages
  OBVIOUS
<1> PICK gc : gc = x.m_gc
  OBVIOUS
<1> PICK ch : ch = x.m_chunk_queue
  OBVIOUS
<1>1. Layout(pages, q, ch, gc, x.stack, tk, ds, f)
  BY DEF At, Core
<1>2. QueueOK(pages, q, gc) /\ Apart(pages)
  BY <1>1 DEF Layout, PagesOK
<1>3. q # <<>> /\ IsList(q) /\ Head(q) = q[1] /\ IsCmd(q[1]) /\ IsStore(q[1])
  BY <1>2, QueueWords DEF HeadIs, IsStore
<1>4. PICK p \in Page, n \in Nat, s \in Nat, w \in Nat : HeadAt(pages, q, gc, f, p, n, s, w)
  BY <1>1, <1>3, HeadPage
<1>5. PageOf(x, q[1].vpage_id) = p
  BY <1>2, <1>4, PageFound DEF PageOf, Data, HeadAt
<1>6. WriteAddr(x, p) = s + w
  BY <1>4 DEF WriteAddr, Data, HeadAt
<1>7. Where(x, q, pages, gc, f, p, n, s, w)
  BY <1>3, <1>4, <1>5, <1>6 DEF Where, Cmd
<1> QED
  BY <1>7

\* One word of the record is written.
LEMMA OneWord ==
  ASSUME NEW x, NEW f, NEW tk, NEW ds, At(x, f, tk, ds), NEW q, q = x.m_cmd_queue, q # <<>>, IsList(q), IsStore(q[1]),
         NEW dst, NEW words, NEW code, NEW z, z = FsStore(x, dst, words),
         NEW r, NEW d, Goes(q, d, r), Advances(q, d, code), IsCmd(q[1]), NEW y, y = [z EXCEPT !.m_cmd_queue = r],
         NEW op, op = Store(dst, words), Step(x.m_pages, r, x.m_chunk_queue, x.m_gc, x.stack, tk, ds, f, op)
  PROVE  Begins(y, f, tk, ds, op)
<1>1. Ram(z) /\ Begun(z, op) /\ Kept(x, z)
  BY StartedStore DEF At
<1>2. Ram(y) /\ Begun(y, op) /\ Becomes(x, y, r, x.m_chunk_queue, x.m_pages, x.m_gc, x.stack)
  BY <1>1, HeadChanged
<1>3. IsList(r) /\ Len(r) = Len(q) /\ r # <<>> /\ Head(r) = d /\ r[1] = d
  BY Gone
<1>4. d.id = q[1].id
  BY AdvancesIs
<1>5. Head(q) = q[1]
  BY ListHead
<1>6. SwapKnown(x, x.m_pages, x.m_gc)
  BY SwapStays DEF At
<1>7. AtWork(y, op, Done(f, op))
  <2>1. y.m_cmd_queue = r /\ y.m_pages = x.m_pages
    BY <1>2 DEF Becomes
  <2>2. HeadIs(r, {"WRITE", "UPDATE"})
    BY <1>3, <1>4 DEF HeadIs, IsStore
  <2>3. WritingAt(x.m_pages, Head(r), Done(f, op))
    BY DEF Step
  <2> QED
    BY <2>1, <2>2, <2>3 DEF AtWork
<1>8. /\ SafeOp(f, op) /\ Layout(x.m_pages, r, x.m_chunk_queue, x.m_gc, x.stack, tk, ds, Done(f, op))
      /\ Accounts(x.m_pages, r, f)
  BY DEF Step
<1>9. Head(r).id = Head(x.m_cmd_queue).id /\ Len(r) = Len(x.m_cmd_queue)
  BY <1>3, <1>4, <1>5
<1> QED
  BY <1>1, <1>2, <1>3, <1>6, <1>7, <1>8, <1>9, BeginsIs

Writes(x, dst, words, code, res) == res = Executing([FsStore(x, dst, words) EXCEPT !.m_cmd_queue[1].op_code = code])
OpCode(q, code, r) == r = [q EXCEPT ![1].op_code = code]

\* Setting the step of the first command.
LEMMA OpCodes ==
  ASSUME NEW q, NEW code, NEW r, OpCode(q, code, r), NEW d, Advances(q, d, code)
  PROVE  Goes(q, d, r)
BY DEF OpCode, Goes, Advances

\* The handler of a record that writes one piece of it begins a safe operation.
LEMMA OneWordWritten ==
  ASSUME NEW x, NEW f, NEW tk, NEW ds, At(x, f, tk, ds), NEW q, q = x.m_cmd_queue, q # <<>>, IsList(q), IsStore(q[1]),
         IsCmd(q[1]), NEW dst, NEW words, NEW code, NEW res, Writes(x, dst, words, code, res),
         NEW r, NEW d, OpCode(q, code, r), Advances(q, d, code),
         NEW op, op = Store(dst, words), Step(x.m_pages, r, x.m_chunk_queue, x.m_gc, x.stack, tk, ds, f, op)
  PROVE  Executes(res, f, tk, ds)
<1>1. PICK z : z = FsStore(x, dst, words)
  OBVIOUS
<1>2. PICK y : y = [z EXCEPT !.m_cmd_queue = r]
  OBVIOUS
<1>3. z.m_cmd_queue = q
  BY <1>1, StartedStore DEF At, Kept
<1>4. res = [x |-> y, ret |-> "EXECUTING"]
  <2>1. res = Executing([z EXCEPT !.m_cmd_queue[1].op_code = code])
    BY <1>1 DEF Writes
  <2>2. [z EXCEPT !.m_cmd_queue[1].op_code = code] = [z EXCEPT !.m_cmd_queue = [q EXCEPT ![1].op_code = code]]
    BY <1>3
  <2> QED
    BY <1>2, <2>1, <2>2 DEF Executing, Says, OpCode
<1>5. Goes(q, d, r)
  BY OpCodes
<1>6. Begins(y, f, tk, ds, op)
  BY <1>1, <1>2, <1>5, OneWord
<1>7. res.ret = "EXECUTING" /\ res.x = y
  BY <1>4
<1> QED
  BY <1>6, <1>7 DEF Executes

\* The first piece of a record is the first half of its header.
LEMMA StoreBegins ==
  ASSUME NEW x, NEW f, NEW tk, NEW ds, At(x, f, tk, ds), HeadIs(x.m_cmd_queue, {"WRITE", "UPDATE"}),
         Fresh(Head(x.m_cmd_queue)), NEW res, res = StoreExecute(x, TRUE)
  PROVE  Executes(res, f, tk, ds)
<1>1. PICK q, pages, gc : q = x.m_cmd_queue /\ pages = x.m_pages /\ gc = x.m_gc
  OBVIOUS
<1>2. PICK p \in Page, n \in Nat, s \in Nat, w \in Nat : Where(x, q, pages, gc, f, p, n, s, w)
  BY <1>1, WhereIs
<1>3. /\ q # <<>> /\ IsList(q) /\ Cmd(x) = q[1] /\ IsCmd(q[1]) /\ HeadAt(pages, q, gc, f, p, n, s, w)
      /\ PageOf(x, q[1].vpage_id) = p /\ WriteAddr(x, p) = s + w
  BY <1>2 DEF Where
<1>4. Head(q) = q[1] /\ IsStore(q[1]) /\ Fresh(q[1])
  BY <1>1, <1>3, ListHead DEF HeadIs, IsStore
<1>5. q[1].op_code = "WRITE_TL" /\ q[1].length_words = n
  BY <1>3, <1>4 DEF Fresh, IsStore, HeadAt
<1>6. PICK dst : dst = s + w
  OBVIOUS
<1>7. PICK words : words = <<TL(n, "valid")>>
  OBVIOUS
<1>8. PICK r : OpCode(q, "WRITE_ID", r)
  BY DEF OpCode
<1>9. PICK d : Advances(q, d, "WRITE_ID")
  BY DEF Advances
<1>10. Goes(q, d, r)
  BY <1>8, <1>9, OpCodes
<1>13. Writes(x, dst, words, "WRITE_ID", res)
  <2>1. WriteAddr(x, PageOf(x, Cmd(x).vpage_id)) + OFFSET_TL = dst
    BY <1>3, <1>6 DEF OFFSET_TL
  <2> QED
    BY <2>1, <1>3, <1>5, <1>7 DEF StoreExecute, Writes
<1>14. PICK op : op = Store(dst, words)
  OBVIOUS
<1>15. Step(pages, r, x.m_chunk_queue, gc, x.stack, tk, ds, f, op)
  <2>1. Layout(pages, q, x.m_chunk_queue, gc, x.stack, tk, ds, f) /\ FlashOK(f)
    BY <1>1 DEF At, Core
  <2>2. op = Store(s + w, <<TL(n, "valid")>>)
    BY <1>6, <1>7, <1>14
  <2> QED
    BY <2>1, <2>2, <1>3, <1>4, <1>9, <1>10, WriteTL
<1> QED
  BY <1>1, <1>3, <1>4, <1>8, <1>9, <1>13, <1>14, <1>15, OneWordWritten

\* Its identity comes next.
LEMMA StoreID ==
  ASSUME NEW x, NEW f, NEW tk, NEW ds, At(x, f, tk, ds), HeadIs(x.m_cmd_queue, {"WRITE", "UPDATE"}),
         Head(x.m_cmd_queue).op_code = "WRITE_ID", WritingAt(x.m_pages, Head(x.m_cmd_queue), f),
         NEW res, res = StoreExecute(x, TRUE)
  PROVE  Executes(res, f, tk, ds)
<1>1. PICK q, pages, gc : q = x.m_cmd_queue /\ pages = x.m_pages /\ gc = x.m_gc
  OBVIOUS
<1>2. PICK p \in Page, n \in Nat, s \in Nat, w \in Nat : Where(x, q, pages, gc, f, p, n, s, w)
  BY <1>1, WhereIs
<1>3. /\ q # <<>> /\ IsList(q) /\ Cmd(x) = q[1] /\ IsCmd(q[1]) /\ HeadAt(pages, q, gc, f, p, n, s, w)
      /\ PageOf(x, q[1].vpage_id) = p /\ WriteAddr(x, p) = s + w
  BY <1>2 DEF Where
<1>4. Head(q) = q[1] /\ IsStore(q[1])
  BY <1>1, <1>3, ListHead DEF HeadIs, IsStore
<1>5. q[1].op_code = "WRITE_ID" /\ WritingAt(pages, q[1], f)
  BY <1>1, <1>4
<1>6. PICK dst : dst = s + w + 2
  OBVIOUS
<1>7. PICK words : words = <<<<"ID", q[1].record_id>>>>
  OBVIOUS
<1>8. PICK r : OpCode(q, "WRITE_CHUNK", r)
  BY DEF OpCode
<1>9. PICK d : Advances(q, d, "WRITE_CHUNK")
  BY DEF Advances
<1>10. Goes(q, d, r)
  BY <1>8, <1>9, OpCodes
<1>13. Writes(x, dst, words, "WRITE_CHUNK", res)
  <2>1. WriteAddr(x, PageOf(x, Cmd(x).vpage_id)) + OFFSET_ID = dst
    BY <1>3, <1>6 DEF OFFSET_ID
  <2> QED
    BY <2>1, <1>3, <1>5, <1>7 DEF StoreExecute, Writes
<1>14. PICK op : op = Store(dst, words)
  OBVIOUS
<1>15. Step(pages, r, x.m_chunk_queue, gc, x.stack, tk, ds, f, op)
  <2>1. Layout(pages, q, x.m_chunk_queue, gc, x.stack, tk, ds, f) /\ FlashOK(f)
    BY <1>1 DEF At, Core
  <2>2. op = Store(s + w + 2, <<<<"ID", q[1].record_id>>>>)
    BY <1>6, <1>7, <1>14
  <2> QED
    BY <2>1, <2>2, <1>3, <1>4, <1>5, <1>9, <1>10, WriteID
<1> QED
  BY <1>1, <1>3, <1>4, <1>8, <1>9, <1>13, <1>14, <1>15, OneWordWritten

\* Then the length that makes it a record.
LEMMA StoreIC ==
  ASSUME NEW x, NEW f, NEW tk, NEW ds, At(x, f, tk, ds), HeadIs(x.m_cmd_queue, {"WRITE", "UPDATE"}),
         Head(x.m_cmd_queue).op_code = "WRITE_IC", WritingAt(x.m_pages, Head(x.m_cmd_queue), f),
         NEW res, res = StoreExecute(x, TRUE)
  PROVE  Executes(res, f, tk, ds)
<1>1. PICK q, pages, gc : q = x.m_cmd_queue /\ pages = x.m_pages /\ gc = x.m_gc
  OBVIOUS
<1>2. PICK p \in Page, n \in Nat, s \in Nat, w \in Nat : Where(x, q, pages, gc, f, p, n, s, w)
  BY <1>1, WhereIs
<1>3. /\ q # <<>> /\ IsList(q) /\ Cmd(x) = q[1] /\ IsCmd(q[1]) /\ HeadAt(pages, q, gc, f, p, n, s, w)
      /\ PageOf(x, q[1].vpage_id) = p /\ WriteAddr(x, p) = s + w
  BY <1>2 DEF Where
<1>4. Head(q) = q[1] /\ IsStore(q[1])
  BY <1>1, <1>3, ListHead DEF HeadIs, IsStore
<1>5. q[1].op_code = "WRITE_IC" /\ WritingAt(pages, q[1], f)
  BY <1>1, <1>4
<1>6. PICK dst : dst = s + w + 1
  OBVIOUS
<1>7. PICK words : words = <<<<"IC", q[1].instance>>>>
  OBVIOUS
<1>8. PICK r : OpCode(q, "DONE", r)
  BY DEF OpCode
<1>9. PICK d : Advances(q, d, "DONE")
  BY DEF Advances
<1>10. Goes(q, d, r)
  BY <1>8, <1>9, OpCodes
<1>13. Writes(x, dst, words, "DONE", res)
  <2>1. WriteAddr(x, PageOf(x, Cmd(x).vpage_id)) + OFFSET_IC = dst
    BY <1>3, <1>6 DEF OFFSET_IC
  <2> QED
    BY <2>1, <1>3, <1>5, <1>7 DEF StoreExecute, Writes
<1>14. PICK op : op = Store(dst, words)
  OBVIOUS
<1>15. Step(pages, r, x.m_chunk_queue, gc, x.stack, tk, ds, f, op)
  <2>1. Layout(pages, q, x.m_chunk_queue, gc, x.stack, tk, ds, f) /\ FlashOK(f)
    BY <1>1 DEF At, Core
  <2>2. op = Store(s + w + 1, <<<<"IC", q[1].instance>>>>)
    BY <1>6, <1>7, <1>14
  <2> QED
    BY <2>1, <2>2, <1>3, <1>4, <1>5, <1>9, <1>10, WriteIC
<1> QED
  BY <1>1, <1>3, <1>4, <1>8, <1>9, <1>13, <1>14, <1>15, OneWordWritten

Consumption(q, chunk, r) ==
  r = [q EXCEPT ![1].num_chunks = @ - 1, ![1].chunk_offset = @ + Len(chunk),
                ![1].op_code = IF q[1].num_chunks = 1 THEN "WRITE_IC" ELSE "WRITE_CHUNK"]

\* A chunk is taken: the change of the queue.
LEMMA Consumptions ==
  ASSUME NEW q, IsList(q), q # <<>>, NEW chunk, NEW r, Consumption(q, chunk, r), NEW d, Consumes(q, d, Len(chunk))
  PROVE  Goes(q, d, r)
<1>1. PICK n \in Nat : n = Len(q) /\ q = [i \in 1 .. n |-> q[i]] /\ 1 \in 1 .. n
  BY ListIs
<1> QED
  BY <1>1 DEF Consumption, Consumes, Goes

ChunkWrites(x, q, dst, chunk, res) ==
  res = Executing([FsStore(x, dst, chunk) EXCEPT
                     !.m_chunk_queue = Tail(@),
                     !.m_cmd_queue[1].num_chunks = @ - 1,
                     !.m_cmd_queue[1].chunk_offset = @ + Len(chunk),
                     !.m_cmd_queue[1].op_code = IF q[1].num_chunks = 1 THEN "WRITE_IC" ELSE "WRITE_CHUNK"])
ChunkSets(z, a, b, c, t) == t = [z EXCEPT !.m_chunk_queue = Tail(@), !.m_cmd_queue[1].num_chunks = a,
                                         !.m_cmd_queue[1].chunk_offset = b, !.m_cmd_queue[1].op_code = c]
QueuesSet(z, r, ch, t) == t = [z EXCEPT !.m_cmd_queue = r, !.m_chunk_queue = ch]

\* The assignments that take a chunk, one after the other.
LEMMA ChunkExcept ==
  ASSUME NEW z, Ram(z), NEW q, z.m_cmd_queue = q, NEW ch, z.m_chunk_queue = ch, NEW a, NEW b, NEW c,
         NEW q1, q1 = [q EXCEPT ![1].num_chunks = a], NEW q2, q2 = [q1 EXCEPT ![1].chunk_offset = b],
         NEW q3, q3 = [q2 EXCEPT ![1].op_code = c], NEW t, ChunkSets(z, a, b, c, t)
  PROVE  QueuesSet(z, q3, Tail(ch), t)
<1>1. PICK z1 : z1 = [z EXCEPT !.m_chunk_queue = Tail(@)]
  OBVIOUS
<1>2. Ram(z1) /\ z1.m_cmd_queue = q
  BY <1>1 DEF Ram
<1>3. PICK z2 : z2 = [z1 EXCEPT !.m_cmd_queue[1].num_chunks = a]
  OBVIOUS
<1>4. Ram(z2) /\ z2.m_cmd_queue = q1
  BY <1>2, <1>3 DEF Ram
<1>5. PICK z3 : z3 = [z2 EXCEPT !.m_cmd_queue[1].chunk_offset = b]
  OBVIOUS
<1>6. Ram(z3) /\ z3.m_cmd_queue = q2
  BY <1>4, <1>5 DEF Ram
<1>7. PICK z4 : z4 = [z3 EXCEPT !.m_cmd_queue[1].op_code = c]
  OBVIOUS
<1>8. Ram(z4) /\ z4.m_cmd_queue = q3
  BY <1>6, <1>7 DEF Ram
<1>9. z4 = t
  BY <1>1, <1>3, <1>5, <1>7 DEF ChunkSets
<1>10. z2 = [z1 EXCEPT !.m_cmd_queue = q1]
  BY <1>2, <1>3
<1>11. z3 = [z1 EXCEPT !.m_cmd_queue = q2]
  BY <1>2, <1>4, <1>5, <1>10 DEF Ram
<1>12. z4 = [z1 EXCEPT !.m_cmd_queue = q3]
  BY ZenonT(20), <1>2, <1>6, <1>7, <1>11 DEF Ram
<1>13. z4 = [z EXCEPT !.m_cmd_queue = q3, !.m_chunk_queue = Tail(ch)]
  BY ZenonT(60), <1>1, <1>12 DEF Ram
<1> QED
  BY <1>9, <1>13 DEF QueuesSet

\* What they change of the RAM.
LEMMA ChunkChanged ==
  ASSUME NEW z, Ram(z), NEW op, Begun(z, op), NEW x, Kept(x, z), NEW r, NEW ch, NEW y,
         y = [z EXCEPT !.m_cmd_queue = r, !.m_chunk_queue = ch]
  PROVE  Ram(y) /\ Begun(y, op) /\ Becomes(x, y, r, ch, x.m_pages, x.m_gc, x.stack)
BY DEF Ram, Begun, Kept, Becomes, FsOther

\* Writing a chunk begins a safe operation.
LEMMA StoreChunk ==
  ASSUME NEW x, NEW f, NEW tk, NEW ds, At(x, f, tk, ds), HeadIs(x.m_cmd_queue, {"WRITE", "UPDATE"}),
         Head(x.m_cmd_queue).op_code = "WRITE_CHUNK", WritingAt(x.m_pages, Head(x.m_cmd_queue), f),
         NEW res, res = StoreExecute(x, TRUE)
  PROVE  Executes(res, f, tk, ds)
<1>1. PICK q, pages, gc : q = x.m_cmd_queue /\ pages = x.m_pages /\ gc = x.m_gc
  OBVIOUS
<1>0. PICK ch : ch = x.m_chunk_queue
  OBVIOUS
<1>2. PICK p \in Page, n \in Nat, s \in Nat, w \in Nat : Where(x, q, pages, gc, f, p, n, s, w)
  BY <1>1, WhereIs
<1>3. /\ q # <<>> /\ IsList(q) /\ Cmd(x) = q[1] /\ IsCmd(q[1]) /\ HeadAt(pages, q, gc, f, p, n, s, w)
      /\ PageOf(x, q[1].vpage_id) = p /\ WriteAddr(x, p) = s + w
  BY <1>2 DEF Where
<1>4. Head(q) = q[1] /\ IsStore(q[1])
  BY <1>1, <1>3, ListHead DEF HeadIs, IsStore
<1>5. q[1].op_code = "WRITE_CHUNK" /\ WritingAt(pages, q[1], f)
  BY <1>1, <1>4
<1>6. PICK dst : dst = s + w + q[1].chunk_offset
  OBVIOUS
<1>7. PICK chunk : chunk = Head(ch)
  OBVIOUS
<1>8. PICK r : Consumption(q, chunk, r)
  BY DEF Consumption
<1>9. PICK d : Consumes(q, d, Len(chunk))
  BY DEF Consumes
<1>10. Goes(q, d, r)
  BY <1>3, <1>8, <1>9, Consumptions
<1>13. ChunkWrites(x, q, dst, chunk, res)
  <2>1. WriteAddr(x, PageOf(x, Cmd(x).vpage_id)) + Cmd(x).chunk_offset = dst
    BY <1>3, <1>6
  <2>2. Head(x.m_chunk_queue) = chunk
    BY <1>0, <1>7
  <2> QED
    BY Zenon, <2>1, <2>2, <1>3, <1>5 DEF StoreExecute, ChunkWrites
<1>14. PICK op : op = Store(dst, chunk)
  OBVIOUS
<1>15. Step(pages, r, Tail(ch), gc, x.stack, tk, ds, f, op) /\ Len(Tail(ch)) = Len(ch) - 1 /\ Len(ch) \in Nat
  <2>1. Layout(pages, q, ch, gc, x.stack, tk, ds, f) /\ FlashOK(f)
    BY <1>0, <1>1 DEF At, Core
  <2>2. op = Store(s + w + q[1].chunk_offset, Head(ch))
    BY <1>6, <1>7, <1>14
  <2>3. Consumes(q, d, Len(Head(ch)))
    BY <1>7, <1>9
  <2> QED
    BY <2>1, <2>2, <2>3, <1>3, <1>4, <1>5, <1>10, WriteChunk
<1>16. PICK z : z = FsStore(x, dst, chunk)
  OBVIOUS
<1>17. Ram(z) /\ Begun(z, op) /\ Kept(x, z)
  BY <1>14, <1>16, StartedStore DEF At
<1>18. PICK y : y = [z EXCEPT !.m_cmd_queue = r, !.m_chunk_queue = Tail(ch)]
  OBVIOUS
<1>19. Ram(y) /\ Begun(y, op) /\ Becomes(x, y, r, Tail(ch), pages, gc, x.stack)
  BY <1>1, <1>17, <1>18, ChunkChanged
<1>20. res.ret = "EXECUTING" /\ res.x = y
  <2>1. z.m_cmd_queue = q /\ z.m_chunk_queue = ch
    BY <1>0, <1>1, <1>17 DEF Kept
  <2>2. PICK t : t = [z EXCEPT !.m_chunk_queue = Tail(@), !.m_cmd_queue[1].num_chunks = @ - 1,
                     !.m_cmd_queue[1].chunk_offset = @ + Len(chunk),
                     !.m_cmd_queue[1].op_code = IF q[1].num_chunks = 1 THEN "WRITE_IC" ELSE "WRITE_CHUNK"]
    BY SMTT(20)
  <2>3. res = Executing(t)
    BY <1>13, <1>16, <2>2 DEF ChunkWrites
  <2>4. PICK a, b, c : /\ a = q[1].num_chunks - 1 /\ b = q[1].chunk_offset + Len(chunk)
                       /\ c = IF q[1].num_chunks = 1 THEN "WRITE_IC" ELSE "WRITE_CHUNK"
    OBVIOUS
  <2>5. ChunkSets(z, a, b, c, t)
    BY <2>1, <2>2, <2>4 DEF ChunkSets
  <2>6. PICK q1 : q1 = [q EXCEPT ![1].num_chunks = a]
    OBVIOUS
  <2>7. PICK q2 : q2 = [q1 EXCEPT ![1].chunk_offset = b]
    OBVIOUS
  <2>8. PICK q3 : q3 = [q2 EXCEPT ![1].op_code = c]
    OBVIOUS
  <2>9. q3 = r
    BY <2>4, <2>6, <2>7, <2>8, <1>8 DEF Consumption
  <2>10. QueuesSet(z, q3, Tail(ch), t)
    BY <2>1, <2>5, <2>6, <2>7, <2>8, <1>17, ChunkExcept
  <2>11. t = y
    BY <2>9, <2>10, <1>18 DEF QueuesSet
  <2>12. res = [x |-> t, ret |-> "EXECUTING"]
    BY <2>3 DEF Executing, Says
  <2> QED
    BY ONLY <2>11, <2>12
<1>21. IsList(r) /\ Len(r) = Len(q) /\ r # <<>> /\ Head(r) = d /\ r[1] = d
  BY <1>3, <1>10, Gone
<1>22. d.id = q[1].id
  BY <1>3, <1>9 DEF Consumes, IsCmd
<1>23. SwapKnown(x, pages, gc)
  BY <1>1, SwapStays DEF At
<1>24. AtWork(y, op, Done(f, op))
  <2>1. y.m_cmd_queue = r /\ y.m_pages = pages
    BY <1>19 DEF Becomes
  <2>2. HeadIs(r, {"WRITE", "UPDATE"})
    BY <1>4, <1>21, <1>22 DEF HeadIs, IsStore
  <2>3. WritingAt(pages, Head(r), Done(f, op))
    BY <1>15 DEF Step
  <2> QED
    BY <2>1, <2>2, <2>3 DEF AtWork
<1>25. SafeOp(f, op) /\ Layout(pages, r, Tail(ch), gc, x.stack, tk, ds, Done(f, op)) /\ Accounts(pages, r, f)
  BY <1>15 DEF Step
<1>26. Head(r).id = Head(x.m_cmd_queue).id /\ Len(r) = Len(x.m_cmd_queue) /\ x.m_cmd_queue # <<>>
  BY <1>1, <1>3, <1>4, <1>21, <1>22
<1>27. Len(x.m_chunk_queue) \in Nat /\ Len(Tail(ch)) = Len(x.m_chunk_queue) - 1
  BY <1>0, <1>15
<1>28. Begins(y, f, tk, ds, op)
  BY <1>19, <1>21, <1>23, <1>24, <1>25, <1>26, <1>27, BeginsIs
<1> QED
  BY <1>20, <1>28 DEF Executes

\* The command at the head has come to its end.
Ends(y, f, tk, ds) ==
  /\ Ram(y) /\ Free(y) /\ FlashOK(f) /\ FlagsOK(y) /\ BoundsOK(y) /\ y.m_cmd_queue # <<>> /\ IsList(y.m_cmd_queue)
  /\ ~HeadIs(y.m_cmd_queue, {"INIT"})
  /\ \A n \in 1 .. Len(y.m_cmd_queue) : n > 1 => Fresh(y.m_cmd_queue[n])
  /\ Layout(y.m_pages, Tail(y.m_cmd_queue), y.m_chunk_queue, y.m_gc, y.stack, tk, ds, f)
Completes(res, f, tk, ds) == res.ret = "COMPLETED" /\ Ends(res.x, f, tk, ds)

\* What changes when the pages do.
LEMMA PagesChanged ==
  ASSUME NEW x, Ram(x), Free(x), NEW other, NEW y, y = [x EXCEPT !.m_pages = other]
  PROVE  Ram(y) /\ Free(y) /\ Becomes(x, y, x.m_cmd_queue, x.m_chunk_queue, other, x.m_gc, x.stack)
BY DEF Ram, Free, Becomes, FsOther

\* The command of a record that has been written is complete.
LEMMA StoreEnds ==
  ASSUME NEW x, NEW f, NEW tk, NEW ds, At(x, f, tk, ds), HeadIs(x.m_cmd_queue, {"WRITE", "UPDATE"}),
         Head(x.m_cmd_queue).op_code = "DONE", WritingAt(x.m_pages, Head(x.m_cmd_queue), f),
         NEW res, res = StoreExecute(x, TRUE)
  PROVE  Completes(res, f, tk, ds)
<1>1. PICK q, pages, gc : q = x.m_cmd_queue /\ pages = x.m_pages /\ gc = x.m_gc
  OBVIOUS
<1>0. PICK ch : ch = x.m_chunk_queue
  OBVIOUS
<1>2. PICK p \in Page, n \in Nat, s \in Nat, w \in Nat : Where(x, q, pages, gc, f, p, n, s, w)
  BY <1>1, WhereIs
<1>3. /\ q # <<>> /\ IsList(q) /\ Cmd(x) = q[1] /\ IsCmd(q[1]) /\ HeadAt(pages, q, gc, f, p, n, s, w)
      /\ PageOf(x, q[1].vpage_id) = p /\ WriteAddr(x, p) = s + w
  BY <1>2 DEF Where
<1>4. Head(q) = q[1] /\ IsStore(q[1])
  BY <1>1, <1>3, ListHead DEF HeadIs, IsStore
<1>5. q[1].op_code = "DONE" /\ WritingAt(pages, q[1], f)
  BY <1>1, <1>4
<1>6. Layout(pages, q, ch, gc, x.stack, tk, ds, f) /\ FlashOK(f)
  BY <1>0, <1>1 DEF At, Core
<1>7. PICK a \in Nat, o \in Nat : BodyAt(pages, q, f, p, n, s, w, a, o)
  BY <1>3, <1>4, <1>5, <1>6, BodyIs
<1>8. o = 3 + n /\ q[1].num_chunks = 0 /\ o = q[1].chunk_offset
  BY <1>5, <1>7 DEF BodyAt, Progress
<1>9. PICK b \in Nat : b = pages[p].words_reserved /\ w = pages[p].write_offset
  BY <1>3, <1>6, PageFields DEF Layout, PagesOK, PagesTyped, HeadAt
<1>10. PICK k \in Nat : k = 3 + n
  OBVIOUS
<1>11. FDS_HEADER_SIZE + Cmd(x).chunk_offset - OFFSET_DATA = k
  BY <1>3, <1>8, <1>10 DEF FDS_HEADER_SIZE, OFFSET_DATA
<1>12. PICK other : other = [pages EXCEPT ![p].write_offset = @ + k, ![p].words_reserved = @ - k]
  OBVIOUS
<1>13. Numbers(pages, p, w + (3 + n), b - (3 + n), other)
  <2>1. PagesTyped(pages)
    BY <1>6 DEF Layout, PagesOK
  <2>2. pages = [i \in Page |-> pages[i]] /\ IsPage(pages[p])
    BY <2>1 DEF PagesTyped
  <2> QED
    BY <2>2, <1>9, <1>10, <1>12 DEF Numbers, IsPage
<1>14. Layout(other, Tail(q), ch, gc, x.stack, tk, ds, f)
  BY <1>3, <1>4, <1>5, <1>6, <1>8, <1>9, <1>13, RecordDone
<1>15. PICK y : y = [x EXCEPT !.m_pages = other]
  OBVIOUS
<1>16. Ram(y) /\ Free(y) /\ Becomes(x, y, q, ch, other, gc, x.stack)
  BY <1>0, <1>1, <1>15, PagesChanged DEF At
<1>17. res.ret = "COMPLETED" /\ res.x = y
  <2>1. res = Completed(Settled(x))
    BY <1>3, <1>5 DEF StoreExecute
  <2>2. Settled(x) = [x EXCEPT !.m_pages[p].write_offset = @ + k, !.m_pages[p].words_reserved = @ - k]
    BY <1>3, <1>11 DEF Settled
  <2>3. Settled(x) = y
    BY <2>2, <1>1, <1>12, <1>15 DEF At, Ram
  <2>4. res = Completed(y)
    BY <2>1, <2>3
  <2>5. res = [x |-> y, ret |-> "COMPLETED"]
    BY <2>4 DEF Completed, Says
  <2> QED
    BY ONLY <2>5
<1>18. FlagsOK(y)
  <2>1. SwapKnown(x, pages, gc)
    BY <1>1, SwapStays DEF At
  <2>2. gc.swap_page \in Page
    BY <1>6 DEF Layout, GcOK, IsGc
  <2>3. \A i \in Page : other[i].page_type = pages[i].page_type
    <3>1. PagesTyped(pages)
      BY <1>6 DEF Layout, PagesOK
    <3>2. pages = [i \in Page |-> pages[i]] /\ IsPage(pages[p])
      BY <3>1 DEF PagesTyped
    <3> QED
      BY <3>2, <1>12 DEF IsPage
  <2>4. SwapKnown(x, other, gc)
    BY <2>1, <2>2, <2>3 DEF SwapKnown
  <2> QED
    BY <2>4, <1>1, <1>3, <1>16, FlagsStay DEF At
<1>19. BoundsOK(y)
  BY <1>0, <1>1, <1>16, BoundsStay DEF At
<1>20. \A i \in 1 .. Len(q) : i > 1 => Fresh(q[i])
  BY <1>6 DEF Layout, QueueOK
<1>21. y.m_cmd_queue = q /\ y.m_chunk_queue = ch /\ y.m_pages = other /\ y.m_gc = gc /\ y.stack = x.stack
  BY <1>16 DEF Becomes
<1>23. ~HeadIs(q, {"INIT"})
  BY <1>4 DEF HeadIs, IsStore
<1>22. Ends(y, f, tk, ds)
  BY <1>23, <1>3, <1>6, <1>14, <1>16, <1>18, <1>19, <1>20, <1>21 DEF Ends
<1> QED
  BY <1>17, <1>22 DEF Completes

--------------------------------------------------------------------------------

(* Records are looked for. *)
Lies(pages, f, a) == \E p \in Page : pages[p].page_type = "VALID" /\ a \in HeadersOf(f, p)

\* A record found by its number lies in the flash.
LEMMA SeekFinds ==
  ASSUME NEW x, NEW pages, pages = x.m_pages, PagesTyped(pages), Apart(pages), NEW f, FlashOK(f), NEW v,
         ValidPage(pages, v), NEW k, NEW a, a = SeekRecord(x, f, v, k), a # NULL
  PROVE  Lies(pages, f, a)
<1>1. PICK p \in Page : /\ pages[p].page_type = "VALID" /\ pages[p].vpage_id = v
                         /\ (CHOOSE i \in Page : pages[i].vpage_id = v) = p
  BY ValidPageIs
<1>2. PageOf(x, v) = p
  BY <1>1 DEF PageOf, Data
<1>3. PICK found : found = {b \in ValidIn(f, PageOf(x, v)) : IdAt(f, b) = k}
  OBVIOUS
<1>4. \A b \in found : b \in HeadersOf(f, p)
  BY <1>2, <1>3 DEF ValidIn
<1>5. \A b \in found : b \in Nat
  BY <1>4, HeaderMeans
<1>6. a = IF found = {} THEN NULL ELSE Min(found)
  BY <1>3 DEF SeekRecord
<1>7. a \in found
  BY <1>5, <1>6, MinIs
<1> QED
  BY <1>1, <1>4, <1>7 DEF Lies

\* Every record seen lies in the flash.
LEMMA SeenAre ==
  ASSUME NEW x, NEW pages, pages = x.m_pages, PagesTyped(pages), NEW f, FlashOK(f), NEW va \in Visible(x, f)
  PROVE  /\ Lies(pages, f, va[2]) /\ va # <<>> /\ va[2] \in Nat
         /\ \E v \in Nat, a \in Nat : va = <<v, a>>
         /\ ValidPage(pages, va[1])
<1>1. PICK p \in Page : Data(x, p).page_type = "VALID" /\ va \in {<<Data(x, p).vpage_id, a>> : a \in ValidIn(f, p)}
  BY DEF Visible
<1>2. PICK a \in ValidIn(f, p) : va = <<Data(x, p).vpage_id, a>>
  BY <1>1
<1>3. a \in HeadersOf(f, p) /\ a \in Nat
  BY <1>2, HeaderMeans DEF ValidIn
<1>4. PICK v \in Nat : v = pages[p].vpage_id
  BY PageFields, Sizes DEF PagesTyped
<1>5. va = <<v, a>> /\ va[2] = a /\ va[1] = v
  BY <1>2, <1>4 DEF Data
<1>6. va # <<>>
  BY <1>5
<1>7. ValidPage(pages, va[1])
  BY <1>1, <1>4, <1>5 DEF ValidPage, Data
<1> QED
  BY <1>1, <1>3, <1>4, <1>5, <1>6, <1>7 DEF Lies, Data

\* So does the one a search returns.
LEMMA FindFinds ==
  ASSUME NEW x, NEW pages, pages = x.m_pages, PagesTyped(pages), NEW f, FlashOK(f), NEW s, NEW tok,
         NEW next, next = FindRecord(x, f, s, tok), next # <<>>
  PROVE  Lies(pages, f, next[2])
<1>1. PICK found : found = {va \in Visible(x, f) : InstanceAt(f, va[2]) = s /\ (tok = <<>> \/ Before(tok, va))}
  OBVIOUS
<1>2. next = IF found = {} THEN <<>> ELSE CHOOSE va \in found : \A vb \in found \ {va} : Before(va, vb)
  BY <1>1 DEF FindRecord
<1>3. \A va \in found : va \in Visible(x, f)
  BY <1>1
<1>4. found # {}
  BY <1>2
<1>5. \A va \in found : \E v \in Nat, a \in Nat : va = <<v, a>>
  BY <1>3, SeenAre
<1>6. \E va \in found : \A vb \in found \ {va} : Before(va, vb)
  BY <1>4, <1>5, FirstPair
<1>7. next \in found
  BY <1>2, <1>4, <1>6
<1> QED
  BY <1>3, <1>7, SeenAre

\* The record at a is cleared by the command at the head, that goes on as d.
LEMMA ClearBegins ==
  ASSUME NEW x, NEW f, NEW tk, NEW ds, At(x, f, tk, ds), HeadIs(x.m_cmd_queue, {"CLEAR", "CLEAR_INST"}),
         NEW a, Lies(x.m_pages, f, a), NEW op, op = Store(a, <<TLInvalid>>), NEW y, Ram(y), Begun(y, op),
         NEW d, CmdOK(x.m_pages, d), d.id = Head(x.m_cmd_queue).id, Alike(Head(x.m_cmd_queue), d),
         d.id = "CLEAR" => d.op_code = "DONE", d.id = "CLEAR_INST" => d.op_code = "CLEAR_INSTANCE",
         NEW r, Goes(x.m_cmd_queue, d, r), Becomes(x, y, r, x.m_chunk_queue, x.m_pages, x.m_gc, a)
  PROVE  Begins(y, f, tk, ds, op)
<1>1. PICK q, pages, gc : q = x.m_cmd_queue /\ pages = x.m_pages /\ gc = x.m_gc
  OBVIOUS
<1>2. PICK ch : ch = x.m_chunk_queue
  OBVIOUS
<1>3. Layout(pages, q, ch, gc, x.stack, tk, ds, f) /\ FlashOK(f)
  BY <1>1, <1>2 DEF At, Core
<1>4. QueueOK(pages, q, gc)
  BY <1>3 DEF Layout
<1>5. q # <<>> /\ IsList(q) /\ Head(q) = q[1] /\ Head(q).id \in {"CLEAR", "CLEAR_INST"}
  BY <1>1, <1>4, QueueWords DEF HeadIs
<1>6. ~IsStore(q[1])
  BY <1>5 DEF IsStore
<1>7. Layout(pages, r, ch, gc, x.stack, tk, ds, f) /\ Head(r) = d /\ r # <<>> /\ Len(r) = Len(q)
  BY <1>1, <1>3, <1>5, <1>6, LayoutGoes
<1>8. ~HeadIs(r, {"GC"})
  BY <1>1, <1>5, <1>7 DEF HeadIs
<1>9. PICK p \in Page : pages[p].page_type = "VALID" /\ a \in HeadersOf(f, p)
  BY <1>1 DEF Lies
<1>10. SafeOp(f, op) /\ Layout(pages, r, ch, gc, a, tk, ds, Done(f, op))
  BY <1>3, <1>7, <1>8, <1>9, ClearRecord
<1>11. Accounts(pages, r, f)
  BY <1>7, EndsAccount DEF Layout, PagesOK
<1>12. SwapKnown(x, pages, gc)
  BY <1>1, SwapStays DEF At
<1>13. y.m_cmd_queue = r
  BY DEF Becomes
<1>14. AtWork(y, op, Done(f, op))
  <2>1. CASE d.id = "CLEAR"
    BY <2>1, <1>7, <1>13 DEF AtWork, HeadIs
  <2>2. CASE d.id = "CLEAR_INST"
    BY <2>2, <1>7, <1>13 DEF AtWork, HeadIs
  <2> QED
    BY <1>1, <1>5, <2>1, <2>2
<1>15. Head(r).id = Head(x.m_cmd_queue).id /\ Len(r) = Len(x.m_cmd_queue) /\ x.m_cmd_queue # <<>>
  BY <1>1, <1>5, <1>7
<1>16. Becomes(x, y, r, ch, pages, gc, a) /\ Len(ch) = Len(x.m_chunk_queue)
  BY <1>1, <1>2
<1> QED
  BY <1>7, <1>10, <1>11, <1>12, <1>14, <1>15, <1>16, BeginsIs

--------------------------------------------------------------------------------

(* Clearing is executed. *)
StackSet(z, a, t) == t = [z EXCEPT !.stack = a]
TokSet(z, a, t) == t = [z EXCEPT !.tok = a]
QueueSet(z, r, t) == t = [z EXCEPT !.m_cmd_queue = r]

\* What changes when the word on the stack does.
LEMMA StackChanged ==
  ASSUME NEW z, Ram(z), NEW op, Begun(z, op), NEW x, Kept(x, z), NEW a, NEW t, StackSet(z, a, t)
  PROVE  Ram(t) /\ Begun(t, op) /\ Becomes(x, t, x.m_cmd_queue, x.m_chunk_queue, x.m_pages, x.m_gc, a)
BY DEF Ram, Begun, Kept, Becomes, FsOther, StackSet

\* What changes when the command queue does.
LEMMA QueueChanged ==
  ASSUME NEW z, Ram(z), NEW r, NEW t, QueueSet(z, r, t), NEW x, NEW q, NEW ch, NEW pages, NEW gc, NEW stack,
         Becomes(x, z, q, ch, pages, gc, stack)
  PROVE  Ram(t) /\ Becomes(x, t, r, ch, pages, gc, stack) /\ FsKept(z, t)
BY DEF Ram, Becomes, QueueSet, FsKept

\* What changes when the search's token does.
LEMMA TokChanged ==
  ASSUME NEW z, Ram(z), NEW r, NEW t, TokSet(z, r, t), NEW x, NEW q, NEW ch, NEW pages, NEW gc, NEW stack,
         Becomes(x, z, q, ch, pages, gc, stack)
  PROVE  Ram(t) /\ Becomes(x, t, q, ch, pages, gc, stack) /\ FsKept(z, t)
BY DEF Ram, Becomes, TokSet, FsKept

\* The storage is at work as before.
LEMMA FsStays ==
  ASSUME NEW x, NEW y, FsKept(x, y)
  PROVE  (Free(x) => Free(y)) /\ \A op : Begun(x, op) => Begun(y, op)
BY DEF FsKept, Free, Begun, FsOther

\* Nothing changes when nothing does.
LEMMA Itself ==
  ASSUME NEW x
  PROVE  Becomes(x, x, x.m_cmd_queue, x.m_chunk_queue, x.m_pages, x.m_gc, x.stack)
BY DEF Becomes

Cleared(c, s, d) == d = [c EXCEPT !.instance = s, !.op_code = "DONE"]

\* The command once its record has been found.
LEMMA ClearedIs ==
  ASSUME NEW pages, NEW c, CmdOK(pages, c), c.id = "CLEAR", NEW s, NEW d, Cleared(c, s, d)
  PROVE  CmdOK(pages, d) /\ d.id = "CLEAR" /\ d.op_code = "DONE" /\ Alike(c, d)
<1>1. IsCmd(c) /\ ValidPage(pages, c.vpage_id)
  BY DEF CmdOK
<1>2. /\ IsCmd(d) /\ d.id = "CLEAR" /\ d.op_code = "DONE" /\ d.vpage_id = c.vpage_id /\ d.num_chunks = c.num_chunks
      /\ d.chunk_offset = c.chunk_offset /\ d.length_words = c.length_words
  BY <1>1 DEF IsCmd, Cleared
<1> QED
  BY <1>1, <1>2 DEF CmdOK, Alike, IsStore

\* The command once there is nothing left to clear.
LEMMA EndedIs ==
  ASSUME NEW pages, NEW q, CmdOK(pages, q[1]), q[1].id \in {"CLEAR", "CLEAR_INST"}, NEW d, Advances(q, d, "DONE")
  PROVE  CmdOK(pages, d) /\ d.id = q[1].id /\ d.op_code = "DONE" /\ Alike(q[1], d)
<1>1. IsCmd(q[1]) /\ (q[1].id = "CLEAR" => ValidPage(pages, q[1].vpage_id))
  BY DEF CmdOK
<1>2. IsCmd(d) /\ d.id = q[1].id /\ d.vpage_id = q[1].vpage_id /\ d.op_code = "DONE" /\ Alike(q[1], d)
  BY <1>1, AdvancesIs
<1> QED
  BY <1>1, <1>2 DEF CmdOK, IsStore

\* The change of the queue that makes it so.
LEMMA ClearedGoes ==
  ASSUME NEW q, IsList(q), q # <<>>, NEW s, NEW d, Cleared(q[1], s, d), NEW r, NEW q1,
         q1 = [q EXCEPT ![1].instance = s], r = [q1 EXCEPT ![1].op_code = "DONE"]
  PROVE  Goes(q, d, r)
<1>1. PICK n \in Nat : n = Len(q) /\ q = [i \in 1 .. n |-> q[i]] /\ 1 \in 1 .. n
  BY ListIs
<1> QED
  BY <1>1 DEF Cleared, Goes

\* A command to clear that has nothing to clear.
LEMMA ClearRests ==
  ASSUME NEW x, NEW f, NEW tk, NEW ds, At(x, f, tk, ds), HeadIs(x.m_cmd_queue, {"CLEAR", "CLEAR_INST"}),
         NEW y, Ram(y), Free(y), NEW d, NEW r, Advances(x.m_cmd_queue, d, "DONE"), Goes(x.m_cmd_queue, d, r),
         Becomes(x, y, r, x.m_chunk_queue, x.m_pages, x.m_gc, x.stack)
  PROVE  Rests(y, f, tk, ds) /\ y.m_cmd_queue # <<>> /\ HeadIs(y.m_cmd_queue, {"CLEAR", "CLEAR_INST"})
<1>1. PICK q, pages, gc : q = x.m_cmd_queue /\ pages = x.m_pages /\ gc = x.m_gc
  OBVIOUS
<1>2. PICK ch : ch = x.m_chunk_queue
  OBVIOUS
<1>3. Layout(pages, q, ch, gc, x.stack, tk, ds, f) /\ FlashOK(f)
  BY <1>1, <1>2 DEF At, Core
<1>4. QueueOK(pages, q, gc)
  BY <1>3 DEF Layout
<1>5. q # <<>> /\ IsList(q) /\ Head(q) = q[1] /\ Head(q).id \in {"CLEAR", "CLEAR_INST"} /\ CmdOK(pages, q[1])
  BY <1>1, <1>4, QueueWords DEF HeadIs
<1>6. ~IsStore(q[1])
  BY <1>5 DEF IsStore
<1>7. CmdOK(pages, d) /\ d.id = q[1].id /\ d.op_code = "DONE" /\ Alike(q[1], d)
  <2>1. Advances(q, d, "DONE")
    BY <1>1
  <2> QED
    BY ONLY <1>5, <2>1, EndedIs
<1>8. Layout(pages, r, ch, gc, x.stack, tk, ds, f) /\ Head(r) = d /\ r # <<>> /\ Len(r) = Len(q)
  BY <1>1, <1>3, <1>5, <1>6, <1>7, LayoutGoes
<1>9. /\ y.m_cmd_queue = r /\ y.m_chunk_queue = ch /\ y.m_pages = pages /\ y.m_gc = gc /\ y.stack = x.stack
  BY <1>1, <1>2 DEF Becomes
<1>10. Core(y, f, tk, ds)
  BY <1>8, <1>9 DEF Core
<1>11. SwapKnown(x, pages, gc)
  BY <1>1, SwapStays DEF At
<1>12. FlagsOK(y)
  BY <1>1, <1>2, <1>5, <1>7, <1>8, <1>11, FlagsStay DEF At
<1>13. BoundsOK(y)
  BY <1>1, <1>2, <1>8, BoundsStay DEF At
<1>14. HeadIs(y.m_cmd_queue, {"CLEAR", "CLEAR_INST"})
  BY <1>5, <1>7, <1>8, <1>9 DEF HeadIs
<1>15. Stuck(y)
  BY <1>7, <1>8, <1>9, <1>14 DEF Stuck
<1> QED
  BY <1>3, <1>8, <1>9, <1>10, <1>12, <1>13, <1>14, <1>15 DEF Rests, At, Active

\* Such a command, or one that has cleared what it was to, goes.
LEMMA PlainEnds ==
  ASSUME NEW y, NEW f, NEW tk, NEW ds, At(y, f, tk, ds), y.m_cmd_queue # <<>>, ~IsStore(Head(y.m_cmd_queue)),
         ~HeadIs(y.m_cmd_queue, {"INIT"}), y.m_gc.state \notin Mid
  PROVE  Ends(y, f, tk, ds)
<1>1. PICK q, pages, gc : q = y.m_cmd_queue /\ pages = y.m_pages /\ gc = y.m_gc
  OBVIOUS
<1>2. PICK ch : ch = y.m_chunk_queue
  OBVIOUS
<1>3. Layout(pages, q, ch, gc, y.stack, tk, ds, f) /\ FlashOK(f)
  BY <1>1, <1>2 DEF At, Core
<1>4. QueueOK(pages, q, gc)
  BY <1>3 DEF Layout
<1>5. q # <<>> /\ IsList(q) /\ Head(q) = q[1]
  BY <1>1, <1>4, QueueWords
<1>6. Layout(pages, Tail(q), ch, gc, y.stack, tk, ds, f)
  BY <1>1, <1>3, <1>5, LayoutPops
<1>7. \A n \in 1 .. Len(q) : n > 1 => Fresh(q[n])
  BY <1>4 DEF QueueOK
<1> QED
  BY <1>1, <1>2, <1>3, <1>5, <1>6, <1>7 DEF Ends, At

ClearsAt(x, a, s, res) ==
  res = Executing([[ClearAt(x, a) EXCEPT !.m_cmd_queue[1].instance = s] EXCEPT !.m_cmd_queue[1].op_code = "DONE"])
ClearStops(x, res) == res.x = [x EXCEPT !.m_cmd_queue[1].op_code = "DONE"]
SetTwice(z, s, code, t) == t = [[z EXCEPT !.m_cmd_queue[1].instance = s] EXCEPT !.m_cmd_queue[1].op_code = code]
InstanceIs(q, s, q1) == q1 = [q EXCEPT ![1].instance = s]

\* The two assignments to the first command, one after the other.
LEMMA QueueExcept ==
  ASSUME NEW z, Ram(z), NEW q, z.m_cmd_queue = q, NEW s, NEW code,
         NEW q1, InstanceIs(q, s, q1), NEW r, OpCode(q1, code, r), NEW t, SetTwice(z, s, code, t)
  PROVE  QueueSet(z, r, t)
<1>1. PICK z1 : z1 = [z EXCEPT !.m_cmd_queue[1].instance = s]
  OBVIOUS
<1>2. z1 = [z EXCEPT !.m_cmd_queue = q1]
  BY <1>1 DEF InstanceIs
<1>3. Ram(z1) /\ z1.m_cmd_queue = q1
  BY <1>2 DEF Ram
<1>4. t = [z1 EXCEPT !.m_cmd_queue[1].op_code = code]
  BY <1>1 DEF SetTwice
<1>5. t = [z1 EXCEPT !.m_cmd_queue = r]
  BY <1>3, <1>4 DEF OpCode
<1>6. t = [z EXCEPT !.m_cmd_queue = r]
  BY <1>2, <1>5 DEF Ram
<1> QED
  BY <1>6 DEF QueueSet

\* The assignment to its step.
LEMMA CodeExcept ==
  ASSUME NEW z, NEW q, z.m_cmd_queue = q, NEW code, NEW r, OpCode(q, code, r), NEW t,
         t = [z EXCEPT !.m_cmd_queue[1].op_code = code]
  PROVE  QueueSet(z, r, t)
BY DEF QueueSet, OpCode

\* Clearing a record that was found begins a safe operation.
LEMMA ClearFound ==
  ASSUME NEW x, NEW f, NEW tk, NEW ds, At(x, f, tk, ds), HeadIs(x.m_cmd_queue, {"CLEAR"}),
         NEW a, Lies(x.m_pages, f, a), NEW s, NEW res, ClearsAt(x, a, s, res)
  PROVE  \E op : Begins(res.x, f, tk, ds, op)
<1>1. PICK q, pages, gc : q = x.m_cmd_queue /\ pages = x.m_pages /\ gc = x.m_gc
  OBVIOUS
<1>2. PICK op : op = Store(a, <<TLInvalid>>)
  OBVIOUS
<1>3. PICK z : z = FsStore(x, a, <<TLInvalid>>)
  OBVIOUS
<1>4. Ram(z) /\ Begun(z, op) /\ Kept(x, z)
  BY <1>2, <1>3, StartedStore DEF At
<1>5. PICK t : StackSet(z, a, t)
  BY DEF StackSet
<1>6. Ram(t) /\ Begun(t, op) /\ Becomes(x, t, q, x.m_chunk_queue, pages, gc, a)
  BY <1>1, <1>4, <1>5, StackChanged
<1>7. PICK q1 : InstanceIs(q, s, q1)
  BY DEF InstanceIs
<1>8. PICK r : OpCode(q1, "DONE", r)
  BY DEF OpCode
<1>9. PICK y : SetTwice(t, s, "DONE", y)
  BY DEF SetTwice
<1>10. QueueSet(t, r, y)
  <2>1. t.m_cmd_queue = q
    BY <1>6 DEF Becomes
  <2> QED
    BY <2>1, <1>6, <1>7, <1>8, <1>9, QueueExcept
<1>11. Ram(y) /\ Becomes(x, y, r, x.m_chunk_queue, pages, gc, a) /\ Begun(y, op)
  BY <1>6, <1>10, QueueChanged, FsStays
<1>12. PICK d : Cleared(q[1], s, d)
  BY DEF Cleared
<1>13. Layout(pages, q, x.m_chunk_queue, gc, x.stack, tk, ds, f)
  BY <1>1 DEF At, Core
<1>14. q # <<>> /\ IsList(q) /\ Head(q) = q[1] /\ q[1].id = "CLEAR" /\ CmdOK(pages, q[1])
  BY <1>1, <1>13, QueueWords DEF HeadIs, Layout
<1>15. Goes(q, d, r)
  BY <1>7, <1>8, <1>12, <1>14, ClearedGoes DEF InstanceIs, OpCode
<1>16. CmdOK(pages, d) /\ d.id = "CLEAR" /\ d.op_code = "DONE" /\ Alike(q[1], d)
  BY <1>12, <1>14, ClearedIs
<1>17. HeadIs(x.m_cmd_queue, {"CLEAR", "CLEAR_INST"})
  BY DEF HeadIs
<1>18. Begins(y, f, tk, ds, op)
  BY <1>1, <1>2, <1>11, <1>14, <1>15, <1>16, <1>17, ClearBegins
<1>19. res.x = y
  <2>1. ClearAt(x, a) = t
    BY <1>3, <1>5 DEF ClearAt, StackSet
  <2>2. res = Executing(y)
    BY <2>1, <1>9 DEF ClearsAt, SetTwice
  <2>3. res = [x |-> y, ret |-> "EXECUTING"]
    BY <2>2 DEF Executing, Says
  <2> QED
    BY ONLY <2>3
<1> QED
  BY <1>18, <1>19

\* Where none was found, the command has ended.
LEMMA ClearNotFound ==
  ASSUME NEW x, NEW f, NEW tk, NEW ds, At(x, f, tk, ds), HeadIs(x.m_cmd_queue, {"CLEAR", "CLEAR_INST"}),
         NEW res, ClearStops(x, res)
  PROVE  Rests(res.x, f, tk, ds) /\ res.x.m_cmd_queue # <<>> /\ HeadIs(res.x.m_cmd_queue, {"CLEAR", "CLEAR_INST"})
<1>1. PICK q : q = x.m_cmd_queue
  OBVIOUS
<1>2. PICK r : OpCode(q, "DONE", r)
  BY DEF OpCode
<1>3. PICK d : Advances(q, d, "DONE")
  BY DEF Advances
<1>4. Goes(q, d, r)
  BY <1>2, <1>3, OpCodes
<1>5. PICK y : y = res.x
  OBVIOUS
<1>6. QueueSet(x, r, y)
  BY <1>1, <1>2, <1>5 DEF ClearStops, OpCode, QueueSet
<1>7. Ram(y) /\ Becomes(x, y, r, x.m_chunk_queue, x.m_pages, x.m_gc, x.stack) /\ FsKept(x, y)
  BY <1>6, Itself, QueueChanged DEF At
<1>8. Free(y)
  BY <1>7, FsStays DEF At
<1> QED
  BY <1>1, <1>3, <1>4, <1>5, <1>7, <1>8, ClearRests

\* One record is cleared.
LEMMA ClearTL ==
  ASSUME NEW x, NEW f, NEW tk, NEW ds, At(x, f, tk, ds), HeadIs(x.m_cmd_queue, {"CLEAR"}),
         Head(x.m_cmd_queue).op_code = "CLEAR_TL", NEW res, res = ClearExecute(x, TRUE, f)
  PROVE  Leaves(res.x, f, tk, ds)
<1>1. PICK q, pages, gc : q = x.m_cmd_queue /\ pages = x.m_pages /\ gc = x.m_gc
  OBVIOUS
<1>2. Layout(pages, q, x.m_chunk_queue, gc, x.stack, tk, ds, f) /\ FlashOK(f)
  BY <1>1 DEF At, Core
<1>3. q # <<>> /\ IsList(q) /\ Head(q) = q[1] /\ q[1].id = "CLEAR" /\ CmdOK(pages, q[1])
  BY <1>1, <1>2, QueueWords DEF HeadIs, Layout
<1>4. PagesTyped(pages) /\ Apart(pages) /\ StackOK(pages, x.stack, f) /\ ValidPage(pages, q[1].vpage_id)
  BY <1>2, <1>3 DEF Layout, PagesOK, CmdOK
<1>5. PICK a : a = IF x.kept /\ x.stack # NULL THEN x.stack ELSE SeekRecord(x, f, q[1].vpage_id, q[1].record_id)
  OBVIOUS
<1>6. a # NULL => Lies(pages, f, a)
  <2>1. CASE x.kept /\ x.stack # NULL
    BY <2>1, <1>4, <1>5 DEF StackOK, Lies
  <2>2. CASE ~(x.kept /\ x.stack # NULL)
    <3>1. a = SeekRecord(x, f, q[1].vpage_id, q[1].record_id)
      BY <2>2, <1>5
    <3> QED
      BY <3>1, <1>1, <1>2, <1>4, SeekFinds
  <2> QED
    BY <2>1, <2>2
<1>7. Cmd(x) = q[1] /\ q[1].op_code = "CLEAR_TL"
  BY <1>1, <1>3 DEF Cmd
<1>8. CASE a = NULL
  <2>1. res = Says([x EXCEPT !.m_cmd_queue[1].op_code = "DONE"], "NOT_FOUND")
    BY <1>5, <1>7, <1>8 DEF ClearExecute
  <2>2. ClearStops(x, res)
    BY ONLY <2>1 DEF ClearStops, Says
  <2>3. HeadIs(x.m_cmd_queue, {"CLEAR", "CLEAR_INST"})
    BY DEF HeadIs
  <2> QED
    BY <2>2, <2>3, ClearNotFound DEF Leaves
<1>9. CASE a # NULL
  <2>1. PICK s : s = InstanceAt(f, a)
    OBVIOUS
  <2>2. ClearsAt(x, a, s, res)
    BY <2>1, <1>5, <1>7, <1>9 DEF ClearExecute, ClearsAt
  <2> QED
    BY <2>2, <1>1, <1>6, <1>9, ClearFound DEF Leaves
<1> QED
  BY <1>8, <1>9

\* The command that cleared it is complete.
LEMMA ClearDone ==
  ASSUME NEW x, NEW f, NEW tk, NEW ds, At(x, f, tk, ds), HeadIs(x.m_cmd_queue, {"CLEAR"}),
         Head(x.m_cmd_queue).op_code = "DONE", NEW res, res = ClearExecute(x, TRUE, f)
  PROVE  Completes(res, f, tk, ds)
<1>1. res = Completed(x)
  BY DEF ClearExecute, Cmd
<1>2. res.ret = "COMPLETED" /\ res.x = x
  BY ONLY <1>1 DEF Completed, Says
<1>3. ~IsStore(Head(x.m_cmd_queue)) /\ x.m_cmd_queue # <<>> /\ ~HeadIs(x.m_cmd_queue, {"INIT"})
  BY DEF IsStore, HeadIs
<1>4. x.m_gc.state \notin Mid
  BY DEF At, Core, Layout, GcOK, HeadIs
<1>5. Ends(x, f, tk, ds)
  BY <1>3, <1>4, PlainEnds
<1> QED
  BY <1>2, <1>5 DEF Completes

\* The records of an instance are cleared one after the other, until none is found.
LEMMA ClearInstance ==
  ASSUME NEW x, NEW f, NEW tk, NEW ds, At(x, f, tk, ds), HeadIs(x.m_cmd_queue, {"CLEAR_INST"}),
         Head(x.m_cmd_queue).op_code = "CLEAR_INSTANCE", NEW res, res = ClearExecute(x, TRUE, f)
  PROVE  Executes(res, f, tk, ds) \/ (Completes(res, f, tk, ds) /\ Rests(res.x, f, tk, ds))
<1>1. PICK q, pages, gc : q = x.m_cmd_queue /\ pages = x.m_pages /\ gc = x.m_gc
  OBVIOUS
<1>2. Layout(pages, q, x.m_chunk_queue, gc, x.stack, tk, ds, f) /\ FlashOK(f)
  BY <1>1 DEF At, Core
<1>3. q # <<>> /\ IsList(q) /\ Head(q) = q[1] /\ q[1].id = "CLEAR_INST" /\ CmdOK(pages, q[1])
  BY <1>1, <1>2, QueueWords DEF HeadIs, Layout
<1>4. PagesTyped(pages)
  BY <1>2 DEF Layout, PagesOK
<1>5. PICK next : next = FindRecord(x, f, q[1].instance, x.tok)
  OBVIOUS
<1>6. next # <<>> => Lies(pages, f, next[2])
  BY <1>1, <1>2, <1>4, <1>5, FindFinds
<1>7. Cmd(x) = q[1] /\ q[1].op_code = "CLEAR_INSTANCE"
  BY <1>1, <1>3 DEF Cmd
<1>8. HeadIs(x.m_cmd_queue, {"CLEAR", "CLEAR_INST"})
  BY DEF HeadIs
<1>9. CASE next = <<>>
  <2>1. PICK t : TokSet(x, <<>>, t)
    BY DEF TokSet
  <2>2. res = Completed([t EXCEPT !.m_cmd_queue[1].op_code = "DONE"])
    BY <2>1, <1>5, <1>7, <1>9 DEF ClearExecute, TokSet
  <2>3. res.ret = "COMPLETED" /\ ClearStops(t, res)
    BY ONLY <2>2 DEF ClearStops, Completed, Says
  <2>4. Ram(t) /\ Becomes(x, t, q, x.m_chunk_queue, pages, gc, x.stack) /\ FsKept(x, t)
    BY <1>1, <2>1, Itself, TokChanged DEF At
  <2>5. At(t, f, tk, ds)
    <3>1. Free(t)
      BY <2>4, FsStays DEF At
    <3>2. FlagsOK(t)
      BY <2>4, <1>1, <1>3, SwapStays, FlagsStay DEF At
    <3>3. BoundsOK(t)
      BY <2>4, <1>1, BoundsStay DEF At
    <3>4. Core(t, f, tk, ds)
      BY <2>4, <1>2 DEF Core, Becomes
    <3> QED
      BY <1>2, <2>4, <3>1, <3>2, <3>3, <3>4 DEF At
  <2>6. HeadIs(t.m_cmd_queue, {"CLEAR", "CLEAR_INST"})
    BY <1>1, <1>8, <2>4 DEF Becomes
  <2>7. Rests(res.x, f, tk, ds) /\ res.x.m_cmd_queue # <<>> /\ HeadIs(res.x.m_cmd_queue, {"CLEAR", "CLEAR_INST"})
    BY <2>3, <2>5, <2>6, ClearNotFound
  <2>8. Ends(res.x, f, tk, ds)
    <3>1. PICK y : y = res.x
      OBVIOUS
    <3>2. At(y, f, tk, ds) /\ ~IsStore(Head(y.m_cmd_queue)) /\ y.m_cmd_queue # <<>>
          /\ ~HeadIs(y.m_cmd_queue, {"INIT"})
      BY Zenon, <2>7, <3>1 DEF IsStore, HeadIs, Rests
    <3>3. y.m_gc.state \notin Mid
      BY <2>7, <3>1, <3>2 DEF At, Core, Layout, GcOK, HeadIs
    <3> QED
      BY <3>1, <3>2, <3>3, PlainEnds
  <2> QED
    BY <2>3, <2>7, <2>8 DEF Completes
<1>10. CASE next # <<>>
  <2>1. PICK a : a = next[2]
    OBVIOUS
  <2>2. PICK op : op = Store(a, <<TLInvalid>>)
    OBVIOUS
  <2>3. PICK z : z = FsStore(x, a, <<TLInvalid>>)
    OBVIOUS
  <2>4. Ram(z) /\ Begun(z, op) /\ Kept(x, z)
    BY <2>2, <2>3, StartedStore DEF At
  <2>5. PICK t : StackSet(z, a, t)
    BY DEF StackSet
  <2>6. Ram(t) /\ Begun(t, op) /\ Becomes(x, t, q, x.m_chunk_queue, pages, gc, a)
    BY <1>1, <2>4, <2>5, StackChanged
  <2>7. PICK y : TokSet(t, next, y)
    BY DEF TokSet
  <2>8. Ram(y) /\ Becomes(x, y, q, x.m_chunk_queue, pages, gc, a) /\ Begun(y, op)
    BY <2>6, <2>7, TokChanged, FsStays
  <2>9. res = Executing(y)
    <3>1. ClearAt(x, a) = t
      BY <2>3, <2>5 DEF ClearAt, StackSet
    <3>2. res = Executing([ClearAt(x, next[2]) EXCEPT !.tok = next])
      BY <1>5, <1>7, <1>10 DEF ClearExecute
    <3> QED
      BY <3>1, <3>2, <2>1, <2>7 DEF TokSet
  <2>10. res.ret = "EXECUTING" /\ res.x = y
    BY ONLY <2>9 DEF Executing, Says
  <2>11. Goes(q, q[1], q)
    BY <1>3, ListIs DEF Goes
  <2>12. Begins(y, f, tk, ds, op)
    <3>1. Lies(x.m_pages, f, a)
      BY <1>1, <1>6, <1>10, <2>1
    <3>2. Alike(q[1], q[1])
      BY DEF Alike
    <3> QED
      BY <1>1, <1>3, <1>7, <1>8, <2>2, <2>8, <2>11, <3>1, <3>2, ClearBegins
  <2> QED
    BY <2>10, <2>12 DEF Executes
<1> QED
  BY <1>9, <1>10

--------------------------------------------------------------------------------

(* The collection is executed. *)
GcSet(z, other, t) == t = [z EXCEPT !.m_gc = other]
IsGcRec(gc) == gc = [state |-> gc.state, cur_page |-> gc.cur_page, swap_page |-> gc.swap_page,
           p_scan_addr |-> gc.p_scan_addr, do_gc_page |-> gc.do_gc_page]
StateSet(z, a, t) == t = [z EXCEPT !.m_gc.state = a]
CurSet(z, a, t) == t = [z EXCEPT !.m_gc.cur_page = a]
ScanSet(z, a, t) == t = [z EXCEPT !.m_gc.p_scan_addr = a]
TodoSet(z, a, t) == t = [z EXCEPT !.m_gc.do_gc_page = a]
SwapSet(z, a, t) == t = [z EXCEPT !.m_gc.swap_page = a]

\* The assignments to the collector, each by itself.
LEMMA GcSets ==
  ASSUME NEW z, Ram(z), NEW t, NEW a
  PROVE  /\ StateSet(z, a, t) => GcSet(z, [z.m_gc EXCEPT !.state = a], t)
         /\ CurSet(z, a, t) => GcSet(z, [z.m_gc EXCEPT !.cur_page = a], t)
         /\ ScanSet(z, a, t) => GcSet(z, [z.m_gc EXCEPT !.p_scan_addr = a], t)
         /\ TodoSet(z, a, t) => GcSet(z, [z.m_gc EXCEPT !.do_gc_page = a], t)
         /\ SwapSet(z, a, t) => GcSet(z, [z.m_gc EXCEPT !.swap_page = a], t)
BY DEF StateSet, CurSet, ScanSet, TodoSet, SwapSet, GcSet

\* Two of them in turn.
LEMMA GcTwice ==
  ASSUME NEW z, Ram(z), NEW g, NEW t, GcSet(z, g, t), NEW h, NEW u, GcSet(t, h, u)
  PROVE  GcSet(z, h, u) /\ Ram(t) /\ t.m_gc = g
BY DEF GcSet, Ram

\* Four of them in turn.
LEMMA GcFour ==
  ASSUME NEW z, Ram(z), NEW gc, z.m_gc = gc, IsGcRec(gc), NEW a, NEW b, NEW c, NEW d, NEW other,
         Collects(other, a, b, gc.swap_page, c, d), NEW t1, StateSet(z, a, t1), NEW t2, CurSet(t1, b, t2),
         NEW t3, ScanSet(t2, c, t3), NEW t4, TodoSet(t3, d, t4)
  PROVE  GcSet(z, other, t4)
<1>1. PICK g1 : g1 = [gc EXCEPT !.state = a]
  OBVIOUS
<1>2. GcSet(z, g1, t1)
  BY <1>1, GcSets
<1>3. Ram(t1) /\ t1.m_gc = g1
  BY <1>2 DEF GcSet, Ram
<1>4. PICK g2 : g2 = [g1 EXCEPT !.cur_page = b]
  OBVIOUS
<1>5. GcSet(t1, g2, t2)
  BY <1>3, <1>4, GcSets
<1>6. Ram(t2) /\ t2.m_gc = g2 /\ GcSet(z, g2, t2)
  BY ZenonT(20), <1>2, <1>3, <1>5, GcTwice DEF GcSet, Ram
<1>7. PICK g3 : g3 = [g2 EXCEPT !.p_scan_addr = c]
  OBVIOUS
<1>8. GcSet(t2, g3, t3)
  BY <1>6, <1>7, GcSets
<1>9. Ram(t3) /\ t3.m_gc = g3 /\ GcSet(z, g3, t3)
  BY <1>6, <1>8, GcTwice DEF GcSet, Ram
<1>10. PICK g4 : g4 = [g3 EXCEPT !.do_gc_page = d]
  OBVIOUS
<1>11. GcSet(t3, g4, t4)
  BY <1>9, <1>10, GcSets
<1>12. GcSet(z, g4, t4)
  BY <1>9, <1>11, GcTwice
<1>13. g4 = other
  <2>1. PICK k, l, m, n : /\ k = gc.cur_page /\ l = gc.swap_page /\ m = gc.p_scan_addr /\ n = gc.do_gc_page
    OBVIOUS
  <2>2. g1 = [state |-> a, cur_page |-> k, swap_page |-> l, p_scan_addr |-> m, do_gc_page |-> n]
    BY <1>1, <2>1 DEF IsGcRec
  <2>3. g2 = [state |-> a, cur_page |-> b, swap_page |-> l, p_scan_addr |-> m, do_gc_page |-> n]
    BY ONLY <1>4, <2>2
  <2>4. g3 = [state |-> a, cur_page |-> b, swap_page |-> l, p_scan_addr |-> c, do_gc_page |-> n]
    BY ONLY <1>7, <2>3
  <2>5. g4 = [state |-> a, cur_page |-> b, swap_page |-> l, p_scan_addr |-> c, do_gc_page |-> d]
    BY ONLY <1>10, <2>4
  <2>6. other = [state |-> a, cur_page |-> b, swap_page |-> l, p_scan_addr |-> c, do_gc_page |-> d]
    BY <2>1 DEF Collects
  <2> QED
    BY ONLY <2>5, <2>6
<1> QED
  BY <1>12, <1>13

\* Three of them in turn.
LEMMA GcThree ==
  ASSUME NEW z, Ram(z), NEW gc, z.m_gc = gc, IsGcRec(gc), NEW a, NEW b, NEW d, NEW other,
         Collects(other, a, b, gc.swap_page, gc.p_scan_addr, d), NEW t1, StateSet(z, a, t1), NEW t2, CurSet(t1, b, t2),
         NEW t3, TodoSet(t2, d, t3)
  PROVE  GcSet(z, other, t3)
<1>1. PICK g1 : g1 = [gc EXCEPT !.state = a]
  OBVIOUS
<1>2. GcSet(z, g1, t1)
  BY <1>1, GcSets
<1>3. Ram(t1) /\ t1.m_gc = g1
  BY <1>2 DEF GcSet, Ram
<1>4. PICK g2 : g2 = [g1 EXCEPT !.cur_page = b]
  OBVIOUS
<1>5. GcSet(t1, g2, t2)
  BY <1>3, <1>4, GcSets
<1>6. Ram(t2) /\ t2.m_gc = g2 /\ GcSet(z, g2, t2)
  BY ZenonT(20), <1>2, <1>3, <1>5, GcTwice DEF GcSet, Ram
<1>10. PICK g4 : g4 = [g2 EXCEPT !.do_gc_page = d]
  OBVIOUS
<1>11. GcSet(t2, g4, t3)
  BY <1>6, <1>10, GcSets
<1>12. GcSet(z, g4, t3)
  BY <1>6, <1>11, GcTwice
<1>13. g4 = other
  <2>1. PICK k, l, m, n : /\ k = gc.cur_page /\ l = gc.swap_page /\ m = gc.p_scan_addr /\ n = gc.do_gc_page
    OBVIOUS
  <2>2. g1 = [state |-> a, cur_page |-> k, swap_page |-> l, p_scan_addr |-> m, do_gc_page |-> n]
    BY <1>1, <2>1 DEF IsGcRec
  <2>3. g2 = [state |-> a, cur_page |-> b, swap_page |-> l, p_scan_addr |-> m, do_gc_page |-> n]
    BY ONLY <1>4, <2>2
  <2>5. g4 = [state |-> a, cur_page |-> b, swap_page |-> l, p_scan_addr |-> m, do_gc_page |-> d]
    BY ONLY <1>10, <2>3
  <2>6. other = [state |-> a, cur_page |-> b, swap_page |-> l, p_scan_addr |-> m, do_gc_page |-> d]
    BY <2>1 DEF Collects
  <2> QED
    BY ONLY <2>5, <2>6
<1> QED
  BY <1>12, <1>13

\* The assignment of the state and the record.
LEMMA GcScan ==
  ASSUME NEW z, Ram(z), NEW gc, z.m_gc = gc, IsGcRec(gc), NEW a, NEW c, NEW other,
         Collects(other, a, gc.cur_page, gc.swap_page, c, gc.do_gc_page), NEW t1, StateSet(z, a, t1), NEW t2, ScanSet(t1, c, t2)
  PROVE  GcSet(z, other, t2)
<1>1. PICK g1 : g1 = [gc EXCEPT !.state = a]
  OBVIOUS
<1>2. GcSet(z, g1, t1)
  BY <1>1, GcSets
<1>3. Ram(t1) /\ t1.m_gc = g1
  BY <1>2 DEF GcSet, Ram
<1>4. PICK g2 : g2 = [g1 EXCEPT !.p_scan_addr = c]
  OBVIOUS
<1>5. GcSet(t1, g2, t2)
  BY <1>3, <1>4, GcSets
<1>6. GcSet(z, g2, t2)
  BY <1>2, <1>5, GcTwice
<1>13. g2 = other
  <2>1. PICK k, l, m, n : /\ k = gc.cur_page /\ l = gc.swap_page /\ m = gc.p_scan_addr /\ n = gc.do_gc_page
    OBVIOUS
  <2>2. g1 = [state |-> a, cur_page |-> k, swap_page |-> l, p_scan_addr |-> m, do_gc_page |-> n]
    BY <1>1, <2>1 DEF IsGcRec
  <2>3. g2 = [state |-> a, cur_page |-> k, swap_page |-> l, p_scan_addr |-> c, do_gc_page |-> n]
    BY ONLY <1>4, <2>2
  <2>6. other = [state |-> a, cur_page |-> k, swap_page |-> l, p_scan_addr |-> c, do_gc_page |-> n]
    BY <2>1 DEF Collects
  <2> QED
    BY ONLY <2>3, <2>6
<1> QED
  BY <1>6, <1>13

\* The assignment of the state and the swap page.
LEMMA GcSwap ==
  ASSUME NEW z, Ram(z), NEW gc, z.m_gc = gc, IsGcRec(gc), NEW a, NEW c, NEW other,
         Collects(other, a, gc.cur_page, c, gc.p_scan_addr, gc.do_gc_page), NEW t1, StateSet(z, a, t1), NEW t2, SwapSet(t1, c, t2)
  PROVE  GcSet(z, other, t2)
<1>1. PICK g1 : g1 = [gc EXCEPT !.state = a]
  OBVIOUS
<1>2. GcSet(z, g1, t1)
  BY <1>1, GcSets
<1>3. Ram(t1) /\ t1.m_gc = g1
  BY <1>2 DEF GcSet, Ram
<1>4. PICK g2 : g2 = [g1 EXCEPT !.swap_page = c]
  OBVIOUS
<1>5. GcSet(t1, g2, t2)
  BY <1>3, <1>4, GcSets
<1>6. GcSet(z, g2, t2)
  BY <1>2, <1>5, GcTwice
<1>13. g2 = other
  <2>1. PICK k, l, m, n : /\ k = gc.cur_page /\ l = gc.swap_page /\ m = gc.p_scan_addr /\ n = gc.do_gc_page
    OBVIOUS
  <2>2. g1 = [state |-> a, cur_page |-> k, swap_page |-> l, p_scan_addr |-> m, do_gc_page |-> n]
    BY <1>1, <2>1 DEF IsGcRec
  <2>3. g2 = [state |-> a, cur_page |-> k, swap_page |-> c, p_scan_addr |-> m, do_gc_page |-> n]
    BY ONLY <1>4, <2>2
  <2>6. other = [state |-> a, cur_page |-> k, swap_page |-> c, p_scan_addr |-> m, do_gc_page |-> n]
    BY <2>1 DEF Collects
  <2> QED
    BY ONLY <2>3, <2>6
<1> QED
  BY <1>6, <1>13

\* The assignment of the state.
LEMMA GcState ==
  ASSUME NEW z, Ram(z), NEW gc, z.m_gc = gc, IsGcRec(gc), NEW a, NEW other,
         Collects(other, a, gc.cur_page, gc.swap_page, gc.p_scan_addr, gc.do_gc_page), NEW t1, StateSet(z, a, t1)
  PROVE  GcSet(z, other, t1)
<1>1. PICK g1 : g1 = [gc EXCEPT !.state = a]
  OBVIOUS
<1>2. GcSet(z, g1, t1)
  BY <1>1, GcSets
<1>13. g1 = other
  <2>1. PICK k, l, m, n : /\ k = gc.cur_page /\ l = gc.swap_page /\ m = gc.p_scan_addr /\ n = gc.do_gc_page
    OBVIOUS
  <2>2. g1 = [state |-> a, cur_page |-> k, swap_page |-> l, p_scan_addr |-> m, do_gc_page |-> n]
    BY <1>1, <2>1 DEF IsGcRec
  <2>6. other = [state |-> a, cur_page |-> k, swap_page |-> l, p_scan_addr |-> m, do_gc_page |-> n]
    BY <2>1 DEF Collects
  <2> QED
    BY ONLY <2>2, <2>6
<1> QED
  BY <1>2, <1>13

\* What changes when the collector does.
LEMMA GcChanged ==
  ASSUME NEW z, Ram(z), NEW r, NEW t, GcSet(z, r, t), NEW x, NEW q, NEW ch, NEW pages, NEW gc, NEW stack,
         Becomes(x, z, q, ch, pages, gc, stack)
  PROVE  Ram(t) /\ Becomes(x, t, q, ch, pages, r, stack) /\ FsKept(z, t)
BY DEF Ram, Becomes, GcSet, FsKept

\* What the storage leaves alone.
LEMMA KeptBecomes ==
  ASSUME NEW x, NEW z, Kept(x, z)
  PROVE  Becomes(x, z, x.m_cmd_queue, x.m_chunk_queue, x.m_pages, x.m_gc, x.stack)
BY DEF Kept, Becomes

\* The collector goes on with a safe operation.
LEMMA GcBegins ==
  ASSUME NEW x, NEW f, NEW tk, NEW ds, At(x, f, tk, ds), HeadIs(x.m_cmd_queue, {"GC"}), NEW y, NEW op, Ram(y), Begun(y, op),
         NEW pages, NEW gc, gc.state \in Mid, Becomes(x, y, x.m_cmd_queue, x.m_chunk_queue, pages, gc, NULL),
         SafeOp(f, op), Layout(pages, x.m_cmd_queue, x.m_chunk_queue, gc, NULL, tk, ds, Done(f, op)),
         Accounts(pages, x.m_cmd_queue, f)
  PROVE  Begins(y, f, tk, ds, op)
<1>1. SwapKnown(x, pages, gc)
  BY DEF SwapKnown, Layout, GcOK
<1>2. AtWork(y, op, Done(f, op))
  BY DEF AtWork, Becomes
<1>3. x.m_cmd_queue # <<>>
  BY DEF HeadIs
<1> QED
  BY <1>1, <1>2, <1>3, BeginsIs

\* The collector ends.
LEMMA GcStops ==
  ASSUME NEW x, NEW f, NEW tk, NEW ds, At(x, f, tk, ds), HeadIs(x.m_cmd_queue, {"GC"}), NEW y, Ram(y), Free(y),
         NEW gc, gc.state = "BEGIN", gc.swap_page = x.m_gc.swap_page,
         Becomes(x, y, x.m_cmd_queue, x.m_chunk_queue, x.m_pages, gc, NULL),
         Layout(x.m_pages, x.m_cmd_queue, x.m_chunk_queue, gc, NULL, tk, ds, f)
  PROVE  Rests(y, f, tk, ds) /\ Ends(y, f, tk, ds)
<1>1. SwapKnown(x, x.m_pages, gc)
  BY SwapStays DEF At, SwapKnown
<1>2. x.m_cmd_queue # <<>>
  BY DEF HeadIs
<1>3. FlagsOK(y)
  BY <1>1, <1>2, FlagsStay DEF At
<1>4. BoundsOK(y)
  BY BoundsStay DEF At
<1>5. Core(y, f, tk, ds)
  BY DEF Core, Becomes
<1>6. At(y, f, tk, ds)
  BY <1>3, <1>4, <1>5 DEF At
<1>7. HeadIs(y.m_cmd_queue, {"GC"}) /\ y.m_gc.state = "BEGIN"
  BY DEF Becomes
<1>8. Rests(y, f, tk, ds)
  BY <1>6, <1>7 DEF Rests, Stuck, HeadIs, Active
<1>9. Ends(y, f, tk, ds)
  <2>1. ~IsStore(Head(y.m_cmd_queue)) /\ y.m_cmd_queue # <<>> /\ ~HeadIs(y.m_cmd_queue, {"INIT"})
    BY <1>7 DEF HeadIs, IsStore
  <2>2. y.m_gc.state \notin Mid
    BY <1>7 DEF Mid
  <2> QED
    BY <1>6, <2>1, <2>2, PlainEnds
<1> QED
  BY <1>8, <1>9

\* The next page is looked for: y is x with the pages to be collected, no record being copied.
Looks4(x, y, gc, todo) ==
  /\ gc = x.m_gc /\ Ram(y) /\ Free(y) /\ \E other : /\ Collects(other, gc.state, gc.cur_page, gc.swap_page, NULL, todo)
                                                 /\ Becomes(x, y, x.m_cmd_queue, x.m_chunk_queue, x.m_pages, other, NULL)

\* The next page is collected, or all have been.
LEMMA GcPageNext ==
  ASSUME NEW x, NEW f, NEW tk, NEW ds, At(x, f, tk, ds), HeadIs(x.m_cmd_queue, {"GC"}),
         NEW y, NEW gc, NEW todo \in SUBSET Page, Looks4(x, y, gc, todo), gc.state \in {"BEGIN", "INIT_SWAP"},
         \A i \in todo : x.m_pages[i].page_type = "VALID", NEW res, res = GcPage(y)
  PROVE  Executes(res, f, tk, ds) \/ (Completes(res, f, tk, ds) /\ Rests(res.x, f, tk, ds))
<1>1. PICK q, pages, ch : q = x.m_cmd_queue /\ pages = x.m_pages /\ ch = x.m_chunk_queue
  OBVIOUS
<1>2. PICK after : Collects(after, gc.state, gc.cur_page, gc.swap_page, NULL, todo) /\ Becomes(x, y, q, ch, pages, after, NULL)
  BY <1>1 DEF Looks4
<1>3. gc = x.m_gc /\ Ram(y) /\ Free(y)
  BY DEF Looks4
<1>4. Layout(pages, q, ch, gc, x.stack, tk, ds, f) /\ FlashOK(f)
  BY <1>1, <1>3 DEF At, Core
<1>5. gc.cur_page \in Page /\ gc.swap_page \in Page
  BY <1>4 DEF Layout, GcOK, IsGc
<1>6. pages[gc.swap_page].page_type = "SWAP"
  BY <1>1, <1>3 DEF At, FlagsOK, HeadIs
<1>7. PICK free : free = {i \in todo : Data(y, i).records_open = 0}
  OBVIOUS
<1>8. y.m_gc = after /\ y.m_gc.do_gc_page = todo
  BY <1>2 DEF Collects, Becomes
<1>11. IsGcRec(after) /\ after.swap_page = gc.swap_page /\ after.p_scan_addr = NULL
  BY <1>2 DEF Collects, IsGcRec
<1>9. CASE free = {}
  <2>1. PICK t : t = [y EXCEPT !.m_gc.state = "BEGIN", !.m_gc.cur_page = 0,
                              !.m_gc.p_scan_addr = NULL, !.m_gc.do_gc_page = {}]
    OBVIOUS
  <2>2. res = Completed(t)
    BY <2>1, <1>7, <1>8, <1>9 DEF GcPage
  <2>3. PICK other : Collects(other, "BEGIN", 0, gc.swap_page, NULL, {})
    BY DEF Collects
  <2>4. GcSet(y, other, t)
    <3>1. PICK t1 : StateSet(y, "BEGIN", t1)
      BY DEF StateSet
    <3>2. PICK t2 : CurSet(t1, 0, t2)
      BY DEF CurSet
    <3>3. PICK t3 : ScanSet(t2, NULL, t3)
      BY DEF ScanSet
    <3>4. TodoSet(t3, {}, t)
      BY ONLY <2>1, <3>1, <3>2, <3>3 DEF StateSet, CurSet, ScanSet, TodoSet
    <3>5. Collects(other, "BEGIN", 0, after.swap_page, NULL, {})
      BY <2>3, <1>11
    <3> QED
      BY <3>1, <3>2, <3>3, <3>4, <3>5, <1>3, <1>8, <1>11, GcFour
  <2>5. Ram(t) /\ Becomes(x, t, q, ch, pages, other, NULL) /\ Free(t)
    BY <2>4, <1>2, <1>3, GcChanged, FsStays
  <2>6. Layout(pages, q, ch, other, NULL, tk, ds, f)
    BY <2>3, <1>1, <1>4, GcRests
  <2>7. other.state = "BEGIN" /\ other.swap_page = gc.swap_page
    BY <2>3 DEF Collects
  <2>8. Rests(t, f, tk, ds) /\ Ends(t, f, tk, ds)
    BY <2>5, <2>6, <2>7, <1>1, <1>3, GcStops
  <2>9. res.x = t /\ res.ret = "COMPLETED"
    BY ONLY <2>2 DEF Completed, Says
  <2> QED
    BY <2>8, <2>9 DEF Completes
<1>10. CASE free # {}
  <2>1. \A i \in free : i \in Nat /\ i \in todo
    BY <1>7, PageIs
  <2>2. PICK p \in todo : p = Min(free)
    BY <2>1, <1>10, MinIs
  <2>3. PICK z : z = FsStore(y, StartAddr(p) + 3, <<<<"tag3", "gc">>>>)
    OBVIOUS
  <2>4. PICK op : op = Store(StartAddr(p) + 3, <<<<"tag3", "gc">>>>)
    OBVIOUS
  <2>5. Ram(z) /\ Begun(z, op) /\ Kept(y, z)
    BY <2>3, <2>4, <1>3, StartedStore
  <2>6. PICK t : t = [z EXCEPT !.m_gc.state = "GC_PAGE", !.m_gc.cur_page = p, !.m_gc.do_gc_page = {i \in @ : i > p}]
    OBVIOUS
  <2>7. res = Executing(t)
    BY <2>2, <2>3, <2>6, <1>7, <1>8, <1>10 DEF GcPage
  <2>8. PICK left : left = {i \in todo : i > p}
    OBVIOUS
  <2>9. PICK other : Collects(other, "GC_PAGE", p, gc.swap_page, NULL, left)
    BY DEF Collects
  <2>10. GcSet(z, other, t)
    <3>1. z.m_gc = after
      BY <2>5, <1>8 DEF Kept
    <3>2. z.m_gc.do_gc_page = todo
      BY <3>1, <1>8
    <3>3. t = [z EXCEPT !.m_gc.state = "GC_PAGE", !.m_gc.cur_page = p, !.m_gc.do_gc_page = left]
      BY <2>6, <2>8, <3>2
    <3>4. PICK t1 : StateSet(z, "GC_PAGE", t1)
      BY DEF StateSet
    <3>5. PICK t2 : CurSet(t1, p, t2)
      BY DEF CurSet
    <3>6. TodoSet(t2, left, t)
      BY ONLY <3>3, <3>4, <3>5 DEF StateSet, CurSet, TodoSet
    <3>7. Collects(other, "GC_PAGE", p, after.swap_page, after.p_scan_addr, left)
      BY <2>9, <1>11
    <3> QED
      BY <3>1, <3>4, <3>5, <3>6, <3>7, <2>5, <1>11, GcThree
  <2>11. Becomes(x, z, q, ch, pages, after, NULL)
    BY <2>5, <1>2 DEF Becomes, Kept
  <2>12. Ram(t) /\ Becomes(x, t, q, ch, pages, other, NULL) /\ Begun(t, op)
    BY <2>5, <2>10, <2>11, GcChanged, FsStays
  <2>13. SafeOp(f, op) /\ Layout(pages, q, ch, other, NULL, tk, ds, Done(f, op)) /\ Accounts(pages, q, f)
    BY <2>4, <2>8, <2>9, <1>1, <1>4, <1>6, GcTags
  <2>14. other.state \in Mid
    BY <2>9 DEF Collects, Mid
  <2>15. Begins(t, f, tk, ds, op)
    BY <2>12, <2>13, <2>14, <1>1, GcBegins
  <2>16. res.x = t /\ res.ret = "EXECUTING"
    BY ONLY <2>7 DEF Executing, Says
  <2> QED
    BY <2>15, <2>16 DEF Executes
<1> QED
  BY <1>9, <1>10

RunsSet(z, a, t) == t = [z EXCEPT !.m_gc_runs = a]

\* What changes when the collections are counted.
LEMMA RunsChanged ==
  ASSUME NEW z, Ram(z), NEW r, NEW t, RunsSet(z, r, t), NEW x, NEW q, NEW ch, NEW pages, NEW gc, NEW stack,
         Becomes(x, z, q, ch, pages, gc, stack)
  PROVE  Ram(t) /\ Becomes(x, t, q, ch, pages, gc, stack) /\ FsKept(z, t)
BY DEF Ram, Becomes, RunsSet, FsKept

\* What changes when the word on the stack does.
LEMMA StackGoes ==
  ASSUME NEW z, Ram(z), NEW r, NEW t, StackSet(z, r, t), NEW x, NEW q, NEW ch, NEW pages, NEW gc, NEW stack,
         Becomes(x, z, q, ch, pages, gc, stack)
  PROVE  Ram(t) /\ Becomes(x, t, q, ch, pages, gc, r) /\ FsKept(z, t)
BY DEF Ram, Becomes, StackSet, FsKept
PagesSet(z, other, t) == t = [z EXCEPT !.m_pages = other]

\* What changes when the pages do.
LEMMA PagesGo ==
  ASSUME NEW z, Ram(z), NEW r, NEW t, PagesSet(z, r, t), NEW x, NEW q, NEW ch, NEW pages, NEW gc, NEW stack,
         Becomes(x, z, q, ch, pages, gc, stack)
  PROVE  Ram(t) /\ Becomes(x, t, q, ch, r, gc, stack) /\ FsKept(z, t)
BY DEF Ram, Becomes, PagesSet, FsKept

\* What the invariant says of the collector.
LEMMA GcRec ==
  ASSUME NEW x, NEW f, NEW tk, NEW ds, At(x, f, tk, ds)
  PROVE  /\ Layout(x.m_pages, x.m_cmd_queue, x.m_chunk_queue, x.m_gc, x.stack, tk, ds, f)
         /\ IsGcRec(x.m_gc) /\ x.m_gc.cur_page \in Page /\ x.m_gc.swap_page \in Page
         /\ x.m_gc.do_gc_page \in SUBSET Page /\ PagesTyped(x.m_pages)
         /\ x.m_gc.state \in Mid => x.stack = NULL /\ HeadIs(x.m_cmd_queue, {"GC"})
                                    /\ \A i \in x.m_gc.do_gc_page : x.m_pages[i].page_type = "VALID"
BY DEF At, Core, Layout, GcOK, IsGc, IsGcRec, PagesOK

\* The collection begins.
LEMMA GcBeginIs ==
  ASSUME NEW x, NEW f, NEW tk, NEW ds, At(x, f, tk, ds), HeadIs(x.m_cmd_queue, {"GC"}),
         x.m_gc.state = "BEGIN", NEW res, res = GcBegin(x)
  PROVE  Executes(res, f, tk, ds) \/ (Completes(res, f, tk, ds) /\ Rests(res.x, f, tk, ds))
<1>1. PICK gc : gc = x.m_gc
  OBVIOUS
<1>2. PICK todo : todo = {p \in Page : Data(x, p).page_type = "VALID"}
  OBVIOUS
<1>3. PICK y : y = [x EXCEPT !.m_gc_runs = @ + 1, !.stack = NULL, !.m_gc.do_gc_page = todo]
  OBVIOUS
<1>4. res = GcPage(y)
  BY <1>2, <1>3 DEF GcBegin
<1>5. Ram(x) /\ Free(x)
  BY DEF At
<1>6. PICK t1 : RunsSet(x, x.m_gc_runs + 1, t1)
  BY DEF RunsSet
<1>7. PICK t2 : StackSet(t1, NULL, t2)
  BY DEF StackSet
<1>8. TodoSet(t2, todo, y)
  BY ONLY <1>3, <1>6, <1>7, <1>5 DEF RunsSet, StackSet, TodoSet, Ram
<1>9. IsGcRec(gc)
  BY <1>1, GcRec
<1>10. Ram(t1) /\ Becomes(x, t1, x.m_cmd_queue, x.m_chunk_queue, x.m_pages, gc, x.stack) /\ FsKept(x, t1)
  BY <1>1, <1>5, <1>6, Itself, RunsChanged
<1>11. Ram(t2) /\ Becomes(x, t2, x.m_cmd_queue, x.m_chunk_queue, x.m_pages, gc, NULL) /\ FsKept(t1, t2)
  BY <1>7, <1>10, StackGoes
<1>12. PICK other : Collects(other, gc.state, gc.cur_page, gc.swap_page, gc.p_scan_addr, todo)
  BY DEF Collects
<1>13. GcSet(t2, other, y)
  <2>1. t2.m_gc = gc
    BY <1>11 DEF Becomes
  <2>2. PICK g1 : g1 = [gc EXCEPT !.do_gc_page = todo]
    OBVIOUS
  <2>3. GcSet(t2, g1, y)
    BY <1>8, <1>11, <2>1, <2>2, GcSets
  <2>4. g1 = other
    BY <1>9, <1>12, <2>2 DEF Collects, IsGcRec
  <2> QED
    BY <2>3, <2>4
<1>14. Ram(y) /\ Becomes(x, y, x.m_cmd_queue, x.m_chunk_queue, x.m_pages, other, NULL) /\ FsKept(t2, y)
  BY <1>11, <1>13, GcChanged
<1>15. Free(y)
  BY <1>5, <1>10, <1>11, <1>14, FsStays
<1>16. gc.p_scan_addr = NULL
  BY <1>1 DEF At, Core, Layout, GcOK, Mid
<1>17. Looks4(x, y, gc, todo)
  BY <1>1, <1>12, <1>14, <1>15, <1>16 DEF Looks4
<1>18. todo \in SUBSET Page /\ \A i \in todo : x.m_pages[i].page_type = "VALID"
  BY <1>2 DEF Data
<1> QED
  BY <1>1, <1>4, <1>17, <1>18, GcPageNext

\* A page has been collected.
LEMMA GcInitSwap ==
  ASSUME NEW x, NEW f, NEW tk, NEW ds, At(x, f, tk, ds), HeadIs(x.m_cmd_queue, {"GC"}),
         x.m_gc.state = "INIT_SWAP", NEW res, res = GcPage([x EXCEPT !.m_gc.p_scan_addr = NULL])
  PROVE  Executes(res, f, tk, ds) \/ (Completes(res, f, tk, ds) /\ Rests(res.x, f, tk, ds))
<1>1. PICK gc : gc = x.m_gc
  OBVIOUS
<1>2. PICK todo : todo = gc.do_gc_page
  OBVIOUS
<1>3. PICK y : ScanSet(x, NULL, y)
  BY DEF ScanSet
<1>4. res = GcPage(y)
  BY <1>3 DEF ScanSet
<1>5. Ram(x) /\ Free(x)
  BY DEF At
<1>6. IsGcRec(gc) /\ x.stack = NULL /\ todo \in SUBSET Page /\ \A i \in todo : x.m_pages[i].page_type = "VALID"
  BY <1>1, <1>2, GcRec DEF Mid
<1>7. PICK other : Collects(other, gc.state, gc.cur_page, gc.swap_page, NULL, todo)
  BY DEF Collects
<1>8. GcSet(x, other, y)
  <2>2. PICK g1 : g1 = [gc EXCEPT !.p_scan_addr = NULL]
    OBVIOUS
  <2>3. GcSet(x, g1, y)
    BY <1>1, <1>3, <1>5, <2>2, GcSets
  <2>4. g1 = other
    BY <1>2, <1>6, <1>7, <2>2 DEF Collects, IsGcRec
  <2> QED
    BY <2>3, <2>4
<1>9. Ram(y) /\ Becomes(x, y, x.m_cmd_queue, x.m_chunk_queue, x.m_pages, other, NULL) /\ FsKept(x, y)
  BY <1>1, <1>5, <1>6, <1>8, Itself, GcChanged
<1>15. Free(y)
  BY <1>5, <1>9, FsStays
<1>17. Looks4(x, y, gc, todo)
  BY <1>1, <1>7, <1>9, <1>15 DEF Looks4
<1> QED
  BY <1>1, <1>4, <1>6, <1>17, GcPageNext

\* The collection does op, and its state becomes other.
LEMMA GcGoes ==
  ASSUME NEW x, NEW f, NEW tk, NEW ds, At(x, f, tk, ds), HeadIs(x.m_cmd_queue, {"GC"}), x.m_gc.state \in Mid,
         NEW dst, NEW words, NEW z, z = FsStore(x, dst, words), NEW op, op = Store(dst, words),
         NEW state, NEW other, state \in Mid,
         Collects(other, state, x.m_gc.cur_page, x.m_gc.swap_page, x.m_gc.p_scan_addr, x.m_gc.do_gc_page),
         NEW t, StateSet(z, state, t), NEW res, res = Executing(t),
         SafeOp(f, op) /\ Layout(x.m_pages, x.m_cmd_queue, x.m_chunk_queue, other, NULL, tk, ds, Done(f, op))
                       /\ Accounts(x.m_pages, x.m_cmd_queue, f)
  PROVE  Executes(res, f, tk, ds)
<1>1. PICK gc : gc = x.m_gc
  OBVIOUS
<1>2. Ram(x) /\ Free(x)
  BY DEF At
<1>3. Ram(z) /\ Begun(z, op) /\ Kept(x, z)
  BY <1>2, StartedStore
<1>4. IsGcRec(gc) /\ x.stack = NULL
  BY <1>1, GcRec
<1>5. Becomes(x, z, x.m_cmd_queue, x.m_chunk_queue, x.m_pages, gc, NULL) /\ z.m_gc = gc
  BY <1>1, <1>3, <1>4, KeptBecomes DEF Kept
<1>6. GcSet(z, other, t)
  BY <1>1, <1>3, <1>4, <1>5, GcState
<1>7. Ram(t) /\ Becomes(x, t, x.m_cmd_queue, x.m_chunk_queue, x.m_pages, other, NULL) /\ FsKept(z, t)
  BY <1>3, <1>5, <1>6, GcChanged
<1>8. Begun(t, op)
  BY <1>3, <1>7, FsStays
<1>9. other.state \in Mid
  BY DEF Collects
<1>10. Begins(t, f, tk, ds, op)
  BY <1>7, <1>8, <1>9, GcBegins
<1>11. res.x = t /\ res.ret = "EXECUTING"
  BY ONLY res = Executing(t) DEF Executing, Says
<1> QED
  BY <1>10, <1>11 DEF Executes

\* The new swap page is formatted.
LEMMA GcNewSwap ==
  ASSUME NEW x, NEW f, NEW tk, NEW ds, At(x, f, tk, ds), HeadIs(x.m_cmd_queue, {"GC"}),
         x.m_gc.state = "NEW_SWAP", NEW res,
         res = Executing([FsStore(x, StartAddr(x.m_gc.swap_page), fds_page_tag_swap) EXCEPT !.m_gc.state = "INIT_SWAP"])
  PROVE  Executes(res, f, tk, ds)
<1>0. PICK dst, words : dst = StartAddr(x.m_gc.swap_page) /\ words = fds_page_tag_swap
  OBVIOUS
<1>1. PICK z : z = FsStore(x, dst, words)
  OBVIOUS
<1>2. PICK t : StateSet(z, "INIT_SWAP", t)
  BY DEF StateSet
<1>3. res = Executing(t)
  BY <1>0, <1>1, <1>2 DEF StateSet
<1>4. PICK op : op = Store(dst, words)
  OBVIOUS
<1>5. PICK other : Collects(other, "INIT_SWAP", x.m_gc.cur_page, x.m_gc.swap_page, x.m_gc.p_scan_addr, x.m_gc.do_gc_page)
  BY DEF Collects
<1>6. op = Store(StartAddr(x.m_gc.swap_page), PageTag("swap", "plain"))
  BY <1>0, <1>4 DEF fds_page_tag_swap
<1>7. SafeOp(f, op) /\ Layout(x.m_pages, x.m_cmd_queue, x.m_chunk_queue, other, NULL, tk, ds, Done(f, op))
                    /\ Accounts(x.m_pages, x.m_cmd_queue, f)
  BY <1>5, <1>6, GcFormats DEF At, Core
<1>8. PICK state : state = "INIT_SWAP"
  OBVIOUS
<1>9. state \in Mid /\ x.m_gc.state \in Mid
  BY <1>8 DEF Mid
<1>10. StateSet(z, state, t) /\ Collects(other, state, x.m_gc.cur_page, x.m_gc.swap_page, x.m_gc.p_scan_addr, x.m_gc.do_gc_page)
  BY <1>8, <1>2, <1>5
<1> QED
  BY <1>9, <1>10, <1>1, <1>3, <1>4, <1>7, GcGoes

\* The next record is copied.
CopySets(z, a, p, n, t) == t = [z EXCEPT !.m_gc.state = "COPY_RECORD", !.m_gc.p_scan_addr = a,
                                         !.m_pages[p].write_offset = @ + n]
OffsetBy(pages, p, n, after) == after = [pages EXCEPT ![p].write_offset = @ + n]

\* The assignments that go with copying a record, one after the other.
LEMMA CopyExcept ==
  ASSUME NEW z, Ram(z), NEW pages, z.m_pages = pages, NEW a, NEW p, NEW n, NEW t, CopySets(z, a, p, n, t),
         NEW t1, StateSet(z, "COPY_RECORD", t1), NEW t2, ScanSet(t1, a, t2), NEW after, OffsetBy(pages, p, n, after)
  PROVE  PagesSet(t2, after, t)
<1>1. t2 = [z EXCEPT !.m_gc.state = "COPY_RECORD", !.m_gc.p_scan_addr = a]
  BY ONLY StateSet(z, "COPY_RECORD", t1), ScanSet(t1, a, t2) DEF StateSet, ScanSet
<1>2. t2.m_pages = pages
  BY <1>1 DEF Ram
<1>3. t = [t2 EXCEPT !.m_pages[p].write_offset = @ + n]
  BY <1>1 DEF CopySets
<1>4. t = [t2 EXCEPT !.m_pages = [pages EXCEPT ![p].write_offset = @ + n]]
  BY ONLY <1>2, <1>3
<1> QED
  BY <1>4 DEF PagesSet, OffsetBy

\* The swap page is longer by the record.
LEMMA OffsetIs ==
  ASSUME NEW pages, PagesTyped(pages), NEW p \in Page, NEW wo \in Nat, wo = pages[p].write_offset,
         NEW n \in Nat, NEW b \in Nat, b = pages[p].words_reserved, NEW after, OffsetBy(pages, p, n, after)
  PROVE  Numbers(pages, p, wo + n, b, after)
<1>1. PICK k \in Nat : k = wo + n
  OBVIOUS
<1>2. IsPage(pages[p])
  BY DEF PagesTyped
<1>3. PICK d : d = pages[p]
  OBVIOUS
<1>4. [d EXCEPT !.write_offset = k, !.words_reserved = b] = [d EXCEPT !.write_offset = k]
  BY <1>2, <1>3 DEF IsPage
<1>5. after = [pages EXCEPT ![p] = [d EXCEPT !.write_offset = k]]
  BY <1>1, <1>3 DEF OffsetBy
<1>6. after = [pages EXCEPT ![p] = [d EXCEPT !.write_offset = k, !.words_reserved = b]]
  BY <1>4, <1>5
<1>7. after = [pages EXCEPT ![p].write_offset = k, ![p].words_reserved = b]
  BY ONLY <1>3, <1>6, PagesTyped(pages), p \in Page DEF PagesTyped
<1> QED
  BY <1>1, <1>7 DEF Numbers

CopyResult(x, gc, f, a, n, res) ==
  res = Executing([FsStore(x, WriteAddr(x, gc.swap_page), [i \in 1 .. n |-> f[a + i - 1]])
                       EXCEPT !.m_gc.state = "COPY_RECORD", !.m_gc.p_scan_addr = a,
                              !.m_pages[gc.swap_page].write_offset = @ + n])

\* Copying the next record begins a safe operation.
LEMMA GcCopyIs ==
  ASSUME NEW x, NEW f, NEW tk, NEW ds, At(x, f, tk, ds), HeadIs(x.m_cmd_queue, {"GC"}),
         NEW gc, gc = x.m_gc, gc.state \in {"GC_PAGE", "COPY_RECORD"}, NEW found, found = FoundFrom(gc, f), found # {},
         NEW a, a = Min(found), NEW n, n = FDS_HEADER_SIZE + LengthWords(f[a]),
         NEW res, CopyResult(x, gc, f, a, n, res)
  PROVE  Executes(res, f, tk, ds)
<1>1. PICK q, pages, ch, todo : q = x.m_cmd_queue /\ pages = x.m_pages /\ ch = x.m_chunk_queue /\ todo = gc.do_gc_page
  OBVIOUS
<1>2. Layout(pages, q, ch, gc, x.stack, tk, ds, f) /\ FlashOK(f) /\ Ram(x) /\ Free(x) /\ PagesTyped(pages)
  BY <1>1, GcRec DEF At
<1>3. HeadIs(q, {"GC"})
  BY <1>1
<1>4. \A b \in found : b \in Nat
  <2>1. ASSUME NEW b \in found PROVE b \in Nat
    <3>1. PICK m \in Nat, wo \in Nat, dst \in Nat, p \in Page, cur \in Page : CopyAt(pages, gc, f, b, m, wo, p, cur, dst)
      BY <1>2, <1>3, <2>1, CopyFound
    <3>2. b \in HeadersOf(f, cur)
      BY <3>1 DEF CopyAt
    <3> QED
      BY <1>2, <3>2, HeaderMeans
  <2> QED
    BY <2>1
<1>5. a \in found
  BY <1>4, MinIs
<1>6. PICK m \in Nat, wo \in Nat, dst \in Nat, p \in Page, cur \in Page : CopyAt(pages, gc, f, a, m, wo, p, cur, dst)
  BY <1>2, <1>3, <1>5, CopyFound
<1>7. p = gc.swap_page /\ cur = gc.cur_page /\ m = LengthWords(f[a]) /\ wo = pages[p].write_offset /\ dst = StartAddr(p) + wo
  BY <1>6 DEF CopyAt
<1>8. n = 3 + m /\ n \in Nat
  BY <1>7 DEF FDS_HEADER_SIZE
<1>9. PICK b \in Nat : b = pages[p].words_reserved
  BY <1>2, PageFields DEF PagesTyped
<1>10. PICK words : WordsAt(f, a, n, words)
  BY DEF WordsAt
<1>11. PICK after : OffsetBy(pages, p, n, after)
  BY DEF OffsetBy
<1>12. PICK h \in Nat : h = wo + (3 + m) /\ Numbers(pages, p, h, b, after)
  BY <1>2, <1>7, <1>8, <1>9, <1>11, OffsetIs
<1>13. PICK z : z = FsStore(x, dst, words)
  OBVIOUS
<1>14. PICK t : CopySets(z, a, p, n, t)
  BY DEF CopySets
<1>15. WriteAddr(x, gc.swap_page) = dst
  BY SMTT(20), <1>1, <1>7 DEF WriteAddr, Data
<1>16. res = Executing(t)
  BY Zenon, <1>7, <1>8, <1>10, <1>13, <1>14, <1>15 DEF CopySets, CopyResult, WordsAt
<1>17. PICK op : op = Store(dst, words)
  OBVIOUS
<1>18. PICK other : Collects(other, "COPY_RECORD", cur, p, a, todo)
  BY DEF Collects
<1>19. SafeOp(f, op) /\ Layout(after, q, ch, other, NULL, tk, ds, Done(f, op)) /\ Accounts(after, q, f)
  <2>1. gc.do_gc_page = todo
    BY <1>1
  <2>2. Collects(other, "COPY_RECORD", cur, p, a, gc.do_gc_page)
    BY <1>18, <2>1
  <2>3. gc.state \in {"GC_PAGE", "COPY_RECORD"}
    OBVIOUS
  <2> QED
    BY ONLY Zenon, <1>2, <1>3, <1>6, <1>8, <1>9, <1>10, <1>12, <1>17, <2>2, <2>3, GcCopies,
       m \in Nat, wo \in Nat, dst \in Nat, p \in Page, cur \in Page, b \in Nat, h \in Nat
<1>20. Ram(z) /\ Begun(z, op) /\ Kept(x, z)
  BY <1>2, <1>13, <1>17, StartedStore
<1>21. IsGcRec(gc) /\ x.stack = NULL
  BY GcRec DEF Mid
<1>22. Becomes(x, z, q, ch, pages, gc, NULL) /\ z.m_gc = gc /\ z.m_pages = pages
  BY <1>1, <1>20, <1>21, KeptBecomes DEF Kept
<1>23. PICK t1 : StateSet(z, "COPY_RECORD", t1)
  BY DEF StateSet
<1>24. PICK t2 : ScanSet(t1, a, t2)
  BY DEF ScanSet
<1>25. PagesSet(t2, after, t)
  BY <1>20, <1>22, <1>11, <1>14, <1>23, <1>24, CopyExcept
<1>26. Collects(other, "COPY_RECORD", gc.cur_page, gc.swap_page, a, gc.do_gc_page)
  BY <1>1, <1>7, <1>18
<1>27. GcSet(z, other, t2)
  BY <1>20, <1>21, <1>22, <1>23, <1>24, <1>26, GcScan
<1>28. Ram(t2) /\ Becomes(x, t2, q, ch, pages, other, NULL) /\ FsKept(z, t2)
  BY <1>20, <1>22, <1>27, GcChanged
<1>29. Ram(t) /\ Becomes(x, t, q, ch, after, other, NULL) /\ FsKept(t2, t)
  BY <1>25, <1>28, PagesGo
<1>30. Begun(t, op)
  BY <1>20, <1>28, <1>29, FsStays
<1>31. other.state \in Mid
  BY <1>18 DEF Collects, Mid
<1>32. Begins(t, f, tk, ds, op)
  BY <1>1, <1>19, <1>29, <1>30, <1>31, GcBegins
<1>33. res.x = t /\ res.ret = "EXECUTING"
  BY ONLY <1>16 DEF Executing, Says
<1> QED
  BY <1>32, <1>33 DEF Executes

\* So does looking for it, and erasing when there is none.
LEMMA GcSeek ==
  ASSUME NEW x, NEW f, NEW tk, NEW ds, At(x, f, tk, ds), HeadIs(x.m_cmd_queue, {"GC"}),
         x.m_gc.state \in {"GC_PAGE", "COPY_RECORD"}, NEW res, res = GcSeekRecord(x, f)
  PROVE  Executes(res, f, tk, ds)
<1>1. PICK gc : gc = x.m_gc
  OBVIOUS
<1>2. PICK found : found = FoundFrom(gc, f)
  OBVIOUS
<1>3. found = {a \in Headers(f, From(gc, f), EndAddr(gc.cur_page)) : HeaderIsValid(f, a)}
  BY <1>2 DEF FoundFrom
<1>4. PICK from : from = From(gc, f)
  OBVIOUS
<1>5. from = IF gc.p_scan_addr = NULL THEN Base(gc.cur_page) ELSE NextRecord(f, gc.p_scan_addr)
  BY <1>4 DEF From
<1>6. CASE found # {}
  <2>1. PICK a : a = Min(found)
    OBVIOUS
  <2>2. PICK n : n = FDS_HEADER_SIZE + LengthWords(f[a])
    OBVIOUS
  <2>3. CopyResult(x, gc, f, a, n, res)
    BY ZenonT(20), <1>1, <1>3, <1>4, <1>5, <1>6, <2>1, <2>2 DEF GcSeekRecord, CopyResult
  <2> QED
    BY <1>1, <1>2, <1>6, <2>1, <2>2, <2>3, GcCopyIs
<1>7. CASE found = {}
  <2>0. PICK dst, words : dst = StartAddr(gc.swap_page) /\ words = fds_page_tag_valid
    OBVIOUS
  <2>1. PICK z : z = FsStore(x, dst, words)
    OBVIOUS
  <2>8. PICK state : state = "READY_SWAP"
    OBVIOUS
  <2>2. PICK t : StateSet(z, state, t)
    BY DEF StateSet
  <2>3. res = Executing(t)
    BY Zenon, <1>1, <1>3, <1>4, <1>5, <1>7, <2>0, <2>1, <2>2, <2>8 DEF StateSet, GcSeekRecord
  <2>4. PICK op : op = Store(dst, words)
    OBVIOUS
  <2>5. PICK other : Collects(other, state, x.m_gc.cur_page, x.m_gc.swap_page, x.m_gc.p_scan_addr, x.m_gc.do_gc_page)
    BY DEF Collects
  <2>6. op = Store(StartAddr(gc.swap_page), PageTag("valid", "plain"))
    BY <2>0, <2>4 DEF fds_page_tag_valid
  <2>7. SafeOp(f, op) /\ Layout(x.m_pages, x.m_cmd_queue, x.m_chunk_queue, other, NULL, tk, ds, Done(f, op))
                    /\ Accounts(x.m_pages, x.m_cmd_queue, f)
    BY <1>1, <2>5, <2>6, <2>8, GcReady DEF At, Core
  <2>9. state \in Mid /\ x.m_gc.state \in Mid
    BY <2>8 DEF Mid
  <2> QED
    BY <2>9, <2>1, <2>2, <2>3, <2>4, <2>5, <2>7, GcGoes
<1> QED
  BY <1>6, <1>7

\* The page that was collected is the swap page now.
SwapSets(z, p, cur, v, b, u, t) ==
  t = [z EXCEPT !.m_gc.state = "NEW_SWAP", !.m_gc.swap_page = cur,
                 !.m_pages[p].page_type = "VALID",
                 !.m_pages[p].vpage_id = v,
                 !.m_pages[p].words_reserved = b,
                 !.m_pages[cur] = [@ EXCEPT !.page_type = "SWAP", !.words_reserved = 0,
                                            !.vpage_id = u, !.write_offset = FDS_PAGE_TAG_SIZE]]
Swapping(pages, p, cur, v, b, u, after) ==
  after = [pages EXCEPT
             ![p].page_type = "VALID", ![p].vpage_id = v, ![p].words_reserved = b,
             ![cur] = [@ EXCEPT !.page_type = "SWAP", !.words_reserved = 0,
                                !.vpage_id = u, !.write_offset = FDS_PAGE_TAG_SIZE]]

\* The assignments that make the pages change places, one after the other.
LEMMA SwapExcept ==
  ASSUME NEW z, Ram(z), NEW pages, z.m_pages = pages, NEW p, NEW cur, NEW v, NEW b, NEW u, NEW t, SwapSets(z, p, cur, v, b, u, t),
         NEW t1, StateSet(z, "NEW_SWAP", t1), NEW t2, SwapSet(t1, cur, t2), NEW after, Swapping(pages, p, cur, v, b, u, after)
  PROVE  PagesSet(t2, after, t)
<1>1. t2 = [z EXCEPT !.m_gc.state = "NEW_SWAP", !.m_gc.swap_page = cur]
  BY ONLY StateSet(z, "NEW_SWAP", t1), SwapSet(t1, cur, t2) DEF StateSet, SwapSet
<1>2. t2.m_pages = pages
  BY <1>1 DEF Ram
<1>3. t = [t2 EXCEPT !.m_pages[p].page_type = "VALID", !.m_pages[p].vpage_id = v, !.m_pages[p].words_reserved = b,
                 !.m_pages[cur] = [@ EXCEPT !.page_type = "SWAP", !.words_reserved = 0,
                                            !.vpage_id = u, !.write_offset = FDS_PAGE_TAG_SIZE]]
  BY ONLY <1>1, SwapSets(z, p, cur, v, b, u, t) DEF SwapSets
<1>4. Ram(t2)
  BY <1>1 DEF Ram
<1>5. PICK p1 : p1 = [pages EXCEPT ![p].page_type = "VALID"]
  OBVIOUS
<1>6. PICK p2 : p2 = [p1 EXCEPT ![p].vpage_id = v]
  OBVIOUS
<1>7. PICK p3 : p3 = [p2 EXCEPT ![p].words_reserved = b]
  OBVIOUS
<1>8. PICK p4 : p4 = [p3 EXCEPT ![cur] = [@ EXCEPT !.page_type = "SWAP", !.words_reserved = 0,
                                            !.vpage_id = u, !.write_offset = FDS_PAGE_TAG_SIZE]]
  OBVIOUS
<1>9. PICK u1 : u1 = [t2 EXCEPT !.m_pages = p1]
  OBVIOUS
<1>10. PICK u2 : u2 = [t2 EXCEPT !.m_pages = p2]
  OBVIOUS
<1>11. PICK u3 : u3 = [t2 EXCEPT !.m_pages = p3]
  OBVIOUS
<1>12. PICK u4 : u4 = [t2 EXCEPT !.m_pages = p4]
  OBVIOUS
<1>13. u1 = [t2 EXCEPT !.m_pages[p].page_type = "VALID"] /\ u1.m_pages = p1
  BY ONLY <1>2, <1>4, <1>5, <1>9 DEF Ram
<1>14. u2 = [u1 EXCEPT !.m_pages[p].vpage_id = v] /\ u2.m_pages = p2
  BY ONLY <1>4, <1>6, <1>9, <1>10, <1>13 DEF Ram
<1>15. u3 = [u2 EXCEPT !.m_pages[p].words_reserved = b] /\ u3.m_pages = p3
  BY ONLY <1>4, <1>7, <1>10, <1>11, <1>14 DEF Ram
<1>16. u4 = [u3 EXCEPT !.m_pages[cur] = [@ EXCEPT !.page_type = "SWAP", !.words_reserved = 0,
                                            !.vpage_id = u, !.write_offset = FDS_PAGE_TAG_SIZE]]
  BY ONLY <1>4, <1>8, <1>11, <1>12, <1>15 DEF Ram
<1>17. t = u4
  BY ONLY ZenonT(30), <1>3, <1>13, <1>14, <1>15, <1>16
<1>18. after = p4
  BY ONLY <1>5, <1>6, <1>7, <1>8, Swapping(pages, p, cur, v, b, u, after) DEF Swapping
<1> QED
  BY <1>12, <1>17, <1>18 DEF PagesSet

\* The pages change places, and the one collected is erased.
LEMMA GcNewPage ==
  ASSUME NEW x, NEW f, NEW tk, NEW ds, At(x, f, tk, ds), HeadIs(x.m_cmd_queue, {"GC"}),
         x.m_gc.state = "READY_SWAP", NEW res, res = GcNewSwapPage(x)
  PROVE  Executes(res, f, tk, ds)
<1>1. PICK q, pages, ch, gc : q = x.m_cmd_queue /\ pages = x.m_pages /\ ch = x.m_chunk_queue /\ gc = x.m_gc
  OBVIOUS
<1>2. Layout(pages, q, ch, gc, x.stack, tk, ds, f) /\ FlashOK(f) /\ Ram(x) /\ Free(x) /\ PagesTyped(pages)
  BY <1>1, GcRec DEF At
<1>3. HeadIs(q, {"GC"}) /\ gc.state = "READY_SWAP"
  BY <1>1
<1>4. IsGcRec(gc) /\ x.stack = NULL
  BY <1>1, GcRec DEF Mid
<1>5. PICK p \in Page, cur \in Page : p = gc.swap_page /\ cur = gc.cur_page
  BY <1>1, GcRec
<1>6. PICK v, b, u : v = pages[cur].vpage_id /\ b = pages[cur].words_reserved /\ u = pages[p].vpage_id
  OBVIOUS
<1>7. PICK y : SwapSets(x, p, cur, v, b, u, y)
  BY DEF SwapSets
<1>8. PICK op : op = Erase(cur)
  OBVIOUS
<1>9. PICK t : t = CmdEnqueue(y, op)
  OBVIOUS
<1>10. res = Executing(t)
  BY Zenon, <1>1, <1>5, <1>6, <1>7, <1>8, <1>9 DEF GcNewSwapPage, SwapSets, Data
<1>11. PICK after : Swapping(pages, p, cur, v, b, u, after)
  BY DEF Swapping
<1>12. Swaps(pages, p, cur, after)
  BY <1>6, <1>11 DEF Swaps, Swapping
<1>13. PICK t1 : StateSet(x, "NEW_SWAP", t1)
  BY DEF StateSet
<1>14. PICK t2 : SwapSet(t1, cur, t2)
  BY DEF SwapSet
<1>15. PagesSet(t2, after, y)
  BY <1>1, <1>2, <1>7, <1>11, <1>13, <1>14, SwapExcept
<1>16. PICK scan, todo : scan = gc.p_scan_addr /\ todo = gc.do_gc_page
  OBVIOUS
<1>17. PICK other : Collects(other, "NEW_SWAP", cur, cur, scan, todo)
  BY DEF Collects
<1>18. Collects(other, "NEW_SWAP", gc.cur_page, cur, gc.p_scan_addr, gc.do_gc_page)
  BY <1>5, <1>16, <1>17
<1>19. GcSet(x, other, t2)
  BY <1>1, <1>2, <1>4, <1>13, <1>14, <1>18, GcSwap
<1>20. Becomes(x, x, q, ch, pages, gc, NULL)
  BY <1>1, <1>4, Itself
<1>21. Ram(t2) /\ Becomes(x, t2, q, ch, pages, other, NULL) /\ FsKept(x, t2)
  BY <1>2, <1>19, <1>20, GcChanged
<1>22. Ram(y) /\ Becomes(x, y, q, ch, after, other, NULL) /\ FsKept(t2, y)
  BY <1>15, <1>21, PagesGo
<1>23. Free(y)
  BY <1>2, <1>21, <1>22, FsStays
<1>24. Ram(t) /\ Begun(t, op) /\ Kept(y, t)
  BY <1>9, <1>22, <1>23, Started
<1>25. Becomes(x, t, q, ch, after, other, NULL)
  BY <1>22, <1>24 DEF Becomes, Kept
<1>26. Collects(other, "NEW_SWAP", cur, cur, gc.p_scan_addr, gc.do_gc_page)
  BY <1>16, <1>17
<1>27. SafeOp(f, op) /\ Layout(after, q, ch, other, NULL, tk, ds, Done(f, op)) /\ Accounts(after, q, f)
  BY <1>2, <1>3, <1>5, <1>8, <1>12, <1>26, GcSwaps
<1>28. other.state \in Mid
  BY <1>17 DEF Collects, Mid
<1>29. Begins(t, f, tk, ds, op)
  BY <1>1, <1>24, <1>25, <1>27, <1>28, GcBegins
<1>30. res.x = t /\ res.ret = "EXECUTING"
  BY ONLY <1>10 DEF Executing, Says
<1> QED
  BY <1>29, <1>30 DEF Executes

\* The collection is executed.
LEMMA GcExec ==
  ASSUME NEW x, NEW f, NEW tk, NEW ds, At(x, f, tk, ds), HeadIs(x.m_cmd_queue, {"GC"}),
         x.m_gc.state = "BEGIN" \/ x.m_gc.state \in Mid, NEW res, res = GcExecute(x, TRUE, f)
  PROVE  Executes(res, f, tk, ds) \/ (Completes(res, f, tk, ds) /\ Rests(res.x, f, tk, ds))
<1>1. CASE x.m_gc.state = "BEGIN"
  <2>1. res = GcBegin(x)
    BY <1>1 DEF GcExecute
  <2> QED
    BY <1>1, <2>1, GcBeginIs
<1>2. CASE x.m_gc.state \in {"GC_PAGE", "COPY_RECORD"}
  <2>1. res = GcSeekRecord(x, f)
    BY <1>2 DEF GcExecute
  <2> QED
    BY <1>2, <2>1, GcSeek
<1>3. CASE x.m_gc.state = "READY_SWAP"
  <2>1. res = GcNewSwapPage(x)
    BY <1>3 DEF GcExecute
  <2> QED
    BY <1>3, <2>1, GcNewPage
<1>4. CASE x.m_gc.state = "NEW_SWAP"
  <2>1. res = Executing([FsStore(x, StartAddr(x.m_gc.swap_page), fds_page_tag_swap) EXCEPT !.m_gc.state = "INIT_SWAP"])
    BY <1>4 DEF GcExecute
  <2> QED
    BY <1>4, <2>1, GcNewSwap
<1>5. CASE x.m_gc.state = "INIT_SWAP"
  <2>1. res = GcPage([x EXCEPT !.m_gc.p_scan_addr = NULL])
    BY <1>5 DEF GcExecute
  <2> QED
    BY <1>5, <2>1, GcInitSwap
<1> QED
  BY <1>1, <1>2, <1>3, <1>4, <1>5 DEF Mid

--------------------------------------------------------------------------------

(* Commands are executed. *)

\* The command at the head of the queue is the one executed.
LEMMA HeadKnown ==
  ASSUME NEW x, NEW f, NEW tk, NEW ds, At(x, f, tk, ds), x.m_cmd_queue # <<>>
  PROVE  /\ Cmd(x) = Head(x.m_cmd_queue)
         /\ Cmd(x).id = "GC" => x.m_gc.state = "BEGIN" \/ x.m_gc.state \in Mid
<1>1. QueueOK(x.m_pages, x.m_cmd_queue, x.m_gc)
  BY DEF At, Core, Layout
<1>2. IsList(x.m_cmd_queue)
  BY <1>1 DEF QueueOK
<1>3. Len(x.m_cmd_queue) \in Nat /\ Len(x.m_cmd_queue) >= 1 /\ Head(x.m_cmd_queue) = x.m_cmd_queue[1]
  BY <1>2, ListIs, ListHead
<1>4. 1 \in 1 .. Len(x.m_cmd_queue)
  BY <1>3
<1> QED
  BY <1>1, <1>3, <1>4 DEF QueueOK, Cmd

\* The command at the head is begun.
LEMMA ExecFresh ==
  ASSUME NEW x, NEW f, NEW tk, NEW ds, At(x, f, tk, ds), x.m_cmd_queue # <<>>, Fresh(Head(x.m_cmd_queue)),
         NEW dst, NEW res, res = Execute(x, TRUE, dst, f)
  PROVE  Leaves(res.x, f, tk, ds)
<1>1. Cmd(x) = Head(x.m_cmd_queue) /\ (Cmd(x).id = "GC" => x.m_gc.state = "BEGIN" \/ x.m_gc.state \in Mid)
  BY HeadKnown
<1>2. CASE IsStore(Cmd(x))
  <2>1. res = StoreExecute(x, TRUE)
    BY <1>2 DEF Execute, IsStore
  <2>2. HeadIs(x.m_cmd_queue, {"WRITE", "UPDATE"})
    BY <1>1, <1>2 DEF HeadIs, IsStore
  <2>3. Executes(res, f, tk, ds)
    BY <2>1, <2>2, StoreBegins
  <2> QED
    BY <2>3 DEF Executes, Leaves
<1>3. CASE Cmd(x).id = "CLEAR"
  <2>1. res = ClearExecute(x, TRUE, f)
    BY <1>3 DEF Execute
  <2>2. HeadIs(x.m_cmd_queue, {"CLEAR"}) /\ Head(x.m_cmd_queue).op_code = "CLEAR_TL"
    BY <1>1, <1>3 DEF HeadIs, Fresh, IsStore
  <2> QED
    BY <2>1, <2>2, ClearTL
<1>4. CASE Cmd(x).id = "CLEAR_INST"
  <2>1. res = ClearExecute(x, TRUE, f)
    BY <1>4 DEF Execute
  <2>2. HeadIs(x.m_cmd_queue, {"CLEAR_INST"}) /\ Head(x.m_cmd_queue).op_code = "CLEAR_INSTANCE"
    BY <1>1, <1>4 DEF HeadIs, Fresh, IsStore
  <2>3. Executes(res, f, tk, ds) \/ (Completes(res, f, tk, ds) /\ Rests(res.x, f, tk, ds))
    BY <2>1, <2>2, ClearInstance
  <2> QED
    BY <2>3 DEF Executes, Leaves
<1>5. CASE Cmd(x).id = "GC"
  <2>1. res = GcExecute(x, TRUE, f)
    BY <1>5 DEF Execute
  <2>2. HeadIs(x.m_cmd_queue, {"GC"})
    BY <1>1, <1>5 DEF HeadIs
  <2>3. Executes(res, f, tk, ds) \/ (Completes(res, f, tk, ds) /\ Rests(res.x, f, tk, ds))
    BY <1>1, <1>5, <2>1, <2>2, GcExec
  <2> QED
    BY <2>3 DEF Executes, Leaves
<1> QED
  BY <1>1, <1>2, <1>3, <1>4, <1>5 DEF Fresh

\* The command at the head goes on, when the flash operation it waited for has ended.
LEMMA ExecNext ==
  ASSUME NEW x, NEW f, NEW tk, NEW ds, At(x, f, tk, ds), NEW op, AtWork(x, op, f), ~HeadIs(x.m_cmd_queue, {"INIT"}),
         NEW dst, NEW res, res = Execute(x, TRUE, dst, f)
  PROVE  Executes(res, f, tk, ds) \/ Completes(res, f, tk, ds)
<1>0. x.m_cmd_queue # <<>>
  BY DEF AtWork, HeadIs
<1>1. Cmd(x) = Head(x.m_cmd_queue)
  BY <1>0, HeadKnown
<1>2. CASE HeadIs(x.m_cmd_queue, {"WRITE", "UPDATE"})
  <2>1. res = StoreExecute(x, TRUE)
    BY <1>1, <1>2 DEF Execute, HeadIs
  <2>2. WritingAt(x.m_pages, Head(x.m_cmd_queue), f)
    BY <1>2 DEF AtWork, HeadIs
  <2>3. Head(x.m_cmd_queue).op_code \in {"WRITE_ID", "WRITE_CHUNK", "WRITE_IC", "DONE"}
    BY <2>2 DEF WritingAt, WritesAt, Progress
  <2>4. CASE Head(x.m_cmd_queue).op_code = "WRITE_ID"
    BY <1>2, <2>1, <2>2, <2>4, StoreID
  <2>5. CASE Head(x.m_cmd_queue).op_code = "WRITE_CHUNK"
    BY <1>2, <2>1, <2>2, <2>5, StoreChunk
  <2>6. CASE Head(x.m_cmd_queue).op_code = "WRITE_IC"
    BY <1>2, <2>1, <2>2, <2>6, StoreIC
  <2>7. CASE Head(x.m_cmd_queue).op_code = "DONE"
    BY <1>2, <2>1, <2>2, <2>7, StoreEnds
  <2> QED
    BY <2>3, <2>4, <2>5, <2>6, <2>7
<1>3. CASE HeadIs(x.m_cmd_queue, {"CLEAR"})
  <2>1. res = ClearExecute(x, TRUE, f)
    BY <1>1, <1>3 DEF Execute, HeadIs
  <2>2. Head(x.m_cmd_queue).op_code = "DONE"
    BY <1>3 DEF AtWork, HeadIs
  <2> QED
    BY <1>3, <2>1, <2>2, ClearDone
<1>4. CASE HeadIs(x.m_cmd_queue, {"CLEAR_INST"})
  <2>1. res = ClearExecute(x, TRUE, f)
    BY <1>1, <1>4 DEF Execute, HeadIs
  <2>2. Head(x.m_cmd_queue).op_code = "CLEAR_INSTANCE"
    BY <1>4 DEF AtWork, HeadIs
  <2> QED
    BY <1>4, <2>1, <2>2, ClearInstance
<1>5. CASE HeadIs(x.m_cmd_queue, {"GC"})
  <2>1. res = GcExecute(x, TRUE, f)
    BY <1>1, <1>5 DEF Execute, HeadIs
  <2>2. x.m_gc.state \in Mid
    BY <1>5 DEF AtWork, HeadIs
  <2> QED
    BY <1>5, <2>1, <2>2, GcExec
<1> QED
  BY <1>2, <1>3, <1>4, <1>5 DEF AtWork

\* The command at the head is gone; what is left is z.
Pops(y, z) == z = [y EXCEPT !.m_cmd_queue = Tail(@)]

\* What the invariant says once a command has left the queue.
LEMMA PopsIs ==
  ASSUME NEW y, NEW f, NEW tk, NEW ds, Ends(y, f, tk, ds), NEW z, Pops(y, z)
  PROVE  /\ Ram(z) /\ Free(z) /\ Core(z, f, tk, ds) /\ BoundsOK(z) /\ FlashOK(f) /\ z.m_flags = y.m_flags
         /\ "INITIALIZED" \in z.m_flags /\ z.m_cmd_queue = Tail(y.m_cmd_queue)
         /\ z.m_cmd_queue # <<>> => Fresh(Head(z.m_cmd_queue)) /\ FlagsOK(z)
         /\ z.m_pages = y.m_pages /\ z.m_gc = y.m_gc /\ z.m_last_rec_id = y.m_last_rec_id
<1>1. /\ Ram(y) /\ Free(y) /\ FlashOK(f) /\ FlagsOK(y) /\ BoundsOK(y) /\ y.m_cmd_queue # <<>> /\ IsList(y.m_cmd_queue)
      /\ ~HeadIs(y.m_cmd_queue, {"INIT"})
      /\ \A n \in 1 .. Len(y.m_cmd_queue) : n > 1 => Fresh(y.m_cmd_queue[n])
      /\ Layout(y.m_pages, Tail(y.m_cmd_queue), y.m_chunk_queue, y.m_gc, y.stack, tk, ds, f)
  BY DEF Ends
<1>2. QueueSet(y, Tail(y.m_cmd_queue), z)
  BY DEF Pops, QueueSet
<1>3. Becomes(y, y, y.m_cmd_queue, y.m_chunk_queue, y.m_pages, y.m_gc, y.stack)
  BY Itself
<1>4. PICK r : r = Tail(y.m_cmd_queue)
  OBVIOUS
<1>5. Ram(z) /\ Becomes(y, z, r, y.m_chunk_queue, y.m_pages, y.m_gc, y.stack) /\ FsKept(y, z)
  BY <1>1, <1>2, <1>3, <1>4, QueueChanged
<1>6. Free(z)
  BY <1>1, <1>5, FsStays
<1>7. z.m_cmd_queue = r /\ z.m_pages = y.m_pages /\ z.m_gc = y.m_gc /\ z.m_flags = y.m_flags
      /\ z.m_chunk_queue = y.m_chunk_queue /\ z.stack = y.stack /\ z.m_last_rec_id = y.m_last_rec_id
  BY <1>5 DEF Becomes
<1>8. Core(z, f, tk, ds)
  BY <1>1, <1>4, <1>7 DEF Core
<1>9. "INITIALIZED" \in y.m_flags /\ "PROCESSING" \in y.m_flags
  BY <1>1 DEF FlagsOK
<1>10. IsList(r) /\ Len(r) = Len(y.m_cmd_queue) - 1 /\ Len(y.m_cmd_queue) \in Nat
       /\ \A n \in 1 .. Len(y.m_cmd_queue) - 1 : r[n] = y.m_cmd_queue[n + 1]
  BY <1>1, <1>4, ListHead, ListIs
<1>11. BoundsOK(z)
  <2>1. Len(y.m_cmd_queue) <= FDS_CMD_QUEUE_SIZE /\ Len(y.m_chunk_queue) <= FDS_CHUNK_QUEUE_SIZE
    BY <1>1 DEF BoundsOK
  <2>2. Len(r) <= FDS_CMD_QUEUE_SIZE
    BY <1>10, <2>1, LimitsAre
  <2> QED
    BY <1>7, <2>1, <2>2 DEF BoundsOK
<1>12. ASSUME r # <<>> PROVE Fresh(Head(r))
  <2>1. Len(r) \in Nat /\ Len(r) >= 1 /\ Head(r) = r[1]
    BY <1>10, <1>12, ListIs, ListHead
  <2>2. r[1] = y.m_cmd_queue[1 + 1] /\ 1 + 1 \in 1 .. Len(y.m_cmd_queue) /\ 1 + 1 > 1
    BY <1>10, <2>1
  <2> QED
    BY <1>1, <2>1, <2>2
<1>13. ASSUME r # <<>> PROVE FlagsOK(z)
  <2>1. ~HeadIs(r, {"INIT"})
    BY <1>12, <1>13 DEF Fresh, HeadIs, IsStore
  <2> QED
    BY <1>1, <1>7, <1>9, <1>13, <2>1 DEF FlagsOK
<1> QED
  BY <1>1, <1>4, <1>5, <1>6, <1>7, <1>8, <1>9, <1>11, <1>12, <1>13

FlagsSet(z, a, t) == t = [z EXCEPT !.m_flags = a]

\* What changes when the flags do.
LEMMA FlagsSetIs ==
  ASSUME NEW z, Ram(z), NEW a, NEW t, FlagsSet(z, a, t)
  PROVE  /\ Ram(t) /\ FsKept(z, t) /\ t.m_flags = a /\ t.m_cmd_queue = z.m_cmd_queue /\ t.m_chunk_queue = z.m_chunk_queue
         /\ t.m_pages = z.m_pages /\ t.m_gc = z.m_gc /\ t.stack = z.stack /\ t.m_last_rec_id = z.m_last_rec_id
         /\ t.m_swap_page_avail = z.m_swap_page_avail
BY DEF Ram, FlagsSet, FsKept

\* The command at the head has ended; the next one begins, or the queue rests.
LEMMA EndsAdvance ==
  ASSUME NEW y, NEW f, NEW tk, NEW ds, Ends(y, f, tk, ds),
         NEW done, done.ret = "COMPLETED", done.x = y, NEW t, t = Advance(done, f)
  PROVE  Leaves(t, f, tk, ds)
<1>1. PICK z : Pops(y, z)
  BY DEF Pops
<1>2. /\ Ram(z) /\ Free(z) /\ Core(z, f, tk, ds) /\ BoundsOK(z) /\ FlashOK(f) /\ z.m_flags = y.m_flags
      /\ "INITIALIZED" \in z.m_flags /\ z.m_cmd_queue = Tail(y.m_cmd_queue)
      /\ z.m_cmd_queue # <<>> => Fresh(Head(z.m_cmd_queue)) /\ FlagsOK(z)
      /\ z.m_pages = y.m_pages /\ z.m_gc = y.m_gc /\ z.m_last_rec_id = y.m_last_rec_id
  BY <1>1, PopsIs
<1>3. CASE z.m_cmd_queue # <<>>
  <2>1. At(z, f, tk, ds)
    BY <1>2, <1>3 DEF At
  <2>2. PICK res : res = Execute(z, TRUE, NULL, f)
    OBVIOUS
  <2>3. t = res.x
    BY <1>1, <1>3, <2>2 DEF Advance, CmdQueueProcess, Pops
  <2> QED
    BY <1>2, <1>3, <2>1, <2>2, <2>3, ExecFresh
<1>4. CASE z.m_cmd_queue = <<>>
  <2>1. PICK flags : flags = z.m_flags \ {"PROCESSING"}
    OBVIOUS
  <2>2. FlagsSet(z, flags, t)
    BY <1>1, <1>4, <2>1 DEF Advance, Pops, FlagsSet
  <2>3. /\ Ram(t) /\ FsKept(z, t) /\ t.m_flags = flags /\ t.m_cmd_queue = <<>> /\ t.m_chunk_queue = z.m_chunk_queue
        /\ t.m_pages = z.m_pages /\ t.m_gc = z.m_gc /\ t.stack = z.stack /\ t.m_last_rec_id = z.m_last_rec_id
    BY <1>2, <1>4, <2>2, FlagsSetIs
  <2>4. Free(t)
    BY <1>2, <2>3, FsStays
  <2>5. Core(t, f, tk, ds)
    BY <1>2, <1>4, <2>3 DEF Core
  <2>6. BoundsOK(t)
    BY <1>2, <1>4, <2>3 DEF BoundsOK
  <2>7. "INITIALIZED" \in flags /\ "PROCESSING" \notin flags
    BY <1>2, <2>1
  <2>8. FlagsOK(t)
    <3>1. FlagsOK(y) /\ "INITIALIZED" \in y.m_flags
      BY <1>2 DEF Ends
    <3> QED
      BY <1>2, <2>3, <2>7, <3>1 DEF FlagsOK, HeadIs
  <2>9. At(t, f, tk, ds) /\ Active(t)
    BY <1>2, <2>3, <2>4, <2>5, <2>6, <2>7, <2>8 DEF At, Active
  <2> QED
    BY <2>3, <2>9 DEF Leaves, Rests
<1> QED
  BY <1>3, <1>4

\* What is done with the result of a command leaves things as the invariant wants them.
LEMMA AdvanceIs ==
  ASSUME NEW done, NEW f, NEW tk, NEW ds, Executes(done, f, tk, ds) \/ Completes(done, f, tk, ds),
         NEW t, t = Advance(done, f)
  PROVE  Leaves(t, f, tk, ds)
<1>1. CASE Executes(done, f, tk, ds)
  <2>1. done.ret = "EXECUTING"
    BY <1>1 DEF Executes
  <2>2. t = done.x
    BY <2>1 DEF Advance
  <2> QED
    BY <1>1, <2>2 DEF Executes, Leaves
<1>2. CASE Completes(done, f, tk, ds)
  <2>1. PICK y : y = done.x
    OBVIOUS
  <2>2. Ends(y, f, tk, ds) /\ done.ret = "COMPLETED" 
    BY <1>2, <2>1 DEF Completes
  <2> QED
    BY <2>1, <2>2, EndsAdvance
<1> QED
  BY <1>1, <1>2

--------------------------------------------------------------------------------

(* The pages are formatted. *)
TypeSet(pages, p, k, other) == other = [pages EXCEPT ![p].page_type = k]

\* What changes when the kind of a page does.
LEMMA TypeSetIs ==
  ASSUME NEW pages, PagesTyped(pages), NEW p \in Page, NEW k \in {"SWAP", "VALID"}, NEW other, TypeSet(pages, p, k, other)
  PROVE  /\ PagesTyped(other) /\ other[p].page_type = k /\ other[p].vpage_id = pages[p].vpage_id
         /\ other[p].write_offset = pages[p].write_offset /\ other[p].words_reserved = pages[p].words_reserved
         /\ \A i \in Page : i # p => other[i] = pages[i]
         /\ \A i \in Page : other[i].vpage_id = pages[i].vpage_id /\ other[i].write_offset = pages[i].write_offset
                            /\ other[i].words_reserved = pages[i].words_reserved
<1>1. IsPage(pages[p]) /\ pages = [i \in Page |-> pages[i]]
  BY DEF PagesTyped
<1>2. PICK d : d = [pages[p] EXCEPT !.page_type = k]
  OBVIOUS
<1>3. /\ IsPage(d) /\ d.page_type = k /\ d.vpage_id = pages[p].vpage_id
      /\ d.write_offset = pages[p].write_offset /\ d.words_reserved = pages[p].words_reserved
  BY <1>1, <1>2 DEF IsPage, PageTypes
<1>4. other[p] = d /\ other = [i \in Page |-> other[i]] /\ \A i \in Page : i # p => other[i] = pages[i]
  BY <1>1, <1>2 DEF TypeSet
<1>5. \A i \in Page : IsPage(other[i])
  BY <1>3, <1>4 DEF PagesTyped
<1> QED
  BY <1>3, <1>4, <1>5 DEF PagesTyped

\* Writing the tag of an erased page keeps the layout.
LEMMA Formatted ==
  ASSUME NEW pages, NEW q, NEW ch, NEW gc, NEW stack, NEW tk, NEW ds, NEW f,
         Layout(pages, q, ch, gc, stack, tk, ds, f), FlashOK(f), HeadIs(q, {"INIT"}), Len(q) = 1, gc.state = "NONE",
         NEW p \in Page, pages[p].page_type = "ERASED", NEW k \in {"SWAP", "VALID"}, NEW other, TypeSet(pages, p, k, other),
         NEW g, Changes(f, g, p, k, {}, Base(p)),
         NEW after, IsGc(after), after.state = "NONE", after.p_scan_addr = NULL
  PROVE  Layout(other, q, ch, after, stack, tk, ds, g) /\ Accounts(other, q, f)
<1>1. /\ PagesTyped(pages) /\ Apart(pages) /\ KindsOK(pages, gc, f) /\ EndsOK(pages, q, f) /\ RoomOK(pages, gc)
      /\ QueueOK(pages, q, gc) /\ ChunksOK(q, ch) /\ SpaceOK(pages, q, tk)
      /\ StackOK(pages, stack, f) /\ DescsOK(pages, ds)
  BY DEF Layout, PagesOK
<1>2. q # <<>> /\ IsList(q) /\ Head(q) = q[1] /\ q[1].id = "INIT" /\ CmdOK(pages, q[1]) /\ ~IsStore(q[1])
  BY <1>1, QueueWords DEF HeadIs, IsStore
<1>3. \A v : Extra(q, v) = 0
  BY <1>2 DEF Extra, HeadIs
<1>4. \A i \in Page : Kind(f, i) = pages[i].page_type
  BY <1>1 DEF KindsOK, KindNow
<1>5. \A i \in Page : pages[i].write_offset \in Nat /\ pages[i].words_reserved \in Nat
  BY <1>1, PageFields DEF PagesTyped
<1>6. \A i \in Page : End(f, i) = StartAddr(i) + pages[i].write_offset
  <2> TAKE i \in Page
  <2>1. PICK s \in Nat, w \in Nat, x \in Nat : s = StartAddr(i) /\ w = pages[i].write_offset /\ x = Extra(q, pages[i].vpage_id) /\ x = 0
    BY <1>3, <1>5, PageIs
  <2>2. End(f, i) = s + w + x
    BY <1>1, <2>1 DEF EndsOK
  <2> QED
    BY <2>1, <2>2
<1>7. HeadersOf(f, p) = {} /\ End(f, p) = Base(p)
  BY <1>4, ErasedPage
<1>8. pages[p].write_offset = 4 /\ pages[p].words_reserved = 0
  <2>1. PICK s \in Nat, w \in Nat : s = StartAddr(p) /\ w = pages[p].write_offset /\ Base(p) = s + 4
    BY <1>5, PageIs
  <2>2. s + w = s + 4
    BY <1>6, <1>7, <2>1
  <2> QED
    BY <1>1, <2>1, <2>2 DEF RoomOK
<1>9. /\ PagesTyped(other) /\ other[p].page_type = k /\ other[p].vpage_id = pages[p].vpage_id
      /\ \A i \in Page : i # p => other[i] = pages[i]
      /\ \A i \in Page : other[i].vpage_id = pages[i].vpage_id /\ other[i].write_offset = pages[i].write_offset
                         /\ other[i].words_reserved = pages[i].words_reserved
  BY <1>1, TypeSetIs
<1>10. /\ Kind(g, p) = k /\ HeadersOf(g, p) = {} /\ End(g, p) = Base(p)
       /\ \A i \in Page : i # p => Kind(g, i) = Kind(f, i) /\ HeadersOf(g, i) = HeadersOf(f, i) /\ End(g, i) = End(f, i)
  BY ChangesAre
<1>11. Apart(other)
  BY <1>1, <1>9 DEF Apart
<1>12. KindsOK(other, after, g)
  BY <1>4, <1>9, <1>10 DEF KindsOK, KindNow
<1>13. \A i \in Page : End(g, i) = StartAddr(i) + other[i].write_offset
  BY <1>6, <1>7, <1>9, <1>10
<1>14. EndsOK(other, q, g)
  <2> SUFFICES ASSUME NEW i \in Page PROVE End(g, i) = StartAddr(i) + other[i].write_offset + Extra(q, other[i].vpage_id)
    BY DEF EndsOK
  <2>1. PICK s \in Nat, w \in Nat, x \in Nat : s = StartAddr(i) /\ w = other[i].write_offset /\ x = Extra(q, other[i].vpage_id) /\ x = 0
    BY <1>3, <1>5, <1>9, PageIs
  <2>2. End(g, i) = s + w
    BY <1>13, <2>1
  <2> QED
    BY <2>1, <2>2
<1>15. RoomOK(other, after)
  <2>1. 4 + 0 < FS_PAGE_SIZE_WORDS
    BY FdsAssumption DEF FDS_PAGE_TAG_SIZE
  <2> SUFFICES ASSUME NEW i \in Page
               PROVE  /\ other[i].page_type # "VALID" => other[i].words_reserved = 0
                      /\ other[i].page_type = "VALID" => other[i].write_offset + other[i].words_reserved < FS_PAGE_SIZE_WORDS
                      /\ other[i].page_type = "SWAP" /\ ~(after.state \in {"COPY_RECORD", "READY_SWAP"} /\ i = after.swap_page)
                           => other[i].write_offset = 4
    BY DEF RoomOK
  <2>2. CASE i = p
    <3>1. other[i].write_offset = 4 /\ other[i].words_reserved = 0
      BY <1>8, <1>9, <2>2
    <3> QED
      BY <3>1, <2>1
  <2>3. CASE i # p
    <3>1. other[i] = pages[i]
      BY <1>9, <2>3
    <3> QED
      BY <1>1, <3>1 DEF RoomOK
  <2> QED
    BY <2>2, <2>3
<1>16. \A v : ValidPage(pages, v) => ValidPage(other, v)
  <2> SUFFICES ASSUME NEW v, ValidPage(pages, v) PROVE ValidPage(other, v)
    OBVIOUS
  <2>1. PICK i \in Page : pages[i].page_type = "VALID" /\ pages[i].vpage_id = v
    BY DEF ValidPage
  <2>2. i # p
    BY <2>1
  <2> QED
    BY <1>9, <2>1, <2>2 DEF ValidPage
<1>17. QueueOK(other, q, after)
  <2>1. QueueOK(other, q, gc)
    BY <1>1, <1>16, QueuePages
  <2>2. \A n \in 1 .. Len(q) : q[n].id # "GC"
    BY <1>2
  <2> QED
    BY <2>1, <2>2 DEF QueueOK
<1>18. SpaceOK(other, q, tk)
  <2>1. TokenOK(pages, tk)
    BY <1>1 DEF SpaceOK
  <2>2. TokenOK(other, tk)
    BY <1>16, <2>1 DEF TokenOK
  <2>3. ASSUME NEW i \in Page, other[i].page_type = "VALID" PROVE DueWithin(q, tk, other[i].vpage_id, other[i].words_reserved)
    <3>1. CASE i # p
      <4>1. other[i] = pages[i]
        BY <1>9, <3>1
      <4> QED
        BY <1>1, <2>3, <4>1 DEF SpaceOK
    <3>2. CASE i = p
      <4>1. PICK v : v = pages[p].vpage_id
        OBVIOUS
      <4>2. ~ValidPage(pages, v)
        BY <1>1, <4>1 DEF ValidPage, Apart
      <4>3. TokenWords(tk, v) = 0
        BY <2>1, <4>2, TokenWordsAre
      <4>4. WordsFor(q[1], v) = 0
        BY <1>2, WordsForNat DEF CmdOK
      <4>5. PICK z \in Nat : z = 0
        OBVIOUS
      <4>6. DueWithin(q, tk, v, z)
        <5>1. PICK due : due = [j \in 0 .. 1 |-> z]
          OBVIOUS
        <5>2. due \in [0 .. Len(q) -> 0 .. z] /\ due[0] = z /\ due[1] = z
          BY <4>5, <5>1
        <5>3. IsDue(due, q, tk, v)
          <6>1. due[Len(q)] = TokenWords(tk, v)
            BY <4>3, <4>5, <5>2
          <6>2. \A m, n \in 0 .. Len(q) : m <= n => due[n] <= due[m]
            BY <4>5, <5>1
          <6>3. \A n \in 1 .. Len(q) : due[n - 1] = due[n] + WordsFor(q[n], v)
            <7> SUFFICES ASSUME NEW n \in 1 .. Len(q) PROVE due[n - 1] = due[n] + WordsFor(q[n], v)
              OBVIOUS
            <7>1. n = 1 /\ n - 1 = 0
              OBVIOUS
            <7>2. due[n - 1] = z /\ due[n] = z /\ WordsFor(q[n], v) = z
              BY <4>4, <4>5, <5>2, <7>1
            <7> QED
              BY <4>5, <7>2
          <6> QED
            BY <6>1, <6>2, <6>3 DEF IsDue
        <5> QED
          BY <5>2, <5>3 DEF DueWithin
      <4> QED
        BY <1>8, <1>9, <3>2, <4>1, <4>5, <4>6
    <3> QED
      BY <3>1, <3>2
  <2> QED
    BY <2>2, <2>3 DEF SpaceOK
<1>19. StackOK(other, stack, g)
  <2>1. ASSUME NEW i \in Page, pages[i].page_type = "VALID", stack \in HeadersOf(f, i)
        PROVE  other[i].page_type = "VALID" /\ stack \in HeadersOf(g, i)
    <3>1. i # p
      BY <2>1
    <3> QED
      BY <1>9, <1>10, <2>1, <3>1
  <2> QED
    BY <1>1, <2>1 DEF StackOK
<1>20. GcOK(other, q, after, stack, g)
  BY DEF GcOK, Mid
<1>21. DescsOK(other, ds)
  BY <1>1, <1>16 DEF DescsOK, IsDesc
<1>22. Accounts(other, q, f)
  BY <1>6, <1>9 DEF Accounts
<1> QED
  BY <1>1, <1>9, <1>11, <1>12, <1>14, <1>15, <1>17, <1>18, <1>19, <1>20, <1>21, <1>22 DEF Layout, PagesOK

\* The pages are being formatted.
Formats(x) == /\ HeadIs(x.m_cmd_queue, {"INIT"}) /\ Len(x.m_cmd_queue) = 1 /\ x.m_gc.state = "NONE"
              /\ x.m_swap_page_avail \in BOOLEAN
              /\ x.m_swap_page_avail = TRUE => x.m_pages[x.m_gc.swap_page].page_type = "SWAP"

\* What formatting a page changes.
Forms(x, y, pages, gc) ==
  /\ y.m_cmd_queue = x.m_cmd_queue /\ y.m_chunk_queue = x.m_chunk_queue /\ y.m_pages = pages /\ y.m_gc = gc
  /\ y.stack = x.stack /\ y.m_flags = x.m_flags /\ y.m_last_rec_id = x.m_last_rec_id /\ y.m_swap_page_avail = TRUE

\* Formatting a page begins a safe operation.
LEMMA InitBegins ==
  ASSUME NEW x, NEW f, NEW tk, NEW ds, At(x, f, tk, ds), Formats(x),
         NEW p \in Page, x.m_pages[p].page_type = "ERASED", NEW w0 \in {"swap", "valid"}, NEW k,
         k = IF w0 = "swap" THEN "SWAP" ELSE "VALID",
         w0 = "valid" => x.m_swap_page_avail = TRUE,
         NEW op, op = Store(StartAddr(p), PageTag(w0, "plain")), NEW other, TypeSet(x.m_pages, p, k, other),
         NEW gc, IsGc(gc), gc.state = "NONE", gc.p_scan_addr = NULL, other[gc.swap_page].page_type = "SWAP",
         NEW y, Ram(y), Begun(y, op), Forms(x, y, other, gc)
  PROVE  Begins(y, f, tk, ds, op)
<1>1. PICK q, pages : q = x.m_cmd_queue /\ pages = x.m_pages
  OBVIOUS
<1>2. /\ HeadIs(q, {"INIT"}) /\ Len(q) = 1 /\ x.m_gc.state = "NONE" /\ FlashOK(f) /\ q # <<>>
      /\ x.m_swap_page_avail = TRUE => pages[x.m_gc.swap_page].page_type = "SWAP"
  BY <1>1 DEF Formats, At, HeadIs
<1>3. Layout(pages, q, x.m_chunk_queue, x.m_gc, x.stack, tk, ds, f)
  BY <1>1 DEF At, Core
<1>4. IsGc(x.m_gc)
  BY <1>3 DEF Layout, GcOK
<1>5. x.m_gc.swap_page \in Page
  BY <1>4 DEF IsGc
<1>6. \A i \in Page : Kind(f, i) = pages[i].page_type
  BY <1>2, <1>3 DEF Layout, PagesOK, KindsOK, KindNow
<1>7. Kind(f, p) = "ERASED"
  BY <1>1, <1>6
<1>8. w0 = "valid" => \E i \in Page : Kind(f, i) = "SWAP"
  BY <1>2, <1>5, <1>6
<1>9. PICK g : g = Done(f, op)
  OBVIOUS
<1>10. SafeOp(f, op) /\ Changes(f, g, p, k, {}, Base(p))
  BY <1>2, <1>7, <1>8, <1>9, SafeTag
<1>11. k \in {"SWAP", "VALID"}
  OBVIOUS
<1>12. Layout(other, q, x.m_chunk_queue, gc, x.stack, tk, ds, g) /\ Accounts(other, q, f)
  BY <1>1, <1>2, <1>3, <1>10, <1>11, Formatted
<1>13. Core(y, g, tk, ds) /\ Accounts(y.m_pages, y.m_cmd_queue, f) /\ y.m_cmd_queue # <<>>
  BY <1>1, <1>2, <1>12 DEF Core, Forms
<1>14. AtWork(y, op, g)
  <2>1. op.dst = StartAddr(p)
    BY StoreIs
  <2> QED
    BY <1>1, <1>2, <2>1 DEF AtWork, Forms
<1>15. FlagsOK(y)
  <2>1. FlagsOK(x)
    BY DEF At
  <2>2. "INITIALIZED" \notin x.m_flags
    BY <1>1, <1>2, <2>1 DEF FlagsOK
  <2> QED
    BY <2>1, <2>2 DEF FlagsOK, Forms
<1>16. BoundsOK(y)
  BY DEF At, BoundsOK, Forms
<1> QED
  BY <1>9, <1>10, <1>13, <1>14, <1>15, <1>16 DEF Begins

\* The first page, at or behind cur, that is blank.
InitFrom(x, cur, res) ==
  \/ cur = FDS_MAX_PAGES
     /\ res = Completed([x EXCEPT !.m_flags = (@ \ {"INITIALIZING"}) \cup {"INITIALIZED"}])
  \/ cur # FDS_MAX_PAGES /\ x.m_swap_page_avail = TRUE /\ res = Completed(x)
     /\ \A i \in Page : i >= cur => x.m_pages[i].page_type # "ERASED"
  \/ \E p \in Page : /\ x.m_pages[p].page_type = "ERASED" /\ x.m_swap_page_avail = TRUE
                     /\ res = Executing([FsStore(x, StartAddr(p), fds_page_tag_valid)
                                           EXCEPT !.m_pages[p].page_type = "VALID"])
  \/ \E p \in Page : /\ x.m_pages[p].page_type = "ERASED" /\ x.m_swap_page_avail = FALSE
                     /\ res = Executing([FsStore(x, StartAddr(p), fds_page_tag_swap)
                              EXCEPT !.m_pages[p].page_type = "SWAP",
                                     !.m_swap_page_avail = TRUE, !.m_gc.swap_page = p])
CurIs(dst, cur) == cur = IF dst = NULL THEN 0 ELSE (dst \div FS_PAGE_SIZE_WORDS) + 1
HasMore(x, cur) == /\ x.m_swap_page_avail \in BOOLEAN
                   /\ x.m_swap_page_avail = TRUE \/ \E i \in Page : i >= cur /\ x.m_pages[i].page_type = "ERASED"

\* Formatting, from the page it has got to.
LEMMA InitIs ==
  ASSUME NEW x, NEW dst, NEW cur \in Nat, CurIs(dst, cur), HasMore(x, cur),
         NEW res, res = InitExecute(x, TRUE, dst)
  PROVE  InitFrom(x, cur, res)
<1>1. PICK blank : blank = {p \in Page : p >= cur /\ Data(x, p).page_type = "ERASED"}
  OBVIOUS
<1>2. PICK p : p = Min(blank)
  OBVIOUS
<1>3. CASE cur = FDS_MAX_PAGES
  <2>1. res = Completed([x EXCEPT !.m_flags = (@ \ {"INITIALIZING"}) \cup {"INITIALIZED"}])
    BY <1>3 DEF InitExecute, CurIs
  <2> QED
    BY ZenonT(20), <1>3, <2>1 DEF InitFrom
<1>4. CASE cur # FDS_MAX_PAGES /\ blank = {}
  <2>1. \A i \in Page : i >= cur => x.m_pages[i].page_type # "ERASED"
    BY <1>1, <1>4 DEF Data
  <2>2. x.m_swap_page_avail = TRUE
    BY SMTT(20), <2>1 DEF HasMore
  <2>3. res = Completed(x)
    BY <1>1, <1>4, <2>2 DEF InitExecute, CurIs
  <2> QED
    BY <1>4, <2>1, <2>2, <2>3 DEF InitFrom
<1>5. CASE cur # FDS_MAX_PAGES /\ blank # {}
  <2>1. \A i \in blank : i \in Nat
    BY <1>1, PageIs
  <2>2. p \in blank
    BY <1>2, <1>5, <2>1, MinIs
  <2>3. p \in Page /\ x.m_pages[p].page_type = "ERASED"
    BY SMTT(20), <1>1, <2>2 DEF Data
  <2>4. res = IF x.m_swap_page_avail
            THEN Executing([FsStore(x, StartAddr(p), fds_page_tag_valid)
                              EXCEPT !.m_pages[p].page_type = "VALID"])
            ELSE Executing([FsStore(x, StartAddr(p), fds_page_tag_swap)
                              EXCEPT !.m_pages[p].page_type = "SWAP",
                                     !.m_swap_page_avail = TRUE, !.m_gc.swap_page = p])
    BY SMTT(20), <1>1, <1>2, <1>5 DEF InitExecute, CurIs
  <2>5. CASE x.m_swap_page_avail = TRUE
    BY Zenon, <2>3, <2>4, <2>5 DEF InitFrom
  <2>6. CASE x.m_swap_page_avail = FALSE
    BY <2>3, <2>4, <2>6 DEF InitFrom
  <2> QED
    BY <2>5, <2>6 DEF HasMore
<1> QED
  BY <1>3, <1>4, <1>5

================================================================================
