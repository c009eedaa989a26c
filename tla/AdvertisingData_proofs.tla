------------------------ MODULE AdvertisingData_proofs ------------------------
(***************************************************************************)
(* For every payload size and every value that is passed: no call leaves   *)
(* the program's copy of the payload and the advertisement apart; the      *)
(* fields in the buffer always fill it up to its length, and moving its    *)
(* bytes about is, for its reader, an operation on a list of fields, while *)
(* nothing is written behind the array.                                    *)
(***************************************************************************)
EXTENDS AdvertisingData, SequencesExt, SequenceTheorems, TLAPS

-----------------------------------------------------------------------------
(**************** the program's copy and the advertisement *****************)

\* What is offered is kept and advertised, or neither: whatever the buffer made
\* of the call, taken, refused for its length or refused by the SoftDevice.
LEMMA OfferKeeps ==
  ASSUME NEW result, OnAirIsPayload, Offer(result)
  PROVE  OnAirIsPayload'
<1>1. CASE result.rc = "NONE" /\ SetAdvertisingData(result.d) /\ rc' = "NONE"
  <2>1. onAir' = Content(result.d)
    BY <1>1 DEF SetAdvertisingData, Refused
  <2>2. _advPayload' = result.d
    BY <1>1 DEF Offer
  <2> QED  BY <2>1, <2>2 DEF OnAirIsPayload, Content
<1>2. CASE result.rc = "NONE" /\ SetAdvertisingData(result.d) /\ rc' # "NONE"
  <2>1. UNCHANGED <<_advPayload, onAir>>
    BY <1>2 DEF Offer, SetAdvertisingData
  <2> QED  BY <2>1 DEF OnAirIsPayload, Content
<1>3. CASE result.rc # "NONE"
  BY <1>3 DEF Offer, OnAirIsPayload, Content
<1> QED  BY <1>1, <1>2, <1>3 DEF Offer

LEMMA AirPreserved == OnAirIsPayload /\ [Next]_vars => OnAirIsPayload'
<1> SUFFICES ASSUME OnAirIsPayload, [Next]_vars PROVE OnAirIsPayload'
  OBVIOUS
<1>1. CASE AccumulateAdvertisingPayload
  BY <1>1, OfferKeeps DEF AccumulateAdvertisingPayload
<1>2. CASE UpdateAdvertisingPayload
  BY <1>2, OfferKeeps DEF UpdateAdvertisingPayload
<1>3. CASE SetAdvertisingPayload
  BY <1>3, OfferKeeps DEF SetAdvertisingPayload
<1>4. CASE ClearAdvertisingPayload
  BY <1>4 DEF ClearAdvertisingPayload, OnAirIsPayload, Empty
<1>5. CASE UNCHANGED vars
  BY <1>5 DEF vars, OnAirIsPayload, Content
<1> QED  BY <1>1, <1>2, <1>3, <1>4, <1>5 DEF Next

\* Gap.h changes a copy, offers it and keeps it if it was taken: the payload later
\* calls build on is the one on the air or, where clearAdvertisingPayload() left it so,
\* empty, for every buffer size and every sequence of accepted and refused calls.
THEOREM AirAndPayloadAgree == Spec => []OnAirIsPayload
<1>1. Init => OnAirIsPayload
  BY DEF Init, OnAirIsPayload
<1> QED  BY <1>1, AirPreserved, PTL DEF Spec

-----------------------------------------------------------------------------
(***************************************************************************)
(* What a buffer stands for.  fs is the list of its n fields and at says   *)
(* where each begins; at[n + 1] is the end of the last.                    *)
(***************************************************************************)
Byte == 0 .. 255

IsBuffer(d) ==
  /\ d = [bytes |-> d.bytes, len |-> d.len]
  /\ d.bytes \in [Offsets -> Byte] /\ d.len \in 0 .. MAX_PAYLOAD

Field(t, data) == [type |-> t, data |-> data]
IsField(f) == f = Field(f.type, f.data) /\ f.type \in Byte /\ f.data \in Seq(Byte)

\* The bytes from o on are those of the field: its length, its type and its data.
Stands(bytes, o, f) ==
  /\ bytes[o] = Len(f.data) + 1 /\ bytes[o + 1] = f.type
  /\ \A j \in 1 .. Len(f.data) : bytes[o + 1 + j] = f.data[j]

AreFields(fs, n) == n \in Nat /\ fs = [k \in 1 .. n |-> fs[k]] /\ \A k \in 1 .. n : IsField(fs[k])

InARow(fs, at, n) ==
  /\ at \in [1 .. n + 1 -> Nat] /\ at[1] = 0
  /\ \A k \in 1 .. n : at[k + 1] = at[k] + Len(fs[k].data) + 2

Layout(d, fs, at, n) ==
  /\ AreFields(fs, n) /\ InARow(fs, at, n)
  /\ at[n + 1] = d.len
  /\ \A k \in 1 .. n : Stands(d.bytes, at[k], fs[k])

Facts == INSTANCE FoldFacts WITH Op <- Field

-----------------------------------------------------------------------------
\* Fields lie one behind the other.
LEMMA Ordered ==
  ASSUME NEW fs, NEW n, AreFields(fs, n), NEW at, InARow(fs, at, n)
  PROVE  \A j, k \in 1 .. n + 1 : j <= k => at[j] <= at[k]
<1> DEFINE S == {m \in Nat : \A j \in 1 .. n + 1 : j + m <= n + 1 => at[j] <= at[j + m]}
<1>1. n \in Nat
  BY DEF AreFields
<1>2. 0 \in S
  BY <1>1 DEF InARow
<1>3. ASSUME NEW m \in Nat, m \in S
      PROVE  m + 1 \in S
  <2> SUFFICES ASSUME NEW j \in 1 .. n + 1, j + (m + 1) <= n + 1
               PROVE  at[j] <= at[j + (m + 1)]
    OBVIOUS
  <2>1. at[j] <= at[j + m]
    BY <1>1, <1>3
  <2>2. j + m \in 1 .. n /\ j + (m + 1) = (j + m) + 1
    BY <1>1
  <2>3. PICK k \in 1 .. n : k = j + m
    BY <2>2
  <2>4. /\ at[k + 1] = at[k] + Len(fs[k].data) + 2 /\ at[k] \in Nat /\ at[k + 1] \in Nat
        /\ at[j] \in Nat
    BY <1>1 DEF InARow
  <2>5. Len(fs[k].data) \in Nat
    BY DEF AreFields, IsField
  <2> QED
    BY <2>1, <2>2, <2>3, <2>4, <2>5
<1> HIDE DEF S
<1>4. \A m \in Nat : m \in S
  BY <1>2, <1>3, Facts!Induction
<1> USE DEF S
<1>5. ASSUME NEW j \in 1 .. n + 1, NEW k \in 1 .. n + 1, j <= k
      PROVE  at[j] <= at[k]
  <2>1. k - j \in Nat /\ j + (k - j) = k
    BY <1>1, <1>5
  <2>2. k - j \in S
    BY <1>4, <2>1
  <2>3. j + (k - j) <= n + 1 => at[j] <= at[j + (k - j)]
    BY <2>2
  <2> QED
    BY <1>1, <2>1, <2>3
<1> QED
  BY <1>5

\* The places of a field and of its bytes in a buffer.
LEMMA Places ==
  ASSUME NEW d, IsBuffer(d), NEW fs, NEW at, NEW n, Layout(d, fs, at, n), NEW k \in 1 .. n
  PROVE  /\ n \in Nat /\ fs[k].data \in Seq(Byte) /\ Len(fs[k].data) \in Nat
         /\ fs[k].type \in Byte /\ d.len \in Nat /\ d.len <= MAX_PAYLOAD
         /\ at[k] \in Nat /\ at[k + 1] \in Nat
         /\ at[k + 1] = at[k] + Len(fs[k].data) + 2 /\ at[k + 1] <= d.len
         /\ \A j \in 1 .. n : /\ j < k => at[j] + Len(fs[j].data) + 2 <= at[k]
                              /\ j > k => at[k + 1] <= at[j]
<1>1. n \in Nat /\ IsField(fs[k]) /\ InARow(fs, at, n) /\ AreFields(fs, n) /\ at[n + 1] = d.len
  BY DEF Layout, AreFields
<1>2. fs[k].data \in Seq(Byte) /\ Len(fs[k].data) \in Nat /\ fs[k].type \in Byte
  BY <1>1 DEF IsField
<1>3. d.len \in Nat /\ d.len <= MAX_PAYLOAD
  BY AdvertisingAssumption DEF IsBuffer
<1>4. at[k] \in Nat /\ at[k + 1] \in Nat /\ at[k + 1] = at[k] + Len(fs[k].data) + 2
  BY <1>1 DEF InARow
<1>5. at[k + 1] <= d.len
  <2>1. k + 1 \in 1 .. n + 1 /\ n + 1 \in 1 .. n + 1 /\ k + 1 <= n + 1
    BY <1>1
  <2> QED
    BY <1>1, <2>1, Ordered
<1>6. ASSUME NEW j \in 1 .. n
      PROVE  /\ j < k => at[j] + Len(fs[j].data) + 2 <= at[k]
             /\ j > k => at[k + 1] <= at[j]
  <2>1. j + 1 \in 1 .. n + 1 /\ k + 1 \in 1 .. n + 1 /\ j \in 1 .. n + 1 /\ k \in 1 .. n + 1
    BY <1>1
  <2>2. j < k => at[j + 1] <= at[k]
    BY <1>1, <2>1, Ordered
  <2>3. j > k => at[k + 1] <= at[j]
    BY <1>1, <2>1, Ordered
  <2>4. at[j + 1] = at[j] + Len(fs[j].data) + 2
    BY <1>1 DEF InARow
  <2> QED
    BY <2>2, <2>3, <2>4
<1> QED
  BY <1>1, <1>2, <1>3, <1>4, <1>5, <1>6

\* A function that looks further on, up to n.
CanLook(n, V, base, next, B) ==
  /\ n \in Nat /\ base \in [Nat -> V]
  /\ \A i \in Nat : i < n => next[i] \in Nat /\ next[i] > i
  /\ \A i \in Nat, v \in V : i < n => B[i][v] \in V
Looks(f, n, V, base, next, B) ==
  /\ f \in [Nat -> V]
  /\ \A i \in Nat : f[i] = IF i >= n THEN base[i] ELSE B[i][f[next[i]]]

\* A function whose values follow from those further on exists.
LEMMA LooksAhead ==
  ASSUME NEW n, NEW V, NEW base, NEW next, NEW B, CanLook(n, V, base, next, B)
  PROVE  \E f : Looks(f, n, V, base, next, B)
<1> USE DEF CanLook
<1> DEFINE D(m) == {i \in Nat : i + m >= n}
           Good(m) == \E f \in [D(m) -> V] :
                        f = [i \in D(m) |-> IF i >= n THEN base[i] ELSE B[i][f[next[i]]]]
           S == {m \in Nat : Good(m)}
<1>1. Good(0)
  <2> DEFINE f == [i \in D(0) |-> base[i]]
  <2>1. f \in [D(0) -> V]
    OBVIOUS
  <2>2. \A i \in D(0) : i >= n
    OBVIOUS
  <2>3. f = [i \in D(0) |-> IF i >= n THEN base[i] ELSE B[i][f[next[i]]]]
    BY <2>2
  <2> QED
    BY <2>1, <2>3
<1>2. ASSUME NEW m \in Nat, Good(m)
      PROVE  Good(m + 1)
  <2>1. PICK g \in [D(m) -> V] :
          g = [i \in D(m) |-> IF i >= n THEN base[i] ELSE B[i][g[next[i]]]]
    BY <1>2
  <2> DEFINE h == [i \in D(m + 1) |-> IF i >= n THEN base[i] ELSE B[i][g[next[i]]]]
  <2>2. ASSUME NEW i \in D(m + 1), ~ (i >= n)
        PROVE  next[i] \in D(m) /\ next[i] \in D(m + 1)
    BY <2>2
  <2>3. \A i \in D(m) : i \in D(m + 1)
    OBVIOUS
  <2>4. h \in [D(m + 1) -> V]
    <3>1. ASSUME NEW i \in D(m + 1)
          PROVE  (IF i >= n THEN base[i] ELSE B[i][g[next[i]]]) \in V
      <4>1. CASE i >= n
        BY <4>1
      <4>2. CASE ~ (i >= n)
        <5>1. g[next[i]] \in V
          BY <2>1, <2>2, <4>2
        <5>2. i \in Nat /\ i < n
          BY <4>2
        <5> QED
          BY <4>2, <5>1, <5>2
      <4> QED
        BY <4>1, <4>2
    <3> QED
      BY <3>1
  <2>5. \A i \in D(m) : h[i] = g[i]
    <3> TAKE i \in D(m)
    <3>1. h[i] = IF i >= n THEN base[i] ELSE B[i][g[next[i]]]
      BY <2>3
    <3>2. g[i] = IF i >= n THEN base[i] ELSE B[i][g[next[i]]]
      BY <2>1
    <3> QED
      BY <3>1, <3>2
  <2>6. \A i \in D(m + 1) : h[i] = IF i >= n THEN base[i] ELSE B[i][h[next[i]]]
    <3> TAKE i \in D(m + 1)
    <3>1. CASE i >= n
      BY <3>1
    <3>2. CASE ~ (i >= n)
      <4>1. h[next[i]] = g[next[i]]
        BY <2>2, <2>5, <3>2
      <4>2. h[i] = B[i][g[next[i]]]
        BY <3>2
      <4> HIDE DEF h
      <4> QED
        BY <3>2, <4>1, <4>2
    <3> QED
      BY <3>1, <3>2
  <2>7. h = [i \in D(m + 1) |-> h[i]]
    OBVIOUS
  <2> HIDE DEF h
  <2>8. h = [i \in D(m + 1) |-> IF i >= n THEN base[i] ELSE B[i][h[next[i]]]]
    BY <2>6, <2>7
  <2> QED
    BY <2>4, <2>8
<1>3. \A m \in Nat : m \in S
  <2> HIDE DEF Good
  <2>1. 0 \in S /\ \A m \in Nat : m \in S => m + 1 \in S
    BY <1>1, <1>2
  <2> HIDE DEF S
  <2> QED
    BY <2>1, Facts!Induction
<1>4. Good(n)
  BY <1>3
<1>5. PICK f \in [D(n) -> V] :
        f = [i \in D(n) |-> IF i >= n THEN base[i] ELSE B[i][f[next[i]]]]
  BY <1>4
<1>6. D(n) = Nat
  OBVIOUS
<1>7. \A i \in Nat : f[i] = IF i >= n THEN base[i] ELSE B[i][f[next[i]]]
  BY <1>5, <1>6
<1> QED
  BY <1>5, <1>6, <1>7 DEF Looks

-----------------------------------------------------------------------------
(***************************************************************************)
(* The readers of a buffer, on one that stands for a list of fields.       *)
(***************************************************************************)
Behind(d) == [idx \in Nat |-> idx + d.bytes[idx] + 1]

\* A reader goes ahead.
LEMMA GoesAhead ==
  ASSUME NEW d, IsBuffer(d)
  PROVE  \A idx \in Nat : idx < d.len => Behind(d)[idx] \in Nat /\ Behind(d)[idx] > idx
<1> SUFFICES ASSUME NEW idx \in Nat, idx < d.len
             PROVE  Behind(d)[idx] \in Nat /\ Behind(d)[idx] > idx
  OBVIOUS
<1>1. idx \in Offsets
  <2>1. MAX_PAYLOAD \in 2 .. 255
    BY AdvertisingAssumption DEF AdvertisingAssumption
  <2>2. d.len \in 0 .. MAX_PAYLOAD
    BY DEF IsBuffer
  <2> QED
    BY <2>1, <2>2 DEF Offsets
<1>2. d.bytes[idx] \in Nat
  BY <1>1 DEF IsBuffer, Byte
<1> QED
  BY <1>2 DEF Behind

\* The recursive functions of End, FindField and Fields.
EndFunction(d) ==
  CHOOSE f : f = [idx \in Nat |-> IF idx >= d.len THEN idx ELSE f[idx + d.bytes[idx] + 1]]

FindFunction(d, t) ==
  CHOOSE f : f = [idx \in Nat |->
                    IF idx >= d.len THEN NotFound
                    ELSE IF d.bytes[idx + 1] = t THEN idx
                    ELSE f[idx + d.bytes[idx] + 1]]

Read(d, idx) == [type |-> d.bytes[idx + 1],
                 data |-> [k \in 1..(d.bytes[idx] - 1) |-> d.bytes[idx + 1 + k]]]
FieldsFunction(d) ==
  CHOOSE f : f = [idx \in Nat |->
                    IF idx >= d.len THEN <<>>
                    ELSE <<Read(d, idx)>> \o f[idx + d.bytes[idx] + 1]]

\* The functions exist, so that they are what their definitions say.
LEMMA EndFunctionIs ==
  ASSUME NEW d, IsBuffer(d), NEW idx \in Nat
  PROVE  /\ idx >= d.len => EndFunction(d)[idx] = idx
         /\ idx < d.len => EndFunction(d)[idx] = EndFunction(d)[idx + d.bytes[idx] + 1]
<1> DEFINE base == [k \in Nat |-> k]
           B == [k \in Nat |-> [v \in Nat |-> v]]
<1>1. d.len \in Nat
  BY AdvertisingAssumption DEF IsBuffer
<1>2. base \in [Nat -> Nat] /\ \A k \in Nat, v \in Nat : k < d.len => B[k][v] \in Nat
  OBVIOUS
<1> HIDE DEF base, B
<1>3. PICK f \in [Nat -> Nat] :
        \A k \in Nat : f[k] = IF k >= d.len THEN base[k] ELSE B[k][f[Behind(d)[k]]]
  <2>0. PICK next : next = Behind(d)
    OBVIOUS
  <2>1. PICK n \in Nat : n = d.len /\ next = Behind(d)
    BY <1>1, <2>0
  <2>2. \A k \in Nat : k < n => next[k] \in Nat /\ next[k] > k
    BY <2>1, GoesAhead
  <2>3. \A k \in Nat, v \in Nat : k < n => B[k][v] \in Nat
    BY <1>2, <2>1
  <2>4. CanLook(n, Nat, base, next, B)
    BY <1>2, <2>2, <2>3 DEF CanLook
  <2>5. PICK f : Looks(f, n, Nat, base, next, B)
    BY <2>4, LooksAhead
  <2> QED
    BY <2>1, <2>5 DEF Looks
<1>4. \A k \in Nat : f[k] = IF k >= d.len THEN k ELSE f[k + d.bytes[k] + 1]
  <2> TAKE k \in Nat
  <2>1. f[k] = IF k >= d.len THEN base[k] ELSE B[k][f[Behind(d)[k]]]
    BY <1>3
  <2>2. CASE k >= d.len
    BY <2>1, <2>2 DEF base
  <2>3. CASE ~ (k >= d.len)
    <3>1. Behind(d)[k] \in Nat
      BY <1>1, <2>3, GoesAhead
    <3>2. PICK v \in Nat : v = f[Behind(d)[k]]
      BY <3>1
    <3>3. f[k] = v
      BY <2>1, <2>3, <3>2 DEF B
    <3> QED
      BY <2>3, <3>2, <3>3 DEF Behind
  <2> QED
    BY <2>2, <2>3
<1>5. f = [k \in Nat |-> IF k >= d.len THEN k ELSE f[k + d.bytes[k] + 1]]
  BY <1>3, <1>4
<1>6. EndFunction(d) = [k \in Nat |-> IF k >= d.len THEN k
                                      ELSE EndFunction(d)[k + d.bytes[k] + 1]]
  BY <1>5 DEF EndFunction
<1> QED
  BY <1>1, <1>6

LEMMA FindFunctionIs ==
  ASSUME NEW d, IsBuffer(d), NEW t, NEW idx \in Nat
  PROVE  /\ idx >= d.len => FindFunction(d, t)[idx] = NotFound
         /\ (idx < d.len /\ d.bytes[idx + 1] = t) => FindFunction(d, t)[idx] = idx
         /\ (idx < d.len /\ d.bytes[idx + 1] # t) =>
              FindFunction(d, t)[idx] = FindFunction(d, t)[idx + d.bytes[idx] + 1]
<1> DEFINE base == [k \in Nat |-> NotFound]
           B == [k \in Nat |-> [v \in Int |-> IF d.bytes[k + 1] = t THEN k ELSE v]]
<1>1. d.len \in Nat
  BY AdvertisingAssumption DEF IsBuffer
<1>2. base \in [Nat -> Int] /\ \A k \in Nat, v \in Int : k < d.len => B[k][v] \in Int
  BY DEF NotFound
<1> HIDE DEF base, B
<1>3. PICK f \in [Nat -> Int] :
        \A k \in Nat : f[k] = IF k >= d.len THEN base[k] ELSE B[k][f[Behind(d)[k]]]
  <2>0. PICK next : next = Behind(d)
    OBVIOUS
  <2>1. PICK n \in Nat : n = d.len /\ next = Behind(d)
    BY <1>1, <2>0
  <2>2. \A k \in Nat : k < n => next[k] \in Nat /\ next[k] > k
    BY <2>1, GoesAhead
  <2>3. \A k \in Nat, v \in Int : k < n => B[k][v] \in Int
    BY <1>2, <2>1
  <2>4. CanLook(n, Int, base, next, B)
    BY <1>2, <2>2, <2>3 DEF CanLook
  <2>5. PICK f : Looks(f, n, Int, base, next, B)
    BY <2>4, LooksAhead
  <2> QED
    BY <2>1, <2>5 DEF Looks
<1>4. \A k \in Nat : f[k] = IF k >= d.len THEN NotFound
                            ELSE IF d.bytes[k + 1] = t THEN k
                            ELSE f[k + d.bytes[k] + 1]
  <2> TAKE k \in Nat
  <2>1. f[k] = IF k >= d.len THEN base[k] ELSE B[k][f[Behind(d)[k]]]
    BY <1>3
  <2>2. CASE k >= d.len
    BY <2>1, <2>2 DEF base
  <2>3. CASE ~ (k >= d.len)
    <3>1. Behind(d)[k] \in Nat
      BY <1>1, <2>3, GoesAhead
    <3>2. PICK v \in Int : v = f[Behind(d)[k]]
      BY <3>1
    <3>3. f[k] = IF d.bytes[k + 1] = t THEN k ELSE v
      BY <2>1, <2>3, <3>2 DEF B
    <3> QED
      BY <2>3, <3>2, <3>3 DEF Behind
  <2> QED
    BY <2>2, <2>3
<1>5. f = [k \in Nat |-> IF k >= d.len THEN NotFound
                         ELSE IF d.bytes[k + 1] = t THEN k
                         ELSE f[k + d.bytes[k] + 1]]
  BY <1>3, <1>4
<1>6. FindFunction(d, t) = [k \in Nat |-> IF k >= d.len THEN NotFound
                                          ELSE IF d.bytes[k + 1] = t THEN k
                                          ELSE FindFunction(d, t)[k + d.bytes[k] + 1]]
  BY <1>5 DEF FindFunction
<1> QED
  BY <1>1, <1>6

LEMMA FieldsFunctionIs ==
  ASSUME NEW d, IsBuffer(d), NEW idx \in Nat
  PROVE  /\ idx >= d.len => FieldsFunction(d)[idx] = <<>>
         /\ idx < d.len => FieldsFunction(d)[idx] =
                             <<Read(d, idx)>> \o FieldsFunction(d)[idx + d.bytes[idx] + 1]
<1> DEFINE R == {Read(d, k) : k \in Nat}
           V == Seq(R)
           base == [k \in Nat |-> <<>>]
           B == [k \in Nat |-> [v \in V |-> <<Read(d, k)>> \o v]]
<1>1. d.len \in Nat
  BY AdvertisingAssumption DEF IsBuffer
<1>2. base \in [Nat -> V]
  <2>1. <<>> \in V
    OBVIOUS
  <2> HIDE DEF V
  <2> QED
    BY <2>1
<1>3. \A k \in Nat, v \in V : k < d.len => B[k][v] \in V
  <2> SUFFICES ASSUME NEW k \in Nat, NEW v \in V
               PROVE  B[k][v] \in V
    OBVIOUS
  <2>1. Read(d, k) \in R
    OBVIOUS
  <2>2. B[k][v] = <<Read(d, k)>> \o v
    BY DEF V
  <2> HIDE DEF R, B
  <2>3. <<Read(d, k)>> \in Seq(R)
    BY <2>1
  <2>4. <<Read(d, k)>> \o v \in Seq(R)
    BY <2>3
  <2> QED
    BY <2>2, <2>4
<1> HIDE DEF base, B, V
<1>4. PICK f \in [Nat -> V] :
        \A k \in Nat : f[k] = IF k >= d.len THEN base[k] ELSE B[k][f[Behind(d)[k]]]
  <2>0. PICK next : next = Behind(d)
    OBVIOUS
  <2>1. PICK n \in Nat : n = d.len /\ next = Behind(d)
    BY <1>1, <2>0
  <2>2. \A k \in Nat : k < n => next[k] \in Nat /\ next[k] > k
    BY <2>1, GoesAhead
  <2>3. \A k \in Nat, v \in V : k < n => B[k][v] \in V
    BY <1>3, <2>1
  <2>4. CanLook(n, V, base, next, B)
    BY <1>2, <2>2, <2>3 DEF CanLook
  <2>5. PICK f : Looks(f, n, V, base, next, B)
    BY <2>4, LooksAhead
  <2> QED
    BY <2>1, <2>5 DEF Looks
<1>5. \A k \in Nat : f[k] = IF k >= d.len THEN <<>>
                            ELSE <<Read(d, k)>> \o f[k + d.bytes[k] + 1]
  <2> TAKE k \in Nat
  <2>1. f[k] = IF k >= d.len THEN base[k] ELSE B[k][f[Behind(d)[k]]]
    BY <1>4
  <2>2. CASE k >= d.len
    BY <2>1, <2>2 DEF base
  <2>3. CASE ~ (k >= d.len)
    <3>1. Behind(d)[k] \in Nat
      BY <1>1, <2>3, GoesAhead
    <3>2. PICK v \in V : v = f[Behind(d)[k]]
      BY <3>1
    <3>3. f[k] = B[k][v]
      BY <2>1, <2>3, <3>2
    <3>4. B[k][v] = <<Read(d, k)>> \o v
      BY DEF B
    <3> QED
      BY <2>3, <3>2, <3>3, <3>4 DEF Behind
  <2> QED
    BY <2>2, <2>3
<1>6. f = [k \in Nat |-> IF k >= d.len THEN <<>> ELSE <<Read(d, k)>> \o f[k + d.bytes[k] + 1]]
  BY <1>4, <1>5
<1>7. FieldsFunction(d) = [k \in Nat |-> IF k >= d.len THEN <<>>
                             ELSE <<Read(d, k)>> \o FieldsFunction(d)[k + d.bytes[k] + 1]]
  BY <1>6 DEF FieldsFunction
<1>8. FieldsFunction(d)[idx] =
        IF idx >= d.len THEN <<>>
        ELSE <<Read(d, idx)>> \o FieldsFunction(d)[idx + d.bytes[idx] + 1]
  BY <1>7
<1>9. idx < d.len => ~ (idx >= d.len)
  BY <1>1
<1> QED
  BY <1>8, <1>9

\* At the beginning of field k, a reader finds it and goes on to the next.
LEMMA AtField ==
  ASSUME NEW d, IsBuffer(d), NEW fs, NEW at, NEW n, Layout(d, fs, at, n), NEW k \in 1 .. n
  PROVE  /\ at[k] \in Nat /\ at[k] < d.len
         /\ at[k] + d.bytes[at[k]] + 1 = at[k + 1]
         /\ d.bytes[at[k] + 1] = fs[k].type
         /\ Read(d, at[k]) = fs[k]
<1>1. /\ at[k] \in Nat /\ at[k + 1] \in Nat /\ Len(fs[k].data) \in Nat
      /\ at[k + 1] = at[k] + Len(fs[k].data) + 2 /\ at[k + 1] <= d.len /\ d.len \in Nat
      /\ fs[k].data \in Seq(Byte)
  BY Places
<1>2. Stands(d.bytes, at[k], fs[k])
  BY DEF Layout
<1>3. d.bytes[at[k]] = Len(fs[k].data) + 1 /\ d.bytes[at[k] + 1] = fs[k].type
  BY <1>2 DEF Stands
<1>4. Read(d, at[k]) = fs[k]
  <2>1. fs[k] = Field(fs[k].type, fs[k].data)
    BY DEF Layout, AreFields, IsField
  <2>2. PICK m \in Nat : m = Len(fs[k].data)
    BY <1>1
  <2>3. d.bytes[at[k]] - 1 = m
    BY <1>3, <2>2
  <2>4. \A j \in 1 .. m : d.bytes[at[k] + 1 + j] = fs[k].data[j]
    BY <1>2, <2>2 DEF Stands
  <2>5. fs[k].data = [j \in 1 .. m |-> fs[k].data[j]]
    BY <1>1, <2>2
  <2>6. fs[k].data = [j \in 1 .. m |-> d.bytes[at[k] + 1 + j]]
    BY <2>4, <2>5
  <2>7. Read(d, at[k]) = Field(fs[k].type, [j \in 1 .. m |-> d.bytes[at[k] + 1 + j]])
    BY <1>3, <2>3 DEF Read, Field
  <2> QED
    BY <2>1, <2>6, <2>7
<1> QED
  BY <1>1, <1>3, <1>4

\* They go on field by field, to the end of the last.
LEMMA EndIs ==
  ASSUME NEW d, IsBuffer(d), NEW fs, NEW at, NEW n, Layout(d, fs, at, n)
  PROVE  End(d) = d.len
<1>1. n \in Nat /\ at[1] = 0 /\ at[n + 1] = d.len /\ d.len \in Nat
  BY AdvertisingAssumption DEF Layout, AreFields, InARow, IsBuffer
<1> DEFINE S == {m \in Nat : m <= n => EndFunction(d)[at[(n - m) + 1]] = d.len}
<1>2. 0 \in S
  BY <1>1, EndFunctionIs
<1>3. ASSUME NEW m \in Nat, m \in S
      PROVE  m + 1 \in S
  <2> SUFFICES ASSUME m + 1 <= n
               PROVE  EndFunction(d)[at[(n - (m + 1)) + 1]] = d.len
    OBVIOUS
  <2>1. PICK k \in 1 .. n : k = (n - (m + 1)) + 1 /\ k + 1 = (n - m) + 1
    BY <1>1
  <2>2. EndFunction(d)[at[k + 1]] = d.len
    <3>1. m <= n
      BY <1>1
    <3>2. EndFunction(d)[at[(n - m) + 1]] = d.len
      BY <1>3, <3>1
    <3> QED
      BY <2>1, <3>2
  <2>3. EndFunction(d)[at[k]] = EndFunction(d)[at[k] + d.bytes[at[k]] + 1]
    BY AtField, EndFunctionIs
  <2> QED
    BY <2>1, <2>2, <2>3, AtField
<1> HIDE DEF S
<1>4. \A m \in Nat : m \in S
  BY <1>2, <1>3, Facts!Induction
<1>5. n \in S /\ (n - n) + 1 = 1 /\ n <= n
  BY <1>1, <1>4
<1>6. EndFunction(d)[0] = d.len
  BY <1>1, <1>5 DEF S
<1>7. End(d) = EndFunction(d)[0]
  BY DEF End, EndFunction
<1> QED
  BY <1>6, <1>7

\* FindField finds the beginning of a field of the type, if there is one.
LEMMA FindIs ==
  ASSUME NEW d, IsBuffer(d), NEW fs, NEW at, NEW n, Layout(d, fs, at, n), NEW t
  PROVE  \/ FindField(d, t) = NotFound /\ \A k \in 1 .. n : fs[k].type # t
         \/ /\ FindField(d, t) # NotFound
            /\ \E k \in 1 .. n : fs[k].type = t /\ FindField(d, t) = at[k]
<1>1. n \in Nat /\ at[1] = 0 /\ at[n + 1] = d.len /\ d.len \in Nat
  BY AdvertisingAssumption DEF Layout, AreFields, InARow, IsBuffer
<1> DEFINE F == FindFunction(d, t)
           None(l) == F[at[l]] = NotFound /\ \A k \in 1 .. n : k >= l => fs[k].type # t
           One(l) == \E k \in 1 .. n : fs[k].type = t /\ F[at[l]] = at[k]
           S == {m \in Nat : m <= n => None((n - m) + 1) \/ One((n - m) + 1)}
<1> HIDE DEF F
<1>2. 0 \in S
  <2>1. F[at[n + 1]] = NotFound
    BY <1>1, FindFunctionIs DEF F
  <2>2. (n - 0) + 1 = n + 1 /\ \A k \in 1 .. n : ~ (k >= n + 1)
    BY <1>1
  <2> QED
    BY <2>1, <2>2
<1>3. ASSUME NEW m \in Nat, m \in S
      PROVE  m + 1 \in S
  <2> SUFFICES ASSUME m + 1 <= n
               PROVE  None((n - (m + 1)) + 1) \/ One((n - (m + 1)) + 1)
    OBVIOUS
  <2>1. PICK l \in 1 .. n : l = (n - (m + 1)) + 1 /\ l + 1 = (n - m) + 1
    BY <1>1
  <2>2. None(l + 1) \/ One(l + 1)
    <3>1. m <= n
      BY <1>1
    <3> HIDE DEF None, One
    <3>2. None((n - m) + 1) \/ One((n - m) + 1)
      BY <1>3, <3>1
    <3> QED
      BY <2>1, <3>2
  <2>3. CASE fs[l].type = t
    <3>1. F[at[l]] = at[l]
      BY <2>3, AtField, FindFunctionIs DEF F
    <3> QED
      BY <2>1, <2>3, <3>1
  <2>4. CASE fs[l].type # t
    <3>1. F[at[l]] = F[at[l] + d.bytes[at[l]] + 1]
      BY <2>4, AtField, FindFunctionIs DEF F
    <3>2. F[at[l]] = F[at[l + 1]]
      BY <3>1, AtField
    <3>3. \A k \in 1 .. n : k >= l => k = l \/ k >= l + 1
      OBVIOUS
    <3>4. None(l) \/ One(l)
      BY <2>2, <2>4, <3>2, <3>3
    <3> HIDE DEF None, One
    <3> QED
      BY <2>1, <3>4
  <2> QED
    BY <2>3, <2>4
<1>4. \A m \in Nat : m \in S
  <2> HIDE DEF S
  <2> QED
    BY <1>2, <1>3, Facts!Induction
<1>5. n \in S /\ (n - n) + 1 = 1 /\ n <= n
  BY <1>1, <1>4
<1>6. None(1) \/ One(1)
  BY <1>5
<1>7. FindField(d, t) = F[0]
  BY DEF FindField, FindFunction, F
<1>8. \A k \in 1 .. n : at[k] # NotFound
  BY AtField DEF NotFound
<1> QED
  BY <1>1, <1>6, <1>7, <1>8

\* The fields that a reader finds are those the buffer stands for.
LEMMA FieldsAre ==
  ASSUME NEW d, IsBuffer(d), NEW fs, NEW at, NEW n, Layout(d, fs, at, n)
  PROVE  Fields(d) = fs
<1>1. n \in Nat /\ at[1] = 0 /\ at[n + 1] = d.len /\ d.len \in Nat
  BY AdvertisingAssumption DEF Layout, AreFields, InARow, IsBuffer
<1> DEFINE Rest(m) == [j \in 1 .. m |-> fs[(n - m) + j]]
           S == {m \in Nat : m <= n => FieldsFunction(d)[at[(n - m) + 1]] = Rest(m)}
<1>2. 0 \in S
  <2>1. FieldsFunction(d)[at[n + 1]] = <<>>
    <3>1. d.len >= d.len
      BY <1>1
    <3>2. FieldsFunction(d)[d.len] = <<>>
      BY <1>1, <3>1, FieldsFunctionIs
    <3> QED
      BY <1>1, <3>2
  <2>2. Rest(0) = <<>> /\ (n - 0) + 1 = n + 1
    BY <1>1
  <2> HIDE DEF Rest
  <2> QED
    BY <2>1, <2>2
<1>3. ASSUME NEW m \in Nat, m \in S
      PROVE  m + 1 \in S
  <2> SUFFICES ASSUME m + 1 <= n
               PROVE  FieldsFunction(d)[at[(n - (m + 1)) + 1]] = Rest(m + 1)
    OBVIOUS
  <2>1. PICK k \in 1 .. n : k = (n - (m + 1)) + 1 /\ k + 1 = (n - m) + 1
    BY <1>1
  <2>2. FieldsFunction(d)[at[k + 1]] = Rest(m)
    <3>1. m <= n
      BY <1>1
    <3> HIDE DEF Rest
    <3>2. FieldsFunction(d)[at[(n - m) + 1]] = Rest(m)
      BY <1>3, <3>1
    <3> QED
      BY <2>1, <3>2
  <2>3. /\ at[k] \in Nat /\ at[k] < d.len /\ Read(d, at[k]) = fs[k]
        /\ at[k] + d.bytes[at[k]] + 1 = at[k + 1]
    BY AtField
  <2>4. FieldsFunction(d)[at[k]] = <<fs[k]>> \o Rest(m)
    <3>1. PICK o \in Nat : o = at[k]
      BY <2>3
    <3>2. FieldsFunction(d)[o] = <<Read(d, o)>> \o FieldsFunction(d)[o + d.bytes[o] + 1]
      BY <2>3, <3>1, FieldsFunctionIs
    <3> HIDE DEF Rest
    <3> QED
      BY <2>2, <2>3, <3>1, <3>2
  <2>5. <<fs[k]>> \o Rest(m) = Rest(m + 1)
    <3> DEFINE R == {fs[j] : j \in 1 .. n}
    <3>1. \A j \in 1 .. m : (n - m) + j \in 1 .. n
      BY <1>1
    <3>2. Rest(m) \in Seq(R) /\ Len(Rest(m)) = m
      BY <3>1
    <3>3. <<fs[k]>> \in Seq(R)
      OBVIOUS
    <3>4. \A j \in 1 .. m : Rest(m)[j] = fs[(n - m) + j]
      OBVIOUS
    <3>5. \A j \in 1 .. m + 1 : Rest(m + 1)[j] = fs[(n - (m + 1)) + j]
      OBVIOUS
    <3>6. Rest(m + 1) = [j \in 1 .. m + 1 |-> Rest(m + 1)[j]]
      OBVIOUS
    <3> HIDE DEF Rest, R
    <3>7. PICK r, z : r = Rest(m) /\ z = <<fs[k]>> \o r
      OBVIOUS
    <3>8. /\ z = [j \in 1 .. m + 1 |-> z[j]]
          /\ z[1] = fs[k] /\ \A j \in 2 .. m + 1 : z[j] = r[j - 1]
      BY <3>2, <3>3, <3>7
    <3>9. \A j \in 1 .. m + 1 : z[j] = fs[(n - (m + 1)) + j]
      <4> TAKE j \in 1 .. m + 1
      <4>1. CASE j = 1
        BY <2>1, <3>8, <4>1
      <4>2. CASE j # 1
        <5>1. j \in 2 .. m + 1 /\ j - 1 \in 1 .. m /\ (n - m) + (j - 1) = (n - (m + 1)) + j
          BY <1>1, <4>2
        <5> QED
          BY <3>4, <3>7, <3>8, <5>1
      <4> QED
        BY <4>1, <4>2
    <3> QED
      BY <3>5, <3>6, <3>7, <3>8, <3>9
  <2> HIDE DEF Rest
  <2> QED
    BY <2>1, <2>4, <2>5
<1> HIDE DEF S
<1>4. \A m \in Nat : m \in S
  BY <1>2, <1>3, Facts!Induction
<1>5. n \in S /\ (n - n) + 1 = 1 /\ n <= n
  BY <1>1, <1>4
<1>6. FieldsFunction(d)[0] = Rest(n)
  BY <1>1, <1>5 DEF S
<1>7. Rest(n) = fs
  <2>1. \A j \in 1 .. n : (n - n) + j = j
    BY <1>1
  <2>2. fs = [k \in 1 .. n |-> fs[k]]
    BY DEF Layout, AreFields
  <2> QED
    BY <2>1, <2>2
<1>8. Fields(d) = FieldsFunction(d)[0]
  BY DEF Fields, FieldsFunction, Read
<1> HIDE DEF Rest
<1> QED
  BY <1>6, <1>7, <1>8

-----------------------------------------------------------------------------
(***************************************************************************)
(* The writers of a buffer, on one that stands for a list of fields.       *)
(***************************************************************************)
LEMMA SizesAre == MAX_PAYLOAD \in Nat /\ MAX_PAYLOAD >= 2 /\ MAX_PAYLOAD <= 255
BY AdvertisingAssumption DEF AdvertisingAssumption

LEMMA IsByte == \A k \in Nat : k <= 255 => k \in Byte
BY DEF Byte

LEMMA BufferIs ==
  ASSUME NEW d, IsBuffer(d)
  PROVE  d.len \in Nat /\ d.len <= MAX_PAYLOAD /\ d.bytes \in [Offsets -> Byte]
BY SizesAre DEF IsBuffer

\* A field is what its bytes are, wherever they are.
LEMMA StandsMoved ==
  ASSUME NEW f, Len(f.data) \in Nat, NEW b, NEW q \in Int, Stands(b, q, f), NEW c, NEW o \in Int,
         \A p \in 0 .. Len(f.data) + 1 : c[o + p] = b[q + p]
  PROVE  Stands(c, o, f)
<1>1. PICK m \in Nat : m = Len(f.data)
  OBVIOUS
<1>2. \A p \in 0 .. m + 1 : c[o + p] = b[q + p]
  BY <1>1
<1>3. c[o + 0] = b[q + 0] /\ c[o + 1] = b[q + 1]
  BY <1>2
<1>4. c[o] = b[q] /\ c[o + 1] = b[q + 1]
  BY <1>3
<1>5. ASSUME NEW j \in 1 .. m
      PROVE  c[o + 1 + j] = f.data[j]
  <2>1. j + 1 \in 0 .. m + 1 /\ o + (j + 1) = o + 1 + j /\ q + (j + 1) = q + 1 + j
    OBVIOUS
  <2>2. c[o + 1 + j] = b[q + 1 + j]
    BY <1>2, <2>1
  <2>3. b[q + 1 + j] = f.data[j]
    BY <1>1 DEF Stands
  <2> QED
    BY <2>2, <2>3
<1> QED
  BY <1>1, <1>4, <1>5 DEF Stands

HasWritten(w, b, o, s) ==
  /\ w \in [Offsets -> Byte]
  /\ \A p \in Offsets : p < o \/ p >= o + Len(s) => w[p] = b[p]
  /\ \A j \in 1 .. Len(s) : w[o + j - 1] = s[j]

LEMMA WrittenIs ==
  ASSUME NEW b, b \in [Offsets -> Byte], NEW o, o \in Nat, NEW s, s \in Seq(Byte),
         o + Len(s) <= MAX_PAYLOAD
  PROVE  HasWritten(Written(b, o, s), b, o, s)
<1>1. PICK m \in Nat : m = Len(s) /\ DOMAIN s = 1 .. m /\ \A j \in 1 .. m : s[j] \in Byte
  OBVIOUS
<1>2. Written(b, o, s) \in [Offsets -> Byte]
  <2>1. \A p \in Offsets : (IF p - o + 1 \in DOMAIN s THEN s[p - o + 1] ELSE b[p]) \in Byte
    BY <1>1
  <2> QED
    BY <2>1 DEF Written
<1>3. \A p \in Offsets : p \in Nat
  BY SizesAre DEF Offsets
<1>4. ASSUME NEW p \in Offsets, p < o \/ p >= o + m
      PROVE  Written(b, o, s)[p] = b[p]
  <2>1. p - o + 1 \notin 1 .. m
    BY <1>3, <1>4
  <2> QED
    BY <1>1, <2>1 DEF Written
<1>5. ASSUME NEW j \in 1 .. m
      PROVE  Written(b, o, s)[o + j - 1] = s[j]
  <2>1. o + j - 1 \in Offsets
    BY <1>1, SizesAre DEF Offsets
  <2>2. (o + j - 1) - o + 1 = j
    OBVIOUS
  <2>3. PICK p \in Offsets : p = o + j - 1
    BY <2>1
  <2>4. p - o + 1 = j
    BY <2>2, <2>3
  <2>5. Written(b, o, s)[p] = s[j]
    BY <1>1, <2>4 DEF Written
  <2> QED
    BY <2>3, <2>5
<1> QED
  BY <1>1, <1>2, <1>4, <1>5 DEF HasWritten

\* The bytes of a field, as they are written.
LEMMA FieldBytes ==
  ASSUME NEW t \in Byte, NEW data \in Seq(Byte), Len(data) <= 254
  PROVE  LET s == <<Len(data) + 1, t>> \o data
         IN /\ s \in Seq(Byte) /\ Len(s) = Len(data) + 2
            /\ s[1] = Len(data) + 1 /\ s[2] = t
            /\ \A j \in 1 .. Len(data) : s[j + 2] = data[j]
<1>1. PICK m \in Nat : m = Len(data)
  OBVIOUS
<1>2. PICK c : c = m + 1
  OBVIOUS
<1>3. c \in Byte
  BY <1>1, <1>2, IsByte
<1>4. PICK h : h = <<c, t>>
  OBVIOUS
<1>5. h \in Seq(Byte) /\ Len(h) = 2 /\ h[1] = c /\ h[2] = t
  BY <1>3, <1>4
<1>6. PICK s : s = h \o data
  OBVIOUS
<1>7. /\ s \in Seq(Byte) /\ Len(s) = m + 2
      /\ s[1] = c /\ s[2] = t
      /\ \A j \in 1 .. m : s[j + 2] = data[j]
  <2>1. /\ s \in Seq(Byte) /\ Len(s) = Len(h) + Len(data)
        /\ \A i \in 1 .. Len(h) + Len(data) :
             s[i] = IF i <= Len(h) THEN h[i] ELSE data[i - Len(h)]
    BY <1>5, <1>6, ConcatProperties
  <2>2. Len(s) = m + 2
    BY <1>1, <1>5, <2>1
  <2>3. \A j \in 1 .. m + 2 : s[j] = IF j <= 2 THEN h[j] ELSE data[j - 2]
    <3>1. Len(h) + Len(data) = m + 2
      BY <1>1, <1>5
    <3> QED
      BY <1>5, <2>1, <3>1
  <2>4. s[1] = c /\ s[2] = t
    BY <1>5, <2>3
  <2>5. ASSUME NEW j \in 1 .. m
        PROVE  s[j + 2] = data[j]
    <3>1. j + 2 \in 1 .. m + 2 /\ ~ (j + 2 <= 2) /\ (j + 2) - 2 = j
      OBVIOUS
    <3> QED
      BY <2>3, <3>1
  <2> QED
    BY <2>1, <2>2, <2>4, <2>5
<1> QED
  BY <1>1, <1>2, <1>4, <1>6, <1>7

WithOneMore(gs, fs, n, f) ==
  /\ gs = [k \in 1 .. n + 1 |-> gs[k]]
  /\ gs[n + 1] = f /\ \A k \in 1 .. n : gs[k] = fs[k]

LEMMA AppendIs ==
  ASSUME NEW fs, NEW n, AreFields(fs, n), NEW f
  PROVE  /\ WithOneMore(Append(fs, f), fs, n, f)
         /\ IsField(f) => AreFields(Append(fs, f), n + 1)
<1>1. n \in Nat /\ fs = [k \in 1 .. n |-> fs[k]]
  BY DEF AreFields
<1> DEFINE R == {fs[k] : k \in 1 .. n} \cup {f}
<1>2. \A k \in 1 .. n : fs[k] \in R
  OBVIOUS
<1>3. fs \in Seq(R) /\ Len(fs) = n
  BY <1>1, <1>2
<1>4. f \in R
  OBVIOUS
<1> HIDE DEF R
<1>5. PICK g : g = Append(fs, f)
  OBVIOUS
<1>6. /\ g = [k \in 1 .. n + 1 |-> g[k]]
      /\ g[n + 1] = f /\ \A k \in 1 .. n : g[k] = fs[k]
  BY <1>1, <1>3, <1>4, <1>5
<1>7. \A k \in 1 .. n + 1 : k = n + 1 \/ k \in 1 .. n
  BY <1>1
<1>8. WithOneMore(g, fs, n, f)
  BY <1>6 DEF WithOneMore
<1>9. ASSUME IsField(f)
      PROVE  AreFields(g, n + 1)
  <2>1. \A k \in 1 .. n : IsField(fs[k])
    BY DEF AreFields
  <2>2. \A k \in 1 .. n + 1 : IsField(g[k])
    BY <1>6, <1>7, <1>9, <2>1
  <2>3. n + 1 \in Nat
    BY <1>1
  <2> QED
    BY <1>6, <2>2, <2>3 DEF AreFields
<1> QED
  BY <1>5, <1>8, <1>9

\* A field is added behind the others.
Follows(d, fs, n, f, x) ==
  /\ IsBuffer(x) /\ x.len = d.len + Len(f.data) + 2
  /\ \E at : Layout(x, Append(fs, f), at, n + 1)

LEMMA AppendFieldAdds ==
  ASSUME NEW d, IsBuffer(d), NEW fs, NEW at, NEW n, Layout(d, fs, at, n),
         NEW t \in Byte, NEW data \in Seq(Byte), d.len + Len(data) + 2 <= MAX_PAYLOAD
  PROVE  \E x : AppendField(d, t, data) = Done(x) /\ Follows(d, fs, n, Field(t, data), x)
<1>1. PICK m \in Nat : m = Len(data)
  OBVIOUS
<1>2. d.len \in Nat /\ d.bytes \in [Offsets -> Byte]
  BY BufferIs
<1>3. m <= 253 /\ d.len + m + 2 <= MAX_PAYLOAD
  BY <1>1, <1>2, SizesAre
<1>4. PICK s : s = <<Len(data) + 1, t>> \o data
  OBVIOUS
<1>5. /\ s \in Seq(Byte) /\ Len(s) = m + 2 /\ s[1] = m + 1 /\ s[2] = t
      /\ \A j \in 1 .. m : s[j + 2] = data[j]
  BY <1>1, <1>3, <1>4, FieldBytes
<1>6. PICK w : w = Written(d.bytes, d.len, s)
  OBVIOUS
<1>7. /\ w \in [Offsets -> Byte]
      /\ \A p \in Offsets : p < d.len \/ p >= d.len + Len(s) => w[p] = d.bytes[p]
      /\ \A j \in 1 .. Len(s) : w[d.len + j - 1] = s[j]
  <2>1. PICK o \in Nat : o = d.len
    BY <1>2
  <2>2. o + Len(s) <= MAX_PAYLOAD
    BY <1>3, <1>5, <2>1
  <2>3. PICK b : b = d.bytes
    OBVIOUS
  <2>4. b \in [Offsets -> Byte] /\ w = Written(b, o, s)
    BY <1>2, <1>6, <2>1, <2>3
  <2>5. HasWritten(w, b, o, s)
    BY <1>5, <2>2, <2>4, WrittenIs
  <2> QED
    BY <2>1, <2>3, <2>5 DEF HasWritten
<1>8. PICK z \in Nat : z = d.len + m + 2
  BY <1>2
<1> DEFINE x == [bytes |-> w, len |-> z]
           f == Field(t, data)
           bt == [k \in 1 .. (n + 1) + 1 |-> IF k = n + 2 THEN z ELSE at[k]]
           gs == Append(fs, f)
<1>9. AppendField(d, t, data) = Done(x)
  <2>1. ~ (d.len + Len(data) + 2 > MAX_PAYLOAD)
    BY <1>1, <1>2, SizesAre
  <2> QED
    BY <1>1, <1>4, <1>6, <1>8, <2>1 DEF AppendField
<1>10. IsBuffer(x)
  BY <1>3, <1>7, <1>8, SizesAre DEF IsBuffer
<1>11. IsField(f) /\ f.data = data /\ f.type = t
  BY DEF Field, IsField
<1>12. n \in Nat /\ AreFields(fs, n) /\ InARow(fs, at, n) /\ at[n + 1] = d.len
  BY DEF Layout, AreFields
<1> HIDE DEF f
<1>13. WithOneMore(gs, fs, n, f) /\ AreFields(gs, n + 1)
  BY <1>11, <1>12, AppendIs
<1> HIDE DEF gs
<1>14. gs[n + 1] = f /\ \A k \in 1 .. n : gs[k] = fs[k]
  BY <1>13 DEF WithOneMore
<1>15. /\ bt[n + 2] = z /\ bt[(n + 1) + 1] = z /\ \A k \in 1 .. n + 1 : bt[k] = at[k]
       /\ bt \in [1 .. (n + 1) + 1 -> Nat]
  BY <1>8, <1>12 DEF InARow
<1> HIDE DEF bt
<1>16. \A k \in 1 .. n + 1 : k = n + 1 \/ (k \in 1 .. n /\ k + 1 \in 1 .. n + 1)
  BY <1>12
<1>17. InARow(gs, bt, n + 1)
  <2>1. bt[1] = 0
    BY <1>12, <1>15 DEF InARow
  <2>2. ASSUME NEW k \in 1 .. n + 1
        PROVE  bt[k + 1] = bt[k] + Len(gs[k].data) + 2
    <3>1. CASE k = n + 1
      BY <1>1, <1>8, <1>11, <1>12, <1>14, <1>15, <3>1
    <3>2. CASE k \in 1 .. n /\ k + 1 \in 1 .. n + 1
      BY <1>12, <1>14, <1>15, <3>2 DEF InARow
    <3> QED
      BY <1>16, <3>1, <3>2
  <2> QED
    BY <1>15, <2>1, <2>2 DEF InARow
<1>18. ASSUME NEW k \in 1 .. n + 1
       PROVE  Stands(w, bt[k], gs[k])
  <2>1. CASE k = n + 1
    <3>1. bt[k] = d.len /\ gs[k] = f
      BY <1>12, <1>14, <1>15, <2>1
    <3>2. 1 \in 1 .. Len(s) /\ 2 \in 1 .. Len(s) /\ d.len + 1 - 1 = d.len
          /\ d.len + 2 - 1 = d.len + 1
      BY <1>2, <1>5
    <3>3. w[d.len] = m + 1 /\ w[d.len + 1] = t
      BY <1>5, <1>7, <3>2
    <3>4. ASSUME NEW j \in 1 .. m
          PROVE  w[d.len + 1 + j] = data[j]
      <4>1. PICK l \in Nat : l = d.len
        BY <1>2
      <4>2. \A i \in 1 .. m + 2 : w[l + i - 1] = s[i]
        BY <1>5, <1>7, <4>1
      <4>3. j + 2 \in 1 .. m + 2 /\ l + (j + 2) - 1 = l + 1 + j
        OBVIOUS
      <4>4. w[l + (j + 2) - 1] = s[j + 2]
        BY <4>2, <4>3
      <4>5. s[j + 2] = data[j]
        BY <1>5
      <4> QED
        BY <4>1, <4>3, <4>4, <4>5
    <3>5. Stands(w, d.len, f)
      BY <1>1, <1>11, <3>3, <3>4 DEF Stands
    <3> QED
      BY <3>1, <3>5
  <2>2. CASE k \in 1 .. n
    <3>1. /\ at[k] \in Nat /\ Len(fs[k].data) \in Nat /\ at[k + 1] <= d.len
          /\ at[k + 1] = at[k] + Len(fs[k].data) + 2 /\ d.len <= MAX_PAYLOAD
      BY <2>2, Places
    <3>6. PICK g : g = fs[k]
      OBVIOUS
    <3>0. PICK o \in Nat : o = at[k] /\ g = fs[k]
      BY <3>1, <3>6
    <3>2. ASSUME NEW p \in 0 .. Len(g.data) + 1
          PROVE  w[o + p] = d.bytes[o + p]
      <4>1. PICK l \in Nat : l = d.len
        BY <1>2
      <4>2. PICK e \in Nat : e = Len(g.data)
        BY <3>0, <3>1
      <4>3. o + e + 2 <= l /\ l <= MAX_PAYLOAD
        BY <3>0, <3>1, <4>1, <4>2
      <4>4. p \in Nat /\ p <= e + 1
        BY <4>2
      <4>5. o + p < l
        BY <4>3, <4>4
      <4>6. o + p \in Offsets
        BY <4>3, <4>4, <4>5, SizesAre DEF Offsets
      <4> QED
        BY <1>7, <4>1, <4>5, <4>6
    <3>3. Stands(d.bytes, o, g)
      BY <2>2, <3>0 DEF Layout
    <3>4. Stands(w, at[k], fs[k])
      <4>1. Stands(w, o, g)
        <5>1. Len(g.data) \in Nat /\ o \in Int
          BY <3>0, <3>1
        <5> QED
          BY <3>2, <3>3, <5>1, StandsMoved
      <4> QED
        BY <3>0, <4>1
    <3>5. k \in 1 .. n + 1
      BY <2>2
    <3> QED
      BY <1>14, <1>15, <2>2, <3>4, <3>5
  <2> QED
    BY <1>16, <2>1, <2>2
<1>19. Layout(x, gs, bt, n + 1)
  BY <1>13, <1>15, <1>17, <1>18 DEF Layout
<1>20. Follows(d, fs, n, f, x)
  <2>1. x.len = d.len + Len(f.data) + 2
    BY <1>1, <1>8, <1>11
  <2> HIDE DEF x
  <2> QED
    BY <1>10, <1>19, <2>1 DEF Follows, gs
<1> QED
  BY <1>9, <1>20 DEF f

\* The list without field k: element j of it was element j or j + 1.
Without(gs, fs, m, k) ==
  /\ gs = [j \in 1 .. m |-> gs[j]]
  /\ \A j \in 1 .. m : (j < k => gs[j] = fs[j]) /\ (j >= k => gs[j] = fs[j + 1])

LEMMA RemoveAtIs ==
  ASSUME NEW m \in Nat, NEW fs, AreFields(fs, m + 1), NEW k \in 1 .. m + 1
  PROVE  /\ Without(RemoveAt(fs, k), fs, m, k)
         /\ AreFields(RemoveAt(fs, k), m)
<1> DEFINE R == {fs[j] : j \in 1 .. m + 1}
<1>1. fs \in Seq(R) /\ Len(fs) = m + 1
  <2>1. fs = [j \in 1 .. m + 1 |-> fs[j]] /\ m + 1 \in Nat
    BY DEF AreFields
  <2> QED
    BY <2>1
<1>2. \A j \in 1 .. m + 1 : fs[j] \in R
  OBVIOUS
<1> HIDE DEF R
<1>3. PICK a \in Int, b \in Int, c \in Int : a = k - 1 /\ b = k + 1 /\ c = m + 1
  OBVIOUS
<1>4. PICK s, z : s = SubSeq(fs, 1, a) /\ z = SubSeq(fs, b, c)
  OBVIOUS
<1>5. /\ s \in Seq(R) /\ Len(s) = a
      /\ \A i \in 1 .. a : s[i] = fs[i]
  <2>1. \A i \in 1 .. a : fs[i] \in R
    BY <1>2, <1>3
  <2>2. /\ s \in Seq(R) /\ Len(s) = IF 1 <= a THEN a - 1 + 1 ELSE 0
        /\ \A i \in 1 .. (a - 1 + 1) : s[i] = fs[1 + i - 1]
    BY <1>4, <2>1, SubSeqProperties
  <2>3. a \in Nat /\ \A i \in 1 .. a : 1 + i - 1 = i
    BY <1>3
  <2>4. Len(s) = a
    BY <2>2, <2>3
  <2>5. ASSUME NEW i \in 1 .. a
        PROVE  s[i] = fs[i]
    <3>1. i \in 1 .. (a - 1 + 1)
      BY <2>3
    <3>2. s[i] = fs[1 + i - 1]
      BY <2>2, <3>1
    <3> QED
      BY <2>3, <3>2
  <2> QED
    BY <2>2, <2>4, <2>5
<1>6. /\ z \in Seq(R) /\ Len(z) = m - a
      /\ \A i \in 1 .. m - a : z[i] = fs[a + i + 1]
  <2>1. \A i \in b .. c : fs[i] \in R
    BY <1>2, <1>3
  <2>2. /\ z \in Seq(R) /\ Len(z) = IF b <= c THEN c - b + 1 ELSE 0
        /\ \A i \in 1 .. (c - b + 1) : z[i] = fs[b + i - 1]
    BY <1>4, <2>1, SubSeqProperties
  <2>3. c - b + 1 = m - a /\ m - a \in Nat /\ (b <= c) = (m - a > 0)
    BY <1>3
  <2>4. Len(z) = m - a
    BY <1>3, <2>2
  <2>5. ASSUME NEW i \in 1 .. m - a
        PROVE  z[i] = fs[a + i + 1]
    <3>1. i \in 1 .. (c - b + 1)
      BY <2>3
    <3>2. z[i] = fs[b + i - 1]
      BY <2>2, <3>1
    <3>3. b + i - 1 = a + i + 1
      BY <1>3
    <3> QED
      BY <3>2, <3>3
  <2> QED
    BY <2>2, <2>4, <2>5
<1>7. PICK gs : gs = s \o z
  OBVIOUS
<1>8. gs = RemoveAt(fs, k)
  BY <1>1, <1>3, <1>4, <1>7 DEF RemoveAt
<1>9. /\ gs \in Seq(R) /\ Len(gs) = m
      /\ \A i \in 1 .. m : gs[i] = IF i <= a THEN s[i] ELSE z[i - a]
  <2>1. /\ gs \in Seq(R) /\ Len(gs) = Len(s) + Len(z)
        /\ \A i \in 1 .. Len(s) + Len(z) :
             gs[i] = IF i <= Len(s) THEN s[i] ELSE z[i - Len(s)]
    BY <1>5, <1>6, <1>7, ConcatProperties
  <2>2. Len(s) + Len(z) = m
    BY <1>3, <1>5, <1>6
  <2> QED
    BY <1>5, <2>1, <2>2
<1>10. gs = [j \in 1 .. m |-> gs[j]]
  BY <1>9
<1>11. ASSUME NEW j \in 1 .. m
       PROVE  (j < k => gs[j] = fs[j]) /\ (j >= k => gs[j] = fs[j + 1])
  <2>1. CASE j < k
    <3>1. j <= a /\ j \in 1 .. a
      BY <1>3, <2>1
    <3> QED
      BY <1>5, <1>9, <2>1, <3>1
  <2>2. CASE j >= k
    <3>1. ~ (j <= a) /\ j - a \in 1 .. m - a /\ a + (j - a) + 1 = j + 1
      BY <1>3, <2>2
    <3>2. gs[j] = z[j - a]
      BY <1>9, <3>1
    <3>3. z[j - a] = fs[a + (j - a) + 1]
      BY <1>6, <3>1
    <3> QED
      BY <2>2, <3>1, <3>2, <3>3
  <2> QED
    BY <2>1, <2>2
<1>12. Without(gs, fs, m, k)
  BY <1>10, <1>11 DEF Without
<1>13. AreFields(gs, m)
  <2>1. \A j \in 1 .. m + 1 : IsField(fs[j])
    BY DEF AreFields
  <2>2. \A j \in 1 .. m : IsField(gs[j])
    <3> TAKE j \in 1 .. m
    <3>1. j \in 1 .. m + 1 /\ j + 1 \in 1 .. m + 1 /\ (j < k \/ j >= k)
      OBVIOUS
    <3> QED
      BY <1>11, <2>1, <3>1
  <2> QED
    BY <1>10, <2>2 DEF AreFields
<1> QED
  BY <1>8, <1>12, <1>13

\* The value of field k is another.
WithOther(gs, fs, n, k, f) ==
  /\ gs = [j \in 1 .. n |-> gs[j]]
  /\ gs[k] = f /\ \A j \in 1 .. n : j # k => gs[j] = fs[j]

LEMMA ExceptIs ==
  ASSUME NEW fs, NEW n, AreFields(fs, n), NEW k \in 1 .. n, NEW data \in Seq(Byte)
  PROVE  /\ WithOther([fs EXCEPT ![k].data = data], fs, n, k, Field(fs[k].type, data))
         /\ AreFields([fs EXCEPT ![k].data = data], n)
<1>1. n \in Nat /\ fs = [j \in 1 .. n |-> fs[j]] /\ \A j \in 1 .. n : IsField(fs[j])
  BY DEF AreFields
<1>2. PICK gs : gs = [fs EXCEPT ![k].data = data]
  OBVIOUS
<1>3. gs = [fs EXCEPT ![k] = [fs[k] EXCEPT !.data = data]]
  BY <1>2
<1>4. [fs[k] EXCEPT !.data = data] = Field(fs[k].type, data)
  <2>1. fs[k] = Field(fs[k].type, fs[k].data)
    BY <1>1 DEF IsField
  <2> QED
    BY <2>1 DEF Field
<1>5. gs = [fs EXCEPT ![k] = Field(fs[k].type, data)]
  BY <1>3, <1>4
<1>6. DOMAIN fs = 1 .. n
  BY <1>1
<1>7. /\ gs = [j \in 1 .. n |-> gs[j]] /\ gs[k] = Field(fs[k].type, data)
      /\ \A j \in 1 .. n : j # k => gs[j] = fs[j]
  BY <1>5, <1>6
<1>8. IsField(Field(fs[k].type, data))
  BY <1>1 DEF IsField, Field
<1>9. AreFields(gs, n)
  <2>1. \A j \in 1 .. n : IsField(gs[j])
    BY <1>1, <1>7, <1>8
  <2> QED
    BY <1>1, <1>7, <2>1 DEF AreFields
<1>10. WithOther(gs, fs, n, k, Field(fs[k].type, data))
  BY <1>7 DEF WithOther
<1> QED
  BY <1>2, <1>9, <1>10

Stood(x, gs) == IsBuffer(x) /\ \E at, n : Layout(x, gs, at, n)

\* A value of the same length takes the place of the old one.
LEMMA PlacedIs ==
  ASSUME NEW d, IsBuffer(d), NEW fs, NEW at, NEW n, Layout(d, fs, at, n), NEW k \in 1 .. n,
         NEW data \in Seq(Byte), Len(data) = Len(fs[k].data)
  PROVE  Stood([d EXCEPT !.bytes = Written(@, at[k] + 2, data)],
               [fs EXCEPT ![k].data = data])
<1>1. /\ n \in Nat /\ AreFields(fs, n) /\ InARow(fs, at, n) /\ at[n + 1] = d.len
      /\ \A j \in 1 .. n : Stands(d.bytes, at[j], fs[j])
  BY DEF Layout, AreFields
<1>2. d.len \in Nat /\ d.len <= MAX_PAYLOAD /\ d.bytes \in [Offsets -> Byte]
  BY BufferIs
<1>3. PICK m \in Nat : m = Len(data) /\ m = Len(fs[k].data)
  OBVIOUS
<1>4. /\ at[k] \in Nat /\ at[k] + m + 2 <= d.len
      /\ \A j \in 1 .. n : /\ j < k => at[j] + Len(fs[j].data) + 2 <= at[k]
                           /\ j > k => at[k] + m + 2 <= at[j]
  BY <1>3, Places
<1>19. PICK ak \in Nat, e \in Nat, M \in Nat : ak = at[k] /\ e = d.len /\ M = MAX_PAYLOAD
  BY <1>2, <1>4, SizesAre
<1>20. ak + m + 2 <= e /\ e <= M
  BY <1>2, <1>4, <1>19
<1>21. Offsets = 0 .. M - 1
  BY <1>19 DEF Offsets
<1>5. PICK o \in Nat : o = ak + 2
  OBVIOUS
<1>6. PICK b, w : b = d.bytes /\ w = Written(b, o, data)
  OBVIOUS
<1>7. /\ w \in [Offsets -> Byte]
      /\ \A p \in Offsets : p < o \/ p >= o + Len(data) => w[p] = b[p]
      /\ \A j \in 1 .. Len(data) : w[o + j - 1] = data[j]
  <2>1. o + Len(data) <= MAX_PAYLOAD
    <3>1. o + m <= M
      BY <1>5, <1>20
    <3> QED
      BY <1>3, <1>19, <3>1
  <2>2. b \in [Offsets -> Byte]
    BY <1>2, <1>6
  <2>3. HasWritten(w, b, o, data)
    BY <1>6, <2>1, <2>2, WrittenIs
  <2> QED
    BY <2>3 DEF HasWritten
<1>8. PICK x : x = [bytes |-> w, len |-> d.len]
  OBVIOUS
<1>9. [d EXCEPT !.bytes = Written(@, at[k] + 2, data)] = x
  <2>1. d = [bytes |-> d.bytes, len |-> d.len]
    BY DEF IsBuffer
  <2>2. at[k] + 2 = o
    BY <1>5, <1>19
  <2>3. Written(d.bytes, at[k] + 2, data) = w
    BY <1>6, <2>2
  <2>4. [d EXCEPT !.bytes = Written(d.bytes, at[k] + 2, data)] = [d EXCEPT !.bytes = w]
    BY <2>3
  <2>5. [d EXCEPT !.bytes = w] = x
    BY <1>8, <2>1
  <2> QED
    BY <2>4, <2>5
<1>10. IsBuffer(x)
  BY <1>7, <1>8 DEF IsBuffer
<1>11. PICK gs, f : gs = [fs EXCEPT ![k].data = data] /\ f = Field(fs[k].type, data)
  OBVIOUS
<1>12. WithOther(gs, fs, n, k, f) /\ AreFields(gs, n)
  BY <1>1, <1>11, ExceptIs
<1>13. gs[k] = f /\ \A j \in 1 .. n : j # k => gs[j] = fs[j]
  BY <1>12 DEF WithOther
<1>14. f.type = fs[k].type /\ f.data = data
  BY <1>11 DEF Field
<1>15. \A j \in 1 .. n : Len(gs[j].data) = Len(fs[j].data)
  BY <1>3, <1>13, <1>14
<1>16. InARow(gs, at, n)
  BY <1>1, <1>15 DEF InARow
<1>17. ASSUME NEW j \in 1 .. n
       PROVE  Stands(w, at[j], gs[j])
  <2>1. CASE j = k
    <3>1. PICK q \in Nat : q = ak
      OBVIOUS
    <3>2. q \in Offsets /\ q + 1 \in Offsets /\ q < o /\ q + 1 < o
      BY <1>5, <1>20, <1>21, <3>1
    <3>3. w[q] = b[q] /\ w[q + 1] = b[q + 1]
      BY <1>7, <3>2
    <3>4. b[q] = m + 1 /\ b[q + 1] = f.type
      <4>1. Stands(b, q, fs[k])
        BY <1>1, <1>6, <1>19, <3>1
      <4> QED
        BY <1>3, <1>14, <4>1 DEF Stands
    <3>5. ASSUME NEW i \in 1 .. m
          PROVE  w[q + 1 + i] = data[i]
      <4>1. o + i - 1 = q + 1 + i
        BY <1>5, <3>1
      <4>2. w[o + i - 1] = data[i]
        BY <1>3, <1>7
      <4> QED
        BY <4>1, <4>2
    <3>6. Stands(w, q, f)
      BY <1>3, <1>14, <3>3, <3>4, <3>5 DEF Stands
    <3> QED
      BY <1>13, <1>19, <2>1, <3>1, <3>6
  <2>2. CASE j # k
    <3>1. /\ at[j] \in Nat /\ Len(fs[j].data) \in Nat /\ at[j + 1] <= d.len
          /\ at[j + 1] = at[j] + Len(fs[j].data) + 2
      BY Places
    <3>0. PICK g : g = fs[j]
      OBVIOUS
    <3>2. PICK q \in Nat, l \in Nat : q = at[j] /\ g = fs[j] /\ l = Len(g.data)
      BY <3>0, <3>1
    <3>3. q + l + 2 <= M /\ (q + l + 2 <= o \/ o + m <= q)
      <4>1. q + l + 2 <= e
        BY <1>19, <3>1, <3>2
      <4>2. j < k \/ j > k
        BY <1>1, <2>2
      <4>3. q + l + 2 <= ak \/ ak + m + 2 <= q
        BY <1>4, <1>19, <3>2, <4>2
      <4>4. q + l + 2 <= M
        BY <1>20, <4>1
      <4>5. q + l + 2 <= o \/ o + m <= q
        BY <1>5, <4>3
      <4> QED
        BY <4>4, <4>5
    <3>4. ASSUME NEW p \in 0 .. Len(g.data) + 1
          PROVE  w[q + p] = b[q + p]
      <4>1. p \in Nat /\ p <= l + 1
        BY <3>2
      <4>2. q + p \in Offsets
        BY <1>21, <3>3, <4>1
      <4>3. q + p < o \/ q + p >= o + m
        BY <3>3, <4>1
      <4> QED
        BY <1>3, <1>7, <4>2, <4>3
    <3>5. Stands(b, q, g)
      BY <1>1, <1>6, <3>2
    <3>6. Len(g.data) \in Nat /\ q \in Int
      BY <3>2
    <3>7. Stands(w, q, g)
      BY <3>4, <3>5, <3>6, StandsMoved
    <3> QED
      BY <1>13, <2>2, <3>2, <3>7
  <2> QED
    BY <2>1, <2>2
<1>18. Layout(x, gs, at, n)
  BY <1>1, <1>8, <1>12, <1>16, <1>17 DEF Layout
<1> QED
  BY <1>9, <1>10, <1>11, <1>18 DEF Stood

\* The bytes behind a field of e bytes of data at o, moved over it.
Removed(d, o, e) ==
  [p \in Offsets |->
     IF p >= o /\ p + e + 2 < d.len THEN d.bytes[p + e + 2] ELSE d.bytes[p]]

\* The gap that a field leaves is closed.
LEMMA RemovedIs ==
  ASSUME NEW d, IsBuffer(d), NEW fs, NEW at, NEW n, Layout(d, fs, at, n), NEW k \in 1 .. n
  PROVE  Stood([bytes |-> Removed(d, at[k], Len(fs[k].data)),
                len |-> d.len - (Len(fs[k].data) + 2)],
               RemoveAt(fs, k))
<1>1. /\ n \in Nat /\ AreFields(fs, n) /\ InARow(fs, at, n) /\ at[n + 1] = d.len
      /\ \A j \in 1 .. n : Stands(d.bytes, at[j], fs[j])
  BY DEF Layout, AreFields
<1>2. d.len \in Nat /\ d.len <= MAX_PAYLOAD /\ d.bytes \in [Offsets -> Byte]
  BY BufferIs
<1>3. /\ at[k] \in Nat /\ Len(fs[k].data) \in Nat /\ at[k] + Len(fs[k].data) + 2 <= d.len
      /\ at[k + 1] = at[k] + Len(fs[k].data) + 2
  BY Places
<1>4. PICK ak \in Nat, g \in Nat, l \in Nat, M \in Nat :
        ak = at[k] /\ g = Len(fs[k].data) + 2 /\ l = d.len /\ M = MAX_PAYLOAD
  BY <1>2, <1>3, SizesAre
<1>5. ak + g <= l /\ l <= M /\ at[k + 1] = ak + g /\ Offsets = 0 .. M - 1 /\ g >= 2
  <2>1. PICK e \in Nat : e = Len(fs[k].data)
    BY <1>3
  <2>2. g = e + 2 /\ ak + e + 2 <= l /\ at[k + 1] = ak + e + 2
    BY <1>3, <1>4, <2>1
  <2>3. ak + g <= l /\ at[k + 1] = ak + g /\ g >= 2
    BY <2>2
  <2>4. l <= M
    BY <1>2, <1>4
  <2>5. Offsets = 0 .. M - 1
    BY <1>4 DEF Offsets
  <2> QED
    BY <2>3, <2>4, <2>5
<1>6. PICK m \in Nat : n = m + 1
  BY <1>1
<1>7. PICK b, w : b = d.bytes /\ w = Removed(d, at[k], Len(fs[k].data))
  OBVIOUS
<1>8. \A p \in Offsets : w[p] = IF p >= ak /\ p + g < l THEN b[p + g] ELSE b[p]
  <2> TAKE p \in Offsets
  <2>1. PICK e \in Nat : e = Len(fs[k].data) /\ g = e + 2
    BY <1>3, <1>4
  <2>2. w = Removed(d, ak, e)
    BY <1>4, <1>7, <2>1
  <2>3. w[p] = IF p >= ak /\ p + e + 2 < l THEN b[p + e + 2] ELSE b[p]
    BY <1>4, <1>7, <2>2 DEF Removed
  <2>4. p + e + 2 = p + g
    BY <1>5, <2>1
  <2> QED
    BY <2>3, <2>4
<1>9. w \in [Offsets -> Byte]
  <2>1. \A p \in Offsets : p >= ak /\ p + g < l => p + g \in Offsets
    BY <1>5
  <2>2. b \in [Offsets -> Byte]
    BY <1>2, <1>7
  <2>3. \A p \in Offsets : w[p] \in Byte
    BY <1>8, <2>1, <2>2
  <2>4. w = [p \in Offsets |-> w[p]]
    BY <1>7 DEF Removed
  <2> QED
    BY <2>3, <2>4
<1>10. PICK z \in Nat : z = l - g
  BY <1>5
<1>11. PICK x : x = [bytes |-> w, len |-> z]
  OBVIOUS
<1>12. [bytes |-> Removed(d, at[k], Len(fs[k].data)), len |-> d.len - (Len(fs[k].data) + 2)] = x
  <2>1. d.len - (Len(fs[k].data) + 2) = z
    BY <1>4, <1>10
  <2> QED
    BY <1>7, <1>11, <2>1
<1>13. IsBuffer(x)
  <2>1. z \in 0 .. MAX_PAYLOAD
    BY <1>4, <1>5, <1>10
  <2> QED
    BY <1>9, <1>11, <2>1 DEF IsBuffer
<1>14. PICK gs : gs = RemoveAt(fs, k)
  OBVIOUS
<1>15. Without(gs, fs, m, k) /\ AreFields(gs, m)
  BY <1>1, <1>6, <1>14, RemoveAtIs
<1>16. \A j \in 1 .. m : (j < k => gs[j] = fs[j]) /\ (j >= k => gs[j] = fs[j + 1])
  BY <1>15 DEF Without
<1> DEFINE bt == [j \in 1 .. m + 1 |-> IF j < k THEN at[j] ELSE at[j + 1] - g]
<1>17. at \in [1 .. n + 1 -> Nat] /\ at[1] = 0
       /\ \A j \in 1 .. n : at[j + 1] = at[j] + Len(fs[j].data) + 2
  BY <1>1 DEF InARow
<1>18. ASSUME NEW j \in 1 .. m + 1
       PROVE  bt[j] \in Nat /\ (j < k => bt[j] = at[j]) /\ (j >= k => bt[j] = at[j + 1] - g)
              /\ (j >= k => at[j + 1] >= ak + g /\ at[j + 1] \in Nat)
  <2>1. j \in 1 .. n + 1 /\ j + 1 \in 1 .. n + 1 /\ k + 1 \in 1 .. n + 1
    BY <1>6
  <2>2. at[j] \in Nat /\ at[j + 1] \in Nat
    BY <1>17, <2>1
  <2>3. j >= k => at[k + 1] <= at[j + 1]
    BY <1>1, <2>1, Ordered
  <2> QED
    BY <1>5, <2>2, <2>3
<1>19. bt \in [1 .. m + 1 -> Nat]
  BY <1>18
<1> HIDE DEF bt
<1>20. bt[k] = ak
  <2>1. k \in 1 .. m + 1
    BY <1>6
  <2> QED
    BY <1>5, <1>18, <2>1
<1>21. InARow(gs, bt, m)
  <2>1. bt[1] = 0
    <3>1. 1 \in 1 .. m + 1 /\ (1 < k \/ k = 1)
      OBVIOUS
    <3>2. k = 1 => ak = 0
      BY <1>4, <1>17
    <3> QED
      BY <1>17, <1>18, <1>20, <3>1, <3>2
  <2>2. ASSUME NEW j \in 1 .. m
        PROVE  bt[j + 1] = bt[j] + Len(gs[j].data) + 2
    <3>1. j \in 1 .. m + 1 /\ j + 1 \in 1 .. m + 1 /\ j \in 1 .. n /\ j + 1 \in 1 .. n
      BY <1>6
    <3>2. CASE j < k
      <4>1. gs[j] = fs[j] /\ at[j + 1] = at[j] + Len(fs[j].data) + 2 /\ bt[j] = at[j]
        BY <1>16, <1>17, <1>18, <3>1, <3>2
      <4>2. bt[j + 1] = at[j + 1]
        <5>1. j + 1 < k \/ j + 1 = k
          BY <3>2
        <5> QED
          BY <1>4, <1>18, <1>20, <3>1, <5>1
      <4> QED
        BY <4>1, <4>2
    <3>3. CASE j >= k
      <4>1. PICK i \in 1 .. n : i = j + 1
        BY <3>1
      <4>2. gs[j] = fs[i] /\ at[i + 1] = at[i] + Len(fs[i].data) + 2
        BY <1>16, <1>17, <3>3, <4>1
      <4>3. bt[j] = at[i] - g /\ at[i] \in Nat
        BY <1>18, <3>1, <3>3, <4>1
      <4>4. i \in 1 .. m + 1 /\ i >= k
        BY <3>1, <3>3, <4>1
      <4>5. bt[i] = at[i + 1] - g /\ at[i + 1] \in Nat
        BY <1>18, <4>4
      <4>6. PICK h \in Nat : h = Len(gs[j].data)
        BY <4>2, Places
      <4>7. at[i + 1] = at[i] + h + 2
        BY <4>2, <4>6
      <4>8. PICK u \in Nat, v \in Nat : u = at[i] /\ v = at[i + 1]
        BY <4>3, <4>5
      <4>9. bt[j] = u - g /\ bt[i] = v - g /\ v = u + h + 2
        BY <4>3, <4>5, <4>7, <4>8
      <4>10. bt[i] = bt[j] + h + 2
        BY <4>9
      <4>11. bt[j + 1] = bt[j] + h + 2
        BY <4>1, <4>10
      <4> QED
        BY <4>6, <4>11
    <3> QED
      BY <3>2, <3>3
  <2> QED
    BY <1>19, <2>1, <2>2 DEF InARow
<1>22. bt[m + 1] = z
  <2>1. m + 1 \in 1 .. m + 1 /\ m + 1 >= k
    BY <1>6
  <2>2. bt[m + 1] = at[(m + 1) + 1] - g
    BY <1>18, <2>1
  <2> QED
    BY <1>1, <1>4, <1>6, <1>10, <2>2
<1>23. ASSUME NEW j \in 1 .. m
       PROVE  Stands(w, bt[j], gs[j])
  <2>1. j \in 1 .. m + 1 /\ j \in 1 .. n /\ j + 1 \in 1 .. n /\ (j < k \/ j >= k)
    BY <1>6
  <2>2. CASE j < k
    <3>1. /\ at[j] \in Nat /\ Len(fs[j].data) \in Nat
          /\ at[j] + Len(fs[j].data) + 2 <= at[k]
      BY <2>1, <2>2, Places
    <3>0. PICK f : f = fs[j]
      OBVIOUS
    <3>2. PICK q \in Nat, h \in Nat : q = at[j] /\ h = Len(f.data)
      BY <3>0, <3>1
    <3>3. q + h + 2 <= ak
      BY <1>4, <3>0, <3>1, <3>2
    <3>4. ASSUME NEW p \in 0 .. Len(f.data) + 1
          PROVE  w[q + p] = b[q + p]
      <4>1. p \in Nat /\ p <= h + 1
        BY <3>2
      <4>2. q + p \in Offsets /\ ~ (q + p >= ak)
        BY <1>5, <3>3, <4>1
      <4> QED
        BY <1>8, <4>2
    <3>5. Stands(b, q, f)
      BY <1>1, <1>7, <2>1, <3>0, <3>2
    <3>6. Len(f.data) \in Nat /\ q \in Int
      BY <3>2
    <3>7. Stands(w, q, f)
      BY <3>4, <3>5, <3>6, StandsMoved
    <3> QED
      BY <1>16, <1>18, <2>1, <2>2, <3>0, <3>2, <3>7
  <2>3. CASE j >= k
    <3>1. PICK i \in 1 .. n : i = j + 1
      BY <2>1
    <3>2. /\ at[i] \in Nat /\ Len(fs[i].data) \in Nat
          /\ at[i] + Len(fs[i].data) + 2 <= d.len
      BY Places
    <3>0. PICK f : f = fs[i]
      OBVIOUS
    <3>3. PICK q \in Nat, h \in Nat : q = at[i] /\ h = Len(f.data)
      BY <3>0, <3>2
    <3>4. q + h + 2 <= l /\ q >= ak + g
      BY <1>4, <1>18, <2>1, <2>3, <3>0, <3>1, <3>2, <3>3
    <3>5. PICK o \in Nat : o = q - g
      BY <3>4
    <3>6. ASSUME NEW p \in 0 .. Len(f.data) + 1
          PROVE  w[o + p] = b[q + p]
      <4>1. p \in Nat /\ p <= h + 1
        BY <3>3
      <4>2. o + p \in Offsets /\ o + p >= ak /\ (o + p) + g < l /\ (o + p) + g = q + p
        BY <1>5, <3>4, <3>5, <4>1
      <4>3. w[o + p] = b[(o + p) + g]
        BY <1>8, <4>2
      <4> QED
        BY <4>2, <4>3
    <3>7. Stands(b, q, f)
      BY <1>1, <1>7, <3>0, <3>3
    <3>8. Len(f.data) \in Nat /\ q \in Int /\ o \in Int
      BY <3>3
    <3>9. Stands(w, o, f)
      BY <3>6, <3>7, <3>8, StandsMoved
    <3>10. bt[j] = o /\ gs[j] = f
      BY <1>16, <1>18, <2>1, <2>3, <3>0, <3>1, <3>3, <3>5
    <3> QED
      BY <3>9, <3>10
  <2> QED
    BY <2>1, <2>2, <2>3
<1>24. Layout(x, gs, bt, m)
  BY <1>11, <1>15, <1>21, <1>22, <1>23 DEF Layout
<1> QED
  BY <1>12, <1>13, <1>14, <1>24 DEF Stood

\* A value joins the others of a list in front of them.
LEMMA ExtendedIs ==
  ASSUME NEW d, IsBuffer(d), NEW fs, NEW at, NEW n, Layout(d, fs, at, n), NEW k \in 1 .. n,
         NEW data \in Seq(Byte), d.len + Len(data) <= MAX_PAYLOAD
  PROVE  Stood([bytes |-> Extended(d, data, at[k]), len |-> d.len + Len(data)],
               [fs EXCEPT ![k].data = data \o @])
<1>1. /\ n \in Nat /\ AreFields(fs, n) /\ InARow(fs, at, n) /\ at[n + 1] = d.len
      /\ \A j \in 1 .. n : Stands(d.bytes, at[j], fs[j])
  BY DEF Layout, AreFields
<1>2. d.len \in Nat /\ d.len <= MAX_PAYLOAD /\ d.bytes \in [Offsets -> Byte]
  BY BufferIs
<1>3. /\ at[k] \in Nat /\ Len(fs[k].data) \in Nat /\ at[k] + Len(fs[k].data) + 2 <= d.len
      /\ at[k + 1] = at[k] + Len(fs[k].data) + 2 /\ fs[k].data \in Seq(Byte)
  BY Places
<1>4. PICK o \in Nat, e \in Nat, l \in Nat, M \in Nat, g \in Nat :
        o = at[k] /\ e = Len(fs[k].data) /\ l = d.len /\ M = MAX_PAYLOAD /\ g = Len(data)
  <2>1. Len(data) \in Nat
    OBVIOUS
  <2>2. at[k] \in Nat /\ Len(fs[k].data) \in Nat /\ d.len \in Nat
    BY <1>2, <1>3
  <2>3. MAX_PAYLOAD \in Nat
    BY SizesAre
  <2> QED
    BY <2>1, <2>2, <2>3
<1>5. o + e + 2 <= l /\ l + g <= M /\ M <= 255
  <2>1. o + e + 2 <= l
    BY <1>3, <1>4
  <2>2. l + g <= M /\ M <= 255
    BY <1>4, SizesAre
  <2> QED
    BY <2>1, <2>2
<1>6. Offsets = 0 .. M - 1
  BY <1>4 DEF Offsets
<1>7. PICK b, w : b = d.bytes /\ w = Extended(d, data, at[k])
  OBVIOUS
<1>8. b[o] = e + 1 /\ b[o + 1] = fs[k].type /\ \A j \in 1 .. e : b[o + 1 + j] = fs[k].data[j]
  <2>1. Stands(b, o, fs[k])
    BY <1>1, <1>4, <1>7
  <2> QED
    BY <1>4, <2>1 DEF Stands
<1>9. \A p \in Offsets : w[p] = IF p = o THEN b[p] + g
                                ELSE IF p - o - 1 \in 1 .. g THEN data[p - o - 1]
                                ELSE IF p > o + 1 + g /\ p <= l + g THEN b[p - g]
                                ELSE b[p]
  <2>1. DOMAIN data = 1 .. g
    BY <1>4
  <2>2. w = Extended(d, data, o)
    BY <1>4, <1>7
  <2> QED
    BY <1>4, <1>7, <2>1, <2>2 DEF Extended
<1>10. w \in [Offsets -> Byte]
  <2>1. ASSUME NEW p \in Offsets
        PROVE  w[p] \in Byte
    <3>1. CASE p = o
      <4>1. PICK c \in Nat : c = e + 1 + g
        OBVIOUS
      <4>2. c <= 255
        BY <1>5, <4>1
      <4>3. w[p] = c
        BY <1>8, <1>9, <3>1, <4>1
      <4> QED
        BY <4>2, <4>3, IsByte
    <3>2. CASE p # o /\ p - o - 1 \in 1 .. g
      <4>1. PICK i \in 1 .. g : i = p - o - 1
        BY <3>2
      <4>2. w[p] = data[i]
        BY <1>9, <3>2, <4>1
      <4> QED
        BY <1>4, <4>2
    <3>3. CASE p # o /\ p - o - 1 \notin 1 .. g /\ p > o + 1 + g /\ p <= l + g
      <4>1. p - g \in Offsets
        BY <1>6, <3>3
      <4>2. w[p] = b[p - g]
        BY <1>9, <3>3
      <4> QED
        BY <1>2, <1>7, <4>1, <4>2
    <3>4. CASE p # o /\ p - o - 1 \notin 1 .. g /\ ~ (p > o + 1 + g /\ p <= l + g)
      <4>1. w[p] = b[p]
        BY <1>9, <3>4
      <4> QED
        BY <1>2, <1>7, <4>1
    <3> QED
      BY <3>1, <3>2, <3>3, <3>4
  <2>2. w = [p \in Offsets |-> w[p]]
    BY <1>7 DEF Extended
  <2> QED
    BY <2>1, <2>2
<1>11. PICK z \in Nat : z = l + g
  OBVIOUS
<1>12. PICK x : x = [bytes |-> w, len |-> z]
  OBVIOUS
<1>13. [bytes |-> Extended(d, data, at[k]), len |-> d.len + Len(data)] = x
  <2>1. d.len + Len(data) = z
    BY <1>4, <1>11
  <2> QED
    BY <1>7, <1>12, <2>1
<1>14. IsBuffer(x)
  <2>1. z \in 0 .. MAX_PAYLOAD
    BY <1>4, <1>5, <1>11
  <2> QED
    BY <1>10, <1>12, <2>1 DEF IsBuffer
<1>15. PICK s, old : old = fs[k].data /\ s = data \o old
  OBVIOUS
<1>16. /\ s \in Seq(Byte) /\ Len(s) = g + e
       /\ \A j \in 1 .. g + e : s[j] = IF j <= g THEN data[j] ELSE old[j - g]
  <2>1. /\ s \in Seq(Byte) /\ Len(s) = Len(data) + Len(old)
        /\ \A j \in 1 .. Len(data) + Len(old) :
             s[j] = IF j <= Len(data) THEN data[j] ELSE old[j - Len(data)]
    BY <1>3, <1>15, ConcatProperties
  <2>2. Len(data) = g /\ Len(old) = e
    BY <1>4, <1>15
  <2> QED
    BY <2>1, <2>2
<1>17. PICK gs, f : gs = [fs EXCEPT ![k].data = s] /\ f = Field(fs[k].type, s)
  OBVIOUS
<1>18. [fs EXCEPT ![k].data = data \o @] = gs
  BY <1>15, <1>17
<1>19. WithOther(gs, fs, n, k, f) /\ AreFields(gs, n)
  BY <1>1, <1>16, <1>17, ExceptIs
<1>20. gs[k] = f /\ \A j \in 1 .. n : j # k => gs[j] = fs[j]
  BY <1>19 DEF WithOther
<1>21. f.type = fs[k].type /\ f.data = s
  BY <1>17 DEF Field
<1> DEFINE bt == [j \in 1 .. n + 1 |-> IF j <= k THEN at[j] ELSE at[j] + g]
<1>22. /\ at \in [1 .. n + 1 -> Nat] /\ at[1] = 0
       /\ \A j \in 1 .. n : at[j + 1] = at[j] + Len(fs[j].data) + 2
  BY <1>1 DEF InARow
<1>23. ASSUME NEW j \in 1 .. n + 1
       PROVE  bt[j] \in Nat /\ (j <= k => bt[j] = at[j]) /\ (j > k => bt[j] = at[j] + g)
  <2>1. at[j] \in Nat
    BY <1>22
  <2> QED
    BY <2>1
<1>24. bt \in [1 .. n + 1 -> Nat]
  BY <1>23
<1> HIDE DEF bt
<1>25. InARow(gs, bt, n)
  <2>1. bt[1] = 0
    BY <1>1, <1>22, <1>23
  <2>2. ASSUME NEW j \in 1 .. n
        PROVE  bt[j + 1] = bt[j] + Len(gs[j].data) + 2
    <3>1. PICK i \in 1 .. n + 1 : i = j + 1
      BY <1>1
    <3>2. j \in 1 .. n + 1 /\ (j < k \/ j = k \/ j > k)
      BY <1>1
    <3>3. Len(fs[j].data) \in Nat
      BY Places
    <3>4. PICK u \in Nat, v \in Nat, h \in Nat : u = at[j] /\ v = at[i] /\ h = Len(fs[j].data)
      BY <1>22, <3>1, <3>2, <3>3
    <3>5. v = u + h + 2
      BY <1>22, <3>1, <3>4
    <3>6. bt[i] = bt[j] + Len(gs[j].data) + 2
      <4>1. CASE j < k
        <5>1. bt[j] = u /\ bt[i] = v
          BY <1>23, <3>1, <3>2, <3>4, <4>1
        <5>2. Len(gs[j].data) = h
          BY <1>20, <3>4, <4>1
        <5> QED
          BY <3>5, <5>1, <5>2
      <4>2. CASE j = k
        <5>1. bt[j] = u /\ bt[i] = v + g
          BY <1>23, <3>1, <3>2, <3>4, <4>2
        <5>2. Len(gs[j].data) = g + e /\ h = e
          BY <1>4, <1>16, <1>20, <1>21, <3>4, <4>2
        <5>3. bt[i] = u + (g + e) + 2
          BY <3>5, <5>1, <5>2
        <5> QED
          BY <5>1, <5>2, <5>3
      <4>3. CASE j > k
        <5>1. bt[j] = u + g /\ bt[i] = v + g
          BY <1>23, <3>1, <3>2, <3>4, <4>3
        <5>2. Len(gs[j].data) = h
          BY <1>20, <3>4, <4>3
        <5>3. bt[i] = bt[j] + h + 2
          BY <3>5, <5>1
        <5> QED
          BY <5>2, <5>3
      <4> QED
        BY <3>2, <4>1, <4>2, <4>3
    <3> QED
      BY <3>1, <3>6
  <2> QED
    BY <1>24, <2>1, <2>2 DEF InARow
<1>26. bt[n + 1] = z
  <2>1. n + 1 \in 1 .. n + 1 /\ n + 1 > k
    BY <1>1
  <2> QED
    BY <1>1, <1>4, <1>11, <1>23, <2>1
<1>27. ASSUME NEW j \in 1 .. n
       PROVE  Stands(w, bt[j], gs[j])
  <2>1. j \in 1 .. n + 1 /\ (j < k \/ j = k \/ j > k)
    BY <1>1
  <2>2. PICK f2 : f2 = fs[j]
    OBVIOUS
  <2>3. /\ at[j] \in Nat /\ Len(f2.data) \in Nat
        /\ at[j] + Len(f2.data) + 2 <= d.len
        /\ j < k => at[j] + Len(f2.data) + 2 <= at[k]
    BY <2>2, Places
  <2>4. PICK q \in Nat, h \in Nat : q = at[j] /\ h = Len(f2.data)
    BY <2>3
  <2>5. q + h + 2 <= l
    BY <1>4, <2>3, <2>4
  <2>6. Stands(b, q, f2)
    BY <1>1, <1>7, <2>2, <2>4
  <2>7. CASE j < k
    <3>1. q + h + 2 <= o
      BY <1>4, <2>3, <2>4, <2>7
    <3>2. ASSUME NEW p \in 0 .. Len(f2.data) + 1
          PROVE  w[q + p] = b[q + p]
      <4>1. p \in Nat /\ p <= h + 1
        BY <2>4
      <4>2. PICK r \in Nat : r = q + p
        BY <4>1
      <4>3. r \in Offsets /\ r < o
        BY <1>5, <1>6, <3>1, <4>1, <4>2
      <4>4. w[r] = b[r]
        BY <1>9, <4>3
      <4> QED
        BY <4>2, <4>4
    <3>3. Len(f2.data) \in Nat /\ q \in Int
      BY <2>4
    <3>4. Stands(w, q, f2)
      BY <2>6, <3>2, <3>3, StandsMoved
    <3> QED
      BY <1>20, <1>23, <2>1, <2>2, <2>4, <2>7, <3>4
  <2>8. CASE j > k
    <3>1. q >= o + e + 2
      <4>1. at[k + 1] <= at[j]
        BY <2>8, Places
      <4> QED
        BY <1>3, <1>4, <2>4, <4>1
    <3>2. PICK v \in Nat : v = q + g
      OBVIOUS
    <3>3. ASSUME NEW p \in 0 .. Len(f2.data) + 1
          PROVE  w[v + p] = b[q + p]
      <4>1. p \in Nat /\ p <= h + 1
        BY <2>4
      <4>2. PICK r \in Nat : r = v + p
        BY <4>1
      <4>3. r \in Offsets /\ r > o + 1 + g /\ r <= l + g /\ r - g = q + p
        BY <1>5, <1>6, <2>5, <3>1, <3>2, <4>1, <4>2
      <4>4. r # o /\ r - o - 1 \notin 1 .. g
        BY <4>3
      <4>5. w[r] = b[r - g]
        BY <1>9, <4>3, <4>4
      <4> QED
        BY <4>2, <4>3, <4>5
    <3>4. Len(f2.data) \in Nat /\ q \in Int /\ v \in Int
      BY <2>4
    <3>5. Stands(w, v, f2)
      BY <2>6, <3>3, <3>4, StandsMoved
    <3>6. bt[j] = v /\ gs[j] = f2
      BY <1>20, <1>23, <2>1, <2>2, <2>4, <2>8, <3>2
    <3> QED
      BY <3>5, <3>6
  <2>9. CASE j = k
    <3>1. o \in Offsets /\ w[o] = g + e + 1
      <4>1. o \in Offsets
        BY <1>5, <1>6
      <4>2. w[o] = b[o] + g
        BY <1>9, <4>1
      <4>3. PICK y \in Nat : y = e + 1
        OBVIOUS
      <4>4. b[o] = y
        BY <1>8, <4>3
      <4>5. w[o] = y + g
        BY <4>2, <4>4
      <4> QED
        BY <4>1, <4>3, <4>5
    <3>2. w[o + 1] = f.type
      <4>1. PICK r \in Nat : r = o + 1
        OBVIOUS
      <4>2. r \in Offsets /\ r # o /\ r - o - 1 \notin 1 .. g /\ ~ (r > o + 1 + g)
        BY <1>5, <1>6, <4>1
      <4>3. w[r] = b[r]
        BY <1>9, <4>2
      <4> QED
        BY <1>8, <1>21, <4>1, <4>3
    <3>3. ASSUME NEW i \in 1 .. g + e
          PROVE  w[o + 1 + i] = s[i]
      <4>1. PICK r \in Nat : r = o + 1 + i
        OBVIOUS
      <4>2. r \in Offsets /\ r # o /\ r - o - 1 = i
        BY <1>5, <1>6, <4>1
      <4>3. CASE i <= g
        <5>1. r - o - 1 \in 1 .. g
          BY <4>2, <4>3
        <5>2. w[r] = data[r - o - 1]
          BY <1>9, <4>2, <5>1
        <5> QED
          BY <1>16, <4>1, <4>2, <4>3, <5>2
      <4>4. CASE i > g
        <5>1. r - o - 1 \notin 1 .. g /\ r > o + 1 + g /\ r <= l + g
          BY <1>5, <4>1, <4>2, <4>4
        <5>2. w[r] = b[r - g]
          BY <1>9, <4>2, <5>1
        <5>3. PICK y \in 1 .. e : y = i - g
          BY <4>4
        <5>4. r - g = o + 1 + y
          BY <4>1, <5>3
        <5>5. b[r - g] = old[y]
          <6>1. b[o + 1 + y] = fs[k].data[y]
            BY <1>8
          <6> QED
            BY <1>15, <5>4, <6>1
        <5>6. s[i] = old[y]
          <6>1. s[i] = old[i - g]
            BY <1>16, <4>4
          <6> QED
            BY <5>3, <6>1
        <5> QED
          BY <4>1, <5>2, <5>5, <5>6
      <4> QED
        BY <4>3, <4>4
    <3>4. Stands(w, o, f)
      <4>1. Len(f.data) = g + e
        BY <1>16, <1>21
      <4> QED
        BY <1>21, <3>1, <3>2, <3>3, <4>1 DEF Stands
    <3> QED
      BY <1>4, <1>20, <1>23, <2>1, <2>9, <3>4
  <2> QED
    BY <2>1, <2>7, <2>8, <2>9
<1>28. Layout(x, gs, bt, n)
  BY <1>12, <1>19, <1>25, <1>26, <1>27 DEF Layout
<1> QED
  BY <1>13, <1>14, <1>18, <1>28 DEF Stood

ReplacedIn(fs, k, data) ==
  IF Len(data) = Len(fs[k].data) THEN [fs EXCEPT ![k].data = data]
  ELSE Append(RemoveAt(fs, k), Field(fs[k].type, data))

\* UpdateField, when it has room, puts another value for the field.
LEMMA UpdateFieldIs ==
  ASSUME NEW d, IsBuffer(d), NEW fs, NEW at, NEW n, Layout(d, fs, at, n), NEW k \in 1 .. n,
         NEW data \in Seq(Byte), NEW field, field = at[k], NEW t, t = fs[k].type,
         UpdateField(d, t, data, field).rc = "NONE"
  PROVE  Stood(UpdateField(d, t, data, field).d, ReplacedIn(fs, k, data))
<1>1. /\ at[k] \in Nat /\ Len(fs[k].data) \in Nat /\ at[k] + Len(fs[k].data) + 2 <= d.len
      /\ fs[k].type \in Byte /\ d.len \in Nat
  BY Places
<1>2. PICK e \in Nat : e = Len(fs[k].data)
  BY <1>1
<1>3. d.bytes[field] - 1 = e
  <2>1. Stands(d.bytes, field, fs[k])
    BY DEF Layout
  <2> QED
    BY <1>2, <2>1 DEF Stands
<1>4. PICK y : y = [bytes |-> Removed(d, field, e), len |-> d.len - (e + 2)]
  OBVIOUS
<1>5. PICK u : u = UpdateField(d, t, data, field)
  OBVIOUS
<1>6. u = IF Len(data) = e THEN Done([d EXCEPT !.bytes = Written(@, field + 2, data)])
          ELSE IF d.len - e + Len(data) <= MAX_PAYLOAD THEN AppendField(y, t, data)
          ELSE Overflow(d)
  BY <1>3, <1>4, <1>5 DEF UpdateField, Removed
<1>7. CASE Len(data) = e
  <2>1. Stood([d EXCEPT !.bytes = Written(@, at[k] + 2, data)], [fs EXCEPT ![k].data = data])
    BY <1>2, <1>7, PlacedIs
  <2>2. u.d = [d EXCEPT !.bytes = Written(@, at[k] + 2, data)]
    BY <1>6, <1>7 DEF Done
  <2>3. ReplacedIn(fs, k, data) = [fs EXCEPT ![k].data = data]
    BY <1>2, <1>7 DEF ReplacedIn
  <2> QED
    BY <1>5, <2>1, <2>2, <2>3
<1>8. CASE Len(data) # e /\ d.len - e + Len(data) <= MAX_PAYLOAD
  <2>1. PICK gs : gs = RemoveAt(fs, k)
    OBVIOUS
  <2>2. Stood(y, gs)
    BY <1>2, <1>4, <2>1, RemovedIs
  <2>3. PICK bt, m : Layout(y, gs, bt, m)
    BY <2>2 DEF Stood
  <2>4. IsBuffer(y)
    BY <2>2 DEF Stood
  <2>5. y.len + Len(data) + 2 <= MAX_PAYLOAD
    <3>1. y.len = d.len - (e + 2) /\ Len(data) \in Nat
      BY <1>4
    <3> QED
      BY <1>1, <1>8, <3>1, SizesAre
  <2>6. t \in Byte
    BY <1>1
  <2>7. PICK x : AppendField(y, t, data) = Done(x) /\ Follows(y, gs, m, Field(t, data), x)
    BY <2>3, <2>4, <2>5, <2>6, AppendFieldAdds
  <2>8. Stood(x, Append(gs, Field(t, data)))
    BY <2>7 DEF Follows, Stood
  <2>9. u.d = x
    BY <1>6, <1>8, <2>7 DEF Done
  <2>10. ReplacedIn(fs, k, data) = Append(gs, Field(t, data))
    BY <1>2, <1>8, <2>1 DEF ReplacedIn
  <2> QED
    BY <1>5, <2>8, <2>9, <2>10
<1>9. CASE Len(data) # e /\ ~ (d.len - e + Len(data) <= MAX_PAYLOAD)
  BY <1>5, <1>6, <1>9 DEF Overflow
<1> QED
  BY <1>7, <1>8, <1>9

\* AppendField, when it has room, adds a field behind the others.
LEMMA AppendFieldIs ==
  ASSUME NEW d, IsBuffer(d), NEW fs, NEW at, NEW n, Layout(d, fs, at, n),
         NEW data \in Seq(Byte), NEW t \in Byte, AppendField(d, t, data).rc = "NONE"
  PROVE  Stood(AppendField(d, t, data).d, Append(fs, Field(t, data)))
<1>1. d.len \in Nat /\ Len(data) \in Nat
  BY BufferIs
<1>2. d.len + Len(data) + 2 <= MAX_PAYLOAD
  <2>1. ~ (d.len + Len(data) + 2 > MAX_PAYLOAD)
    BY DEF AppendField, Overflow
  <2> QED
    BY <1>1, <2>1, SizesAre
<1>3. PICK x : AppendField(d, t, data) = Done(x) /\ Follows(d, fs, n, Field(t, data), x)
  BY <1>2, AppendFieldAdds
<1> QED
  BY <1>3 DEF Follows, Stood, Done

\* The empty buffer stands for no field.
LEMMA EmptyIs == IsBuffer(Empty) /\ Layout(Empty, <<>>, [k \in 1 .. 1 |-> 0], 0)
<1>1. IsBuffer(Empty)
  <2>1. 0 \in Byte /\ 0 \in 0 .. MAX_PAYLOAD
    BY SizesAre, IsByte
  <2> QED
    BY <2>1 DEF IsBuffer, Empty
<1>2. AreFields(<<>>, 0)
  BY DEF AreFields
<1>3. PICK at : at = [k \in 1 .. 1 |-> 0]
  OBVIOUS
<1>4. InARow(<<>>, at, 0) /\ at[1] = 0
  BY <1>3 DEF InARow
<1>5. Layout(Empty, <<>>, at, 0)
  BY <1>2, <1>4 DEF Layout, Empty
<1> QED
  BY <1>1, <1>3, <1>5

-----------------------------------------------------------------------------
\* The size of a list is the length of the buffer that stands for it.
Plus(n, f) == n + 2 + Len(f.data)
Sums == INSTANCE FoldFacts WITH Op <- Plus

\* The fold of AdvertisingFields is the one of FoldFacts, with Plus.
LEMMA SumsFold == \A seq : Abstract!Size(seq) = Sums!FoldLeft(Plus, 0, seq)
BY DEF Abstract!Size, Abstract!WithField, Plus, Abstract!FoldLeft, Abstract!MapThenFoldSet,
   Abstract!Max, Sums!FoldLeft, Sums!MapThenFoldSet, Sums!Max

LEMMA SizeIs ==
  ASSUME NEW d, IsBuffer(d), NEW fs, NEW at, NEW n, Layout(d, fs, at, n)
  PROVE  Abstract!Size(fs) = d.len
<1>1. Abstract!Size(fs) = Sums!FoldLeft(Plus, 0, fs)
  BY SumsFold
<1>2. n \in Nat /\ at \in [1 .. n + 1 -> Nat] /\ at[1] = 0 /\ at[n + 1] = d.len
      /\ \A k \in 1 .. n : at[k + 1] = at[k] + Len(fs[k].data) + 2
  BY DEF Layout, AreFields, InARow
<1>3. DOMAIN fs = 1 .. n
  BY DEF Layout, AreFields
<1> DEFINE z == [k \in 0 .. n |-> at[k + 1]]
<1>4. z[0] = 0 /\ z[n] = d.len
  BY <1>2
<1>5. ASSUME NEW k \in 1 .. n
      PROVE  z[k] = Plus(z[k - 1], fs[k])
  <2>1. k \in 0 .. n /\ k - 1 \in 0 .. n /\ (k - 1) + 1 = k
    BY <1>2
  <2>2. z[k] = at[k + 1] /\ z[k - 1] = at[k]
    BY <2>1
  <2>3. PICK u \in Nat, h \in Nat : u = at[k] /\ h = Len(fs[k].data)
    BY Places
  <2>4. at[k + 1] = u + h + 2
    BY <1>2, <2>3
  <2> HIDE DEF z
  <2>5. z[k] = u + 2 + h
    BY <2>2, <2>4
  <2> QED
    BY <2>2, <2>3, <2>5 DEF Plus
<1> HIDE DEF z
<1>6. Sums!Runs(z, 0, fs, n)
  BY <1>4, <1>5 DEF Sums!Runs
<1>7. Sums!FoldLeft(Plus, 0, fs) = z[n]
  BY <1>2, <1>3, <1>6, Sums!FoldIs
<1> QED
  BY <1>1, <1>4, <1>7

-----------------------------------------------------------------------------
\* The payload stands for the list fs.
Holds(fs) == Stood(_advPayload, fs)

\* What the readers find in it.
LEMMA HoldsIs ==
  ASSUME NEW d, NEW fs, Stood(d, fs)
  PROVE  /\ Fields(d) = fs /\ Abstract!Size(fs) = d.len
         /\ d.len <= MAX_PAYLOAD /\ End(d) = d.len
<1>1. PICK at, n : IsBuffer(d) /\ Layout(d, fs, at, n)
  BY DEF Stood
<1> QED
  BY <1>1, BufferIs, FieldsAre, SizeIs, EndIs

\* A call that is taken leaves its result, one that is refused leaves the payload.
LEMMA OfferIs ==
  ASSUME NEW result, Offer(result)
  PROVE  UNCHANGED _advPayload \/ (result.rc = "NONE" /\ _advPayload' = result.d)
BY DEF Offer

\* The values that are passed.
LEMMA Passed ==
  ASSUME NEW t \in Types, NEW data \in Datas
  PROVE  t \in Byte /\ data \in Seq(Byte)
<1>1. Types \subseteq 1 .. 255 /\ data \in Seq(0 .. 255)
  BY AdvertisingAssumption DEF AdvertisingAssumption
<1>2. data \in Seq(Byte)
  BY <1>1 DEF Byte
<1>3. t \in Byte
  BY <1>1 DEF Byte
<1> QED
  BY <1>2, <1>3

\* What a step of AdvertisingFields makes of fs.
Made(fs, gs) ==
  \/ \E t \in Types, data \in Datas :
       \/ /\ \A k \in DOMAIN fs : fs[k].type # t
          /\ gs = Append(fs, Field(t, data))
       \/ \E k \in DOMAIN fs :
            /\ fs[k].type = t /\ t \in ListTypes
            /\ gs = [fs EXCEPT ![k].data = data \o @]
       \/ \E k \in DOMAIN fs : fs[k].type = t /\ gs = ReplacedIn(fs, k, data)
       \/ gs = <<Field(t, data)>>
  \/ gs = <<>>

Steps(fs) == UNCHANGED _advPayload \/ \E gs : Stood(_advPayload', gs) /\ Made(fs, gs)

\* Adding appends, joins or replaces, unless the length is hit.
LEMMA AddSteps ==
  ASSUME NEW fs, Holds(fs), AccumulateAdvertisingPayload, ~ Overruns
  PROVE  Steps(fs)
<1>1. PICK t \in Types, data \in Datas :
        \E result \in AddData(_advPayload, t, data) : Offer(result)
  BY DEF AccumulateAdvertisingPayload
<1>2. PICK result \in AddData(_advPayload, t, data) : Offer(result)
  BY <1>1
<1>3. SUFFICES ASSUME result.rc = "NONE", _advPayload' = result.d
               PROVE  \E gs : Stood(result.d, gs) /\ Made(fs, gs)
  BY <1>2, OfferIs DEF Steps
<1>4. PICK at, n : IsBuffer(_advPayload) /\ Layout(_advPayload, fs, at, n)
  BY DEF Holds, Stood
<1>5. DOMAIN fs = 1 .. n
  BY <1>4 DEF Layout, AreFields
<1>6. t \in Byte /\ data \in Seq(Byte)
  BY Passed
<1>7. PICK d, field : d = _advPayload /\ field = FindField(d, t)
  OBVIOUS
<1>8. IsBuffer(d) /\ Layout(d, fs, at, n)
  BY <1>4, <1>7
<1>9. result \in IF field = NotFound THEN {AppendField(d, t, data)}
                 ELSE IF t \in ListTypes THEN ExtendField(d, data, field)
                 ELSE {UpdateField(d, t, data, field)}
  BY <1>2, <1>7 DEF AddData
<1>10. \/ field = NotFound /\ \A k \in 1 .. n : fs[k].type # t
       \/ field # NotFound /\ \E k \in 1 .. n : fs[k].type = t /\ field = at[k]
  BY <1>7, <1>8, FindIs
<1>11. CASE field = NotFound
  <2>1. result = AppendField(d, t, data)
    BY <1>9, <1>11
  <2>2. Stood(result.d, Append(fs, Field(t, data)))
    BY <1>3, <1>6, <1>8, <2>1, AppendFieldIs
  <2>3. \A k \in DOMAIN fs : fs[k].type # t
    BY <1>5, <1>10, <1>11
  <2>4. Made(fs, Append(fs, Field(t, data)))
    BY <2>3 DEF Made
  <2> QED
    BY <2>2, <2>4
<1>12. CASE field # NotFound /\ t \in ListTypes
  <2>1. PICK k \in 1 .. n : fs[k].type = t /\ field = at[k]
    BY <1>10, <1>12
  <2>2. result \in ExtendField(d, data, field)
    BY <1>9, <1>12
  <2>3. d.len + Len(data) <= MAX_PAYLOAD
    <3>1. d.len \in Nat /\ Len(data) \in Nat
      BY <1>6, <1>8, BufferIs
    <3>2. ~ (d.len + Len(data) > MAX_PAYLOAD)
      BY <1>3, <2>2 DEF ExtendField, Overflow
    <3> QED
      BY <3>1, <3>2, SizesAre
  <2>4. PICK v : result = Done([bytes |-> Extended(d, data, field), len |-> v])
                 /\ (v = d.len + Len(data) \/ HitsLength(d, data))
    <3>1. ~ (d.len + Len(data) > MAX_PAYLOAD)
      <4>1. d.len \in Nat /\ Len(data) \in Nat
        BY <1>6, <1>8, BufferIs
      <4> QED
        BY <2>3, <4>1, SizesAre
    <3> QED
      BY <2>2, <3>1 DEF ExtendField
  <2>5. _advPayload'.bytes = Extended(d, data, field)
    BY <1>3, <2>4 DEF Done
  <2>6. ~ HitsLength(d, data)
    BY <1>7, <1>12, <2>5 DEF Overruns
  <2>7. result.d = [bytes |-> Extended(d, data, at[k]), len |-> d.len + Len(data)]
    BY <2>1, <2>4, <2>6 DEF Done
  <2>8. Stood(result.d, [fs EXCEPT ![k].data = data \o @])
    <3>1. Stood([bytes |-> Extended(d, data, at[k]), len |-> d.len + Len(data)],
                [fs EXCEPT ![k].data = data \o @])
      BY <1>6, <1>8, <2>3, ExtendedIs
    <3> QED
      BY <2>7, <3>1
  <2>9. Made(fs, [fs EXCEPT ![k].data = data \o @])
    BY <1>5, <1>12, <2>1 DEF Made
  <2> QED
    BY <2>8, <2>9
<1>13. CASE field # NotFound /\ t \notin ListTypes
  <2>1. PICK k \in 1 .. n : fs[k].type = t /\ field = at[k]
    BY <1>10, <1>13
  <2>2. result = UpdateField(d, t, data, field)
    BY <1>9, <1>13
  <2>3. Stood(result.d, ReplacedIn(fs, k, data))
    BY <1>3, <1>6, <1>8, <2>1, <2>2, UpdateFieldIs
  <2>4. Made(fs, ReplacedIn(fs, k, data))
    BY <1>5, <2>1 DEF Made
  <2> QED
    BY <2>3, <2>4
<1> QED
  BY <1>11, <1>12, <1>13

\* Updating replaces.
LEMMA UpdateSteps ==
  ASSUME NEW fs, Holds(fs), UpdateAdvertisingPayload
  PROVE  Steps(fs)
<1>1. PICK t \in Types, data \in Datas : Offer(UpdateData(_advPayload, t, data))
  BY DEF UpdateAdvertisingPayload
<1>2. PICK result : result = UpdateData(_advPayload, t, data)
  OBVIOUS
<1>3. SUFFICES ASSUME result.rc = "NONE", _advPayload' = result.d
               PROVE  \E gs : Stood(result.d, gs) /\ Made(fs, gs)
  BY <1>1, <1>2, OfferIs DEF Steps
<1>4. PICK at, n : IsBuffer(_advPayload) /\ Layout(_advPayload, fs, at, n)
  BY DEF Holds, Stood
<1>5. DOMAIN fs = 1 .. n
  BY <1>4 DEF Layout, AreFields
<1>6. t \in Byte /\ data \in Seq(Byte)
  BY Passed
<1>7. PICK d, field : d = _advPayload /\ field = FindField(d, t)
  OBVIOUS
<1>8. IsBuffer(d) /\ Layout(d, fs, at, n)
  BY <1>4, <1>7
<1>9. field # NotFound /\ result = UpdateField(d, t, data, field)
  BY <1>2, <1>3, <1>7 DEF UpdateData
<1>10. PICK k \in 1 .. n : fs[k].type = t /\ field = at[k]
  BY <1>7, <1>8, <1>9, FindIs
<1>11. Stood(result.d, ReplacedIn(fs, k, data))
  BY <1>3, <1>6, <1>8, <1>9, <1>10, UpdateFieldIs
<1>12. Made(fs, ReplacedIn(fs, k, data))
  BY <1>5, <1>10 DEF Made
<1> QED
  BY <1>11, <1>12

\* A payload that the caller made has one field, a cleared one none.
LEMMA SetSteps ==
  ASSUME NEW fs, SetAdvertisingPayload
  PROVE  Steps(fs)
<1>1. PICK t \in Types, data \in Datas :
        AppendField(Empty, t, data).rc = "NONE" /\ Offer(AppendField(Empty, t, data))
  BY DEF SetAdvertisingPayload
<1>2. PICK result : result = AppendField(Empty, t, data)
  OBVIOUS
<1>3. t \in Byte /\ data \in Seq(Byte)
  BY Passed
<1>4. Stood(result.d, Append(<<>>, Field(t, data)))
  BY <1>1, <1>2, <1>3, EmptyIs, AppendFieldIs
<1>5. Append(<<>>, Field(t, data)) = <<Field(t, data)>>
  OBVIOUS
<1>6. Made(fs, <<Field(t, data)>>)
  BY DEF Made
<1> QED
  BY <1>1, <1>2, <1>4, <1>5, <1>6, OfferIs DEF Steps

LEMMA ClearSteps ==
  ASSUME NEW fs, ClearAdvertisingPayload
  PROVE  Steps(fs)
<1>1. Stood(Empty, <<>>)
  BY EmptyIs DEF Stood
<1>2. Made(fs, <<>>)
  BY DEF Made
<1> QED
  BY <1>1, <1>2 DEF Steps, ClearAdvertisingPayload

\* Each action is one of these, or leaves the payload alone.
LEMMA StepIs ==
  ASSUME NEW fs, Holds(fs), [Next /\ ~ Overruns]_vars
  PROVE  Steps(fs)
<1>1. CASE AccumulateAdvertisingPayload /\ ~ Overruns
  BY <1>1, AddSteps
<1>2. CASE UpdateAdvertisingPayload
  BY <1>2, UpdateSteps
<1>3. CASE SetAdvertisingPayload
  BY <1>3, SetSteps
<1>4. CASE ClearAdvertisingPayload
  BY <1>4, ClearSteps
<1>5. CASE UNCHANGED vars
  BY <1>5 DEF vars, Steps
<1> QED
  BY <1>1, <1>2, <1>3, <1>4, <1>5 DEF Next

-----------------------------------------------------------------------------
(************ the fields in the payload, whatever is moved in it ***********)

\* The inductive invariant: the payload stands for some list of fields.
LayoutInv == \E fs : Holds(fs)

LEMMA LayoutKept == LayoutInv /\ [Next /\ ~ Overruns]_vars => LayoutInv'
<1> SUFFICES ASSUME LayoutInv, [Next /\ ~ Overruns]_vars PROVE LayoutInv'
  OBVIOUS
<1>1. PICK fs : Holds(fs)
  BY DEF LayoutInv
<1>2. Steps(fs)
  BY <1>1, StepIs
<1>3. CASE UNCHANGED _advPayload
  BY <1>1, <1>3 DEF LayoutInv, Holds
<1>4. CASE \E gs : Stood(_advPayload', gs)
  BY <1>4 DEF LayoutInv, Holds
<1> QED
  BY <1>2, <1>3, <1>4 DEF Steps

LEMMA LayoutAtFirst == Init => LayoutInv
BY EmptyIs DEF Init, LayoutInv, Holds, Stood

\* However fields are added, extended, replaced and moved, each as long as its
\* first byte says, they fill the payload up to its length exactly, for every
\* size of the buffer and every value, while ExtendField does not write behind it.
THEOREM LengthIsTheData == InsideSpec => []LengthIsOfData
<1>1. LayoutInv => LengthIsOfData
  <2> SUFFICES ASSUME LayoutInv PROVE LengthIsOfData
    OBVIOUS
  <2>1. PICK fs : Stood(_advPayload, fs)
    BY DEF LayoutInv, Holds
  <2> QED
    BY <2>1, HoldsIs DEF LengthIsOfData
<1> QED
  BY <1>1, LayoutAtFirst, LayoutKept, PTL DEF InsideSpec

\* What a step makes of the list is a step of AdvertisingFields.
LEMMA AbstractStep == LayoutInv /\ [Next /\ ~ Overruns]_vars
                        => [Abstract!Next]_(Fields(_advPayload))
<1> SUFFICES ASSUME LayoutInv, [Next /\ ~ Overruns]_vars
             PROVE  Abstract!Next \/ UNCHANGED Fields(_advPayload)
  OBVIOUS
<1>1. PICK fs : Holds(fs)
  BY DEF LayoutInv
<1>2. Steps(fs) /\ Fields(_advPayload) = fs
  BY <1>1, StepIs, HoldsIs DEF Holds
<1>3. CASE UNCHANGED _advPayload
  <2>1. Fields(_advPayload') = Fields(_advPayload)
    BY <1>3
  <2> QED
    BY <2>1
<1>4. CASE \E gs : Stood(_advPayload', gs) /\ Made(fs, gs)
  <2>1. PICK gs : Stood(_advPayload', gs) /\ Made(fs, gs)
    BY <1>4
  <2>2. Fields(_advPayload') = gs /\ Abstract!Size(gs) <= MAX_PAYLOAD
    BY <2>1, HoldsIs
  <2>3. Fields(_advPayload)' = gs
    BY <2>2
  <2>4. Abstract!Fits(Fields(_advPayload)')
    BY <2>2, <2>3 DEF Abstract!Fits
  <2>5. CASE gs = <<>>
    BY <2>3, <2>5 DEF Abstract!Next, Abstract!Clear
  <2>6. ASSUME NEW t \in Types, NEW data \in Datas, gs = <<Field(t, data)>>
        PROVE  Abstract!Next
    BY <2>3, <2>4, <2>6 DEF Abstract!Next, Abstract!Set, Field
  <2>7. ASSUME NEW t \in Types, NEW data \in Datas, \A k \in DOMAIN fs : fs[k].type # t,
               gs = Append(fs, Field(t, data))
        PROVE  Abstract!Next
    <3>1. Abstract!Index(t) = {}
      BY <1>2, <2>7 DEF Abstract!Index
    <3>2. gs \in Abstract!AfterAdd(t, data)
      BY <1>2, <2>7, <3>1 DEF Abstract!AfterAdd, Field
    <3> QED
      BY <2>3, <2>4, <3>2 DEF Abstract!Next, Abstract!Add
  <2>8. ASSUME NEW t \in Types, NEW data \in Datas, NEW k \in DOMAIN fs, fs[k].type = t,
               t \in ListTypes, gs = [fs EXCEPT ![k].data = data \o @]
        PROVE  Abstract!Next
    <3>1. k \in Abstract!Index(t)
      BY <1>2, <2>8 DEF Abstract!Index
    <3>2. gs \in Abstract!Joined(k, data)
      BY <1>2, <2>8 DEF Abstract!Joined
    <3>3. gs \in Abstract!AfterAdd(t, data)
      BY <2>8, <3>1, <3>2 DEF Abstract!AfterAdd
    <3> QED
      BY <2>3, <2>4, <3>3 DEF Abstract!Next, Abstract!Add
  <2>9. ASSUME NEW t \in Types, NEW data \in Datas, NEW k \in DOMAIN fs, fs[k].type = t,
               gs = ReplacedIn(fs, k, data)
        PROVE  Abstract!Next
    <3>1. gs = Abstract!Replaced(k, data)
      BY <1>2, <2>9 DEF Abstract!Replaced, ReplacedIn, Field, RemoveAt, Abstract!RemoveAt
    <3> QED
      BY <1>2, <2>3, <2>4, <2>9, <3>1 DEF Abstract!Next, Abstract!Update
  <2> QED
    BY <2>1, <2>5, <2>6, <2>7, <2>8, <2>9 DEF Made
<1> QED
  BY <1>2, <1>3, <1>4 DEF Steps

\* Every call on the bytes is, for their reader, an operation on a list of fields
\* or nothing: none is lost, doubled or mixed with another.
THEOREM KeepsTheFields == InsideSpec => KeepsFields
<1>1. Init => Abstract!Init
  <2>1. Stood(Empty, <<>>)
    BY EmptyIs DEF Stood
  <2>2. Fields(Empty) = <<>>
    BY <2>1, HoldsIs
  <2> QED
    BY <2>2 DEF Init, Abstract!Init
<1> QED
  BY <1>1, LayoutAtFirst, LayoutKept, AbstractStep, PTL
     DEF InsideSpec, KeepsFields, Abstract!Spec
=============================================================================
