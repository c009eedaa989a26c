-------------------------- MODULE GattServer_proofs --------------------------
(***************************************************************************)
(* What the Gatt server promises, proved for every set of services, every  *)
(* size of the tables and any number of connections: no path leaves an     *)
(* attribute with a value other than the one last given to it; every       *)
(* handle resolves to its own characteristic; the application is told of   *)
(* every write, of every subscription and of every notification sent.      *)
(*                                                                         *)
(* The last four rest on one inductive invariant, BaseInv: the register    *)
(* the driver keeps is one of the whole table (TableInv), the events of a  *)
(* connection are in the order the link's state allows (LinkInv), and they *)
(* carry handles of the table (CarriesInv, PendingInv).                    *)
(***************************************************************************)
EXTENDS GattServer, SequenceTheorems, TLAPS

\* write() stores on a connection, on a lost one and for want of one.
LEMMA WriteStores ==
  ASSUME ValueIsLastWritten, NEW c, NEW v, NEW localOnly, Write(c, v, localOnly)
  PROVE  ValueIsLastWritten'
<1> DEFINE h == server.valueHandle[c]
<1>1. CASE \E type : Hvx(h, v, type)
  BY <1>1 DEF Hvx, Stored, ValueIsLastWritten
<1>2. CASE HvxRefused(h, v)
  BY <1>2 DEF HvxRefused, Stored, ValueIsLastWritten
<1>3. CASE Stored(h, v) /\ last' = [last EXCEPT ![h] = v]
  BY <1>3 DEF Stored, ValueIsLastWritten
<1> QED
  BY <1>1, <1>2, <1>3 DEF Write

\* A write of the central is stored, unless it has to be authorized.
LEMMA CentralStores ==
  ASSUME ValueIsLastWritten, NEW h, NEW v,
         CentralWrites(h, v) \/ CentralAsks(h, v)
  PROVE  ValueIsLastWritten'
BY DEF CentralWrites, CentralAsks, Stored, sdVars, historyVars, ValueIsLastWritten

\* A write that the application authorizes is made or refused, and the request
\* taken from the SoftDevice or left with it.
LEMMA AuthorizedWrite ==
  ASSUME NEW ev, HandleAuthorizeWrite(ev)
  PROVE  /\ \E made \in BOOLEAN :
              /\ value' = IF made THEN [value EXCEPT ![ev.handle] = ev.data] ELSE value
              /\ last' = IF made THEN [last EXCEPT ![ev.handle] = ev.data] ELSE last
         /\ pending' = NoRequest \/ pending' = Unanswered("write") \/ UNCHANGED pending
         /\ \/ owed' = owed
            \/ owed' = Informed(owed, ev)
            \/ owed' = Informed(Append(owed, <<ev.handle, ev.data>>), ev)
<1>1. CASE ValueIndex(ev.handle) = 0
  BY <1>1 DEF HandleAuthorizeWrite
<1>2. CASE ValueIndex(ev.handle) # 0
  <2>1. PICK allowed \in BOOLEAN, taken \in {FALSE, pending.kind = "write"} :
          LET made == allowed /\ taken
              due == IF made THEN Append(owed, <<ev.handle, ev.data>>) ELSE owed
          IN /\ pending' = IF taken THEN NoRequest ELSE Unanswered("write")
             /\ value' = IF made THEN [value EXCEPT ![ev.handle] = ev.data] ELSE value
             /\ last' = IF made THEN [last EXCEPT ![ev.handle] = ev.data] ELSE last
             /\ owed' = IF allowed THEN Informed(due, ev) ELSE due
    BY <1>2 DEF HandleAuthorizeWrite
  <2>2. PICK made \in BOOLEAN : made = (allowed /\ taken)
    OBVIOUS
  <2>3. /\ value' = IF made THEN [value EXCEPT ![ev.handle] = ev.data] ELSE value
        /\ last' = IF made THEN [last EXCEPT ![ev.handle] = ev.data] ELSE last
    BY <2>1, <2>2
  <2>4. pending' = NoRequest \/ pending' = Unanswered("write")
    BY <2>1
  <2>5. \/ owed' = owed
        \/ owed' = Informed(owed, ev)
        \/ owed' = Informed(Append(owed, <<ev.handle, ev.data>>), ev)
    <3>1. PICK due : /\ due = IF made THEN Append(owed, <<ev.handle, ev.data>>) ELSE owed
                     /\ owed' = IF allowed THEN Informed(due, ev) ELSE due
      BY <2>1, <2>2
    <3>2. made => allowed
      BY <2>2
    <3> QED
      BY <3>1, <3>2
  <2> QED
    BY <2>3, <2>4, <2>5
<1> QED
  BY <1>1, <1>2

\* A write that had to be authorized is stored by the SoftDevice's reply, or refused.
LEMMA EventsStore ==
  ASSUME ValueIsLastWritten, hwCallback
  PROVE  ValueIsLastWritten'
<1> PICK ev : \/ HandleConnected(ev) \/ HandleDisconnected(ev)
              \/ HandleSubscription(ev) \/ HandleDataWritten(ev)
              \/ HandleSysAttrMissing(ev) \/ HandleAuthorizeWrite(ev)
              \/ HandleAuthorizeRead(ev) \/ HandleConfirmation(ev) \/ HandleDataSent(ev)
  BY DEF hwCallback
<1>1. CASE HandleAuthorizeWrite(ev)
  <2>1. PICK made \in BOOLEAN :
          /\ value' = IF made THEN [value EXCEPT ![ev.handle] = ev.data] ELSE value
          /\ last' = IF made THEN [last EXCEPT ![ev.handle] = ev.data] ELSE last
    BY <1>1, AuthorizedWrite
  <2> QED
    BY <2>1 DEF ValueIsLastWritten
<1>2. CASE HandleConnected(ev) \/ HandleDisconnected(ev) \/ HandleSubscription(ev)
           \/ HandleDataWritten(ev) \/ HandleSysAttrMissing(ev)
  BY <1>2 DEF HandleConnected, HandleDisconnected, HandleSubscription, HandleDataWritten,
              HandleSysAttrMissing, sdVars, ValueIsLastWritten
<1>3. CASE HandleAuthorizeRead(ev) \/ HandleConfirmation(ev) \/ HandleDataSent(ev)
  BY <1>3 DEF HandleAuthorizeRead, HandleConfirmation, HandleDataSent, sdVars,
              ValueIsLastWritten
<1> QED
  BY <1>1, <1>2, <1>3

\* A write() that reports no error of its parameters leaves its value in the
\* attribute, whatever became of the notification (nRF5xGattServer.cpp:248-269).
THEOREM ValuesAreStored == Spec => []ValueIsLastWritten
<1>1. Init => ValueIsLastWritten
  BY DEF Init, ValueIsLastWritten
<1>2. ValueIsLastWritten /\ [Next]_vars => ValueIsLastWritten'
  <2> SUFFICES ASSUME ValueIsLastWritten, [Next]_vars PROVE ValueIsLastWritten'
    OBVIOUS
  <2>1. CASE AddService \/ StartAdvertising \/ Connect \/ SoftDeviceResumes
             \/ CentralConfirms \/ LinkLost \/ UNCHANGED vars
    BY <2>1 DEF AddService, StartAdvertising, Connect, SoftDeviceResumes, CentralConfirms,
                LinkLost, vars, sdVars, historyVars, ValueIsLastWritten
  <2>2. CASE hwCallback
    BY <2>2, EventsStore
  <2>3. CASE Shutdown
    BY <2>3 DEF Shutdown, ValueIsLastWritten
  <2>4. CASE \E c \in Characteristics, v \in Values, localOnly \in BOOLEAN :
               Write(c, v, localOnly)
    BY <2>4, WriteStores
  <2>5. CASE \E h \in Handles, v \in Values : CentralWrites(h, v) \/ CentralAsks(h, v)
    BY <2>5, CentralStores
  <2>6. CASE \E h \in Handles, bits \in CCCDValues : CentralSubscribes(h, bits)
    BY <2>6 DEF CentralSubscribes, historyVars, ValueIsLastWritten
  <2>7. CASE \E n \in 1 .. TxBuffers : RadioSends(n)
    BY <2>7 DEF RadioSends, sdVars, historyVars, ValueIsLastWritten
  <2> QED
    BY <2>1, <2>2, <2>3, <2>4, <2>5, <2>6, <2>7 DEF Next
<1> QED
  BY <1>1, <1>2, PTL DEF Spec

(***************************************************************************)
(* The table of attributes and the register the driver keeps of it: the    *)
(* invariant TableInv, kept by addService and by the reset.                *)
(***************************************************************************)

Adding == INSTANCE FoldFacts WITH Op <- AddCharacteristic

Bases == {ShortUUID} \cup {s.base : s \in Services}
AttributeSet == [char : Characteristics, kind : {"value", "cccd", "descriptor"}, base : Bases]
UUIDSet == [base : Bases, type : Nat]
HandlesSet == [value : 0 .. MaxAttributes, cccd : 0 .. MaxAttributes]
ServerSet ==
  [serviceCount : Nat, characteristicCount : 0 .. BLE_TOTAL_CHARACTERISTICS,
   descriptorCount : 0 .. BLE_TOTAL_DESCRIPTORS,
   p_characteristics : [1 .. BLE_TOTAL_CHARACTERISTICS -> Characteristics \cup {NoChar}],
   nrfCharacteristicHandles :
     [1 .. BLE_TOTAL_CHARACTERISTICS -> HandlesSet],
   valueHandle : [Characteristics -> 0 .. MaxAttributes],
   convertedUUIDTable : Seq(UUIDSet),
   offered : SUBSET Services]

\* What the driver keeps of a characteristic is where its attributes are.
Registered(g, t) ==
  \A i \in 1 .. g.characteristicCount :
    LET c == g.p_characteristics[i]
        at == g.nrfCharacteristicHandles[i]
    IN /\ c \in Characteristics
       /\ g.valueHandle[c] = at.value
       /\ at.value \in 1 .. Len(t)
       /\ t[at.value].kind = "value" /\ t[at.value].char = c
       /\ HasCCCD(c) => /\ at.cccd = at.value + 1 /\ at.cccd \in 1 .. Len(t)
                        /\ t[at.cccd].kind = "cccd" /\ t[at.cccd].char = c
       /\ ~HasCCCD(c) => at.cccd = 0

\* It keeps it of all of them.
Complete(g, t) ==
  \A h \in 1 .. Len(t) :
    /\ t[h].kind = "value" =>
         \E i \in 1 .. g.characteristicCount : g.nrfCharacteristicHandles[i].value = h
    /\ t[h].kind = "cccd" =>
         \E i \in 1 .. g.characteristicCount : g.nrfCharacteristicHandles[i].cccd = h

\* A characteristic comes from a service offered before, or is one of the
\* first k of the service s.
From(g, s, k) ==
  \A i \in 1 .. g.characteristicCount :
    \/ \E t \in g.offered : g.p_characteristics[i] \in Range(t.chars)
    \/ \E j \in 1 .. k : g.p_characteristics[i] = s.chars[j]

\* What holds of the registers g, the attributes t and the bases vs.
Sound(g, t, vs) ==
  /\ g \in ServerSet /\ t \in Seq(AttributeSet) /\ vs \in Seq(Bases)
  /\ Len(t) <= MaxAttributes /\ Len(g.convertedUUIDTable) <= UUID_TABLE_MAX_ENTRIES
  /\ Registered(g, t) /\ Complete(g, t)
  /\ \A i \in 1 .. g.characteristicCount :
       \E s \in g.offered : g.p_characteristics[i] \in Range(s.chars)
TableInv == Sound(server, table, vsBases)

Flags == BOOLEAN
AdderSet ==
  [g : ServerSet, table : Seq(AttributeSet), vs : Seq(Bases), type : Nat, err : Flags,
   cache : Seq(UUIDSet), base : Bases]
AdderInv(x, offered, s, k) ==
  /\ x \in AdderSet
  /\ Len(x.table) <= MaxAttributes /\ Len(x.cache) <= UUID_TABLE_MAX_ENTRIES
  /\ Registered(x.g, x.table) /\ Complete(x.g, x.table)
  /\ x.g.offered = offered /\ From(x.g, s, k)

Kept(x, y) ==
  /\ y \in AdderSet /\ Len(y.cache) <= UUID_TABLE_MAX_ENTRIES
  /\ y.g = x.g /\ y.table = x.table /\ y.base = x.base /\ y.err = x.err

\* Looking the base up changes the tables of bases only.
LEMMA ConvertedKeeps ==
  ASSUME NEW x \in AdderSet, Len(x.cache) <= UUID_TABLE_MAX_ENTRIES, GattServerAssumption
  PROVE  Kept(x, Converted(x))
<1> DEFINE known == {i \in DOMAIN x.cache : x.cache[i].base = x.base}
           refused == x.base \in Range(x.vs)
           type == IF refused THEN BLE_UUID_TYPE_UNKNOWN ELSE 2 + Len(x.vs)
<1>1. CASE x.base = ShortUUID
  <2>1. Converted(x) = [x EXCEPT !.type = BLE_UUID_TYPE_BLE]
    BY <1>1 DEF Converted
  <2>2. Kept(x, [x EXCEPT !.type = BLE_UUID_TYPE_BLE])
    BY DEF AdderSet, Kept, BLE_UUID_TYPE_BLE
  <2> QED
    BY <2>1, <2>2
<1>2. CASE x.base # ShortUUID /\ known # {}
  <2> DEFINE j == CHOOSE i \in known : TRUE
  <2>1. Converted(x) = [x EXCEPT !.type = x.cache[j].type]
    BY <1>2 DEF Converted
  <2>2. j \in DOMAIN x.cache
    BY <1>2
  <2> HIDE DEF j, known
  <2>5. x.cache \in Seq(UUIDSet)
    BY DEF AdderSet
  <2>6. x.cache[j] \in UUIDSet
    BY <2>2, <2>5
  <2>3. x.cache[j].type \in Nat
    BY <2>6 DEF UUIDSet
  <2>4. Kept(x, [x EXCEPT !.type = x.cache[j].type])
    BY <2>3 DEF AdderSet, Kept
  <2> QED
    BY <2>1, <2>4
<1>3. CASE x.base # ShortUUID /\ known = {}
  <2> DEFINE vs == IF refused THEN x.vs ELSE Append(x.vs, x.base)
             cache == IF Len(x.cache) = UUID_TABLE_MAX_ENTRIES THEN x.cache
                      ELSE Append(x.cache, [base |-> x.base, type |-> type])
             y == [x EXCEPT !.type = type, !.vs = vs, !.cache = cache]
  <2>1. Converted(x) = y
    BY <1>3 DEF Converted, AdderSet
  <2>2. type \in Nat
    BY DEF BLE_UUID_TYPE_UNKNOWN, AdderSet
  <2>3. vs \in Seq(Bases)
    BY DEF AdderSet
  <2>4. cache \in Seq(UUIDSet) /\ Len(cache) <= UUID_TABLE_MAX_ENTRIES
    <3> HIDE DEF type
    <3>1. [base |-> x.base, type |-> type] \in UUIDSet
      BY <2>2 DEF AdderSet, UUIDSet
    <3>2. x.cache \in Seq(UUIDSet)
      BY DEF AdderSet
    <3>3. UUID_TABLE_MAX_ENTRIES \in Nat
      BY GattServerAssumption DEF GattServerAssumption
    <3> QED
      BY <3>1, <3>2, <3>3
  <2> HIDE DEF vs, type, cache
  <2>5. Kept(x, y)
    BY <2>2, <2>3, <2>4 DEF AdderSet, Kept
  <2> QED
    BY <2>1, <2>5
<1> QED
  BY <1>1, <1>2, <1>3

\* The counts of the driver are numbers.
LEMMA ServerCounts ==
  ASSUME NEW g \in ServerSet
  PROVE  g.characteristicCount \in Nat /\ g.descriptorCount \in Nat
BY DEF ServerSet

\* The descriptors that are added fit into both tables.
LEMMA DescriptorsAddedFits ==
  ASSUME NEW x \in AdderSet, NEW c \in Characteristics, NEW n \in Nat,
         Len(x.table) + n <= MaxAttributes, GattServerAssumption
  PROVE  /\ DescriptorsAdded(x, c, n) \in Nat
         /\ DescriptorsAdded(x, c, n) <= BLE_TOTAL_DESCRIPTORS - x.g.descriptorCount
         /\ DescriptorsAdded(x, c, n) <= MaxAttributes - Len(x.table) - n
<1> DEFINE a == Descriptors[c]
           b == BLE_TOTAL_DESCRIPTORS - x.g.descriptorCount
           d == MaxAttributes - Len(x.table) - n
<1>1. a \in Nat /\ b \in Nat /\ d \in Nat
  BY DEF AdderSet, ServerSet, GattServerAssumption
<1>2. DescriptorsAdded(x, c, n) = Min({a, b, d})
  BY DEF DescriptorsAdded
<1> HIDE DEF a, b, d
<1>3. \E m \in {a, b, d} : \A k \in {a, b, d} : m <= k
  BY <1>1
<1>4. Min({a, b, d}) \in {a, b, d} /\ \A k \in {a, b, d} : Min({a, b, d}) <= k
  BY <1>3 DEF Min
<1> QED
  BY <1>1, <1>2, <1>4 DEF b, d

\* The elements of two sequences, one after the other.
LEMMA Concatenation ==
  ASSUME NEW S, NEW a \in Seq(S), NEW b \in Seq(S)
  PROVE  /\ a \o b \in Seq(S) /\ Len(a \o b) = Len(a) + Len(b)
         /\ \A j \in 1 .. Len(a) : (a \o b)[j] = a[j]
         /\ \A j \in Len(a) + 1 .. Len(a) + Len(b) : (a \o b)[j] = b[j - Len(a)]
<1>1. a \o b \in Seq(S)
  OBVIOUS
<1>2. Len(a \o b) = Len(a) + Len(b)
  OBVIOUS
<1>3. \A j \in 1 .. Len(a) : (a \o b)[j] = a[j]
  OBVIOUS
<1>4. ASSUME NEW j \in Len(a) + 1 .. Len(a) + Len(b)
      PROVE  (a \o b)[j] = b[j - Len(a)]
  <2>1. j \in 1 .. Len(a) + Len(b) /\ ~ (j <= Len(a)) /\ Len(a) \in Nat /\ Len(b) \in Nat
    OBVIOUS
  <2> QED
    BY <2>1
<1> QED
  BY <1>1, <1>2, <1>3, <1>4

\* t became u when c was added with so many descriptors.
Grown(t, u, c, extra) ==
  LET n == Len(t) + 1
      m == n + (IF HasCCCD(c) THEN 1 ELSE 0)
  IN /\ u \in Seq(AttributeSet) /\ Len(u) = m + extra
     /\ \A j \in 1 .. Len(t) : u[j] = t[j]
     /\ u[n].kind = "value" /\ u[n].char = c
     /\ HasCCCD(c) => u[m].kind = "cccd" /\ u[m].char = c
     /\ \A j \in m + 1 .. Len(u) : u[j].kind = "descriptor"

\* Where the attributes of a characteristic come in the table.
LEMMA TableGrows ==
  ASSUME NEW t \in Seq(AttributeSet), NEW c \in Characteristics, NEW base \in Bases,
         NEW extra \in Nat, NEW u, u = WithAttributes(t, c, base, extra)
  PROVE  Grown(t, u, c, extra)
<1> DEFINE own == IF HasCCCD(c) THEN <<"cccd">> ELSE <<>>
           A == <<Attribute(c, "value", base)>>
           O == [k \in DOMAIN own |-> Attribute(c, own[k], ShortUUID)]
           E == [k \in 1 .. extra |-> Attribute(c, "descriptor", ShortUUID)]
<1>1. A \in Seq(AttributeSet) /\ Len(A) = 1 /\ A[1].kind = "value" /\ A[1].char = c
  BY DEF Attribute, AttributeSet
<1>2. ShortUUID \in Bases
  BY DEF Bases
<1>3. /\ O \in Seq(AttributeSet) /\ Len(O) = IF HasCCCD(c) THEN 1 ELSE 0
      /\ HasCCCD(c) => O[1].kind = "cccd" /\ O[1].char = c
  <2>1. CASE HasCCCD(c)
    <3>1. own = <<"cccd">> /\ DOMAIN own = 1 .. 1 /\ own[1] = "cccd"
      BY <2>1
    <3> HIDE DEF own
    <3>2. Attribute(c, "cccd", ShortUUID) \in AttributeSet
      BY <1>2 DEF Attribute, AttributeSet
    <3>3. O = [k \in 1 .. 1 |-> Attribute(c, "cccd", ShortUUID)]
      BY <3>1
    <3> HIDE DEF O
    <3> QED
      BY <2>1, <3>2, <3>3 DEF Attribute
  <2>2. CASE ~HasCCCD(c)
    <3>1. own = <<>> /\ DOMAIN own = 1 .. 0
      BY <2>2
    <3> HIDE DEF own
    <3> QED
      BY <2>2, <3>1
  <2> QED
    BY <2>1, <2>2
<1>4. /\ E \in Seq(AttributeSet) /\ Len(E) = extra
      /\ \A k \in 1 .. extra : E[k].kind = "descriptor"
  <2>1. Attribute(c, "descriptor", ShortUUID) \in AttributeSet
    BY <1>2 DEF Attribute, AttributeSet
  <2> QED
    BY <2>1 DEF Attribute
<1>5. u = t \o A \o O \o E
  BY DEF WithAttributes
<1> HIDE DEF own, A, O, E
<1> DEFINE B == t \o A
           D == B \o O
<1>6. B \in Seq(AttributeSet) /\ Len(B) = Len(t) + 1
      /\ (\A j \in 1 .. Len(t) : B[j] = t[j]) /\ B[Len(t) + 1] = A[1]
  <2>1. Len(t) + 1 \in Len(t) + 1 .. Len(t) + Len(A) /\ (Len(t) + 1) - Len(t) = 1
    BY <1>1
  <2> QED
    BY <1>1, <2>1, Concatenation
<1> HIDE DEF B
<1>7. D \in Seq(AttributeSet) /\ Len(D) = Len(B) + Len(O)
      /\ (\A j \in 1 .. Len(B) : D[j] = B[j])
      /\ (Len(O) = 1 => D[Len(B) + 1] = O[1])
  <2>1. Len(O) = 1 => Len(B) + 1 \in Len(B) + 1 .. Len(B) + Len(O) /\ (Len(B) + 1) - Len(B) = 1
    BY <1>6
  <2>2. D \in Seq(AttributeSet) /\ Len(D) = Len(B) + Len(O)
        /\ (\A j \in 1 .. Len(B) : D[j] = B[j])
        /\ \A j \in Len(B) + 1 .. Len(B) + Len(O) : D[j] = O[j - Len(B)]
    BY <1>3, <1>6, Concatenation
  <2> HIDE DEF D
  <2> QED
    BY <2>1, <2>2
<1> HIDE DEF D
<1>8. D \o E \in Seq(AttributeSet) /\ Len(D \o E) = Len(D) + extra
      /\ (\A j \in 1 .. Len(D) : (D \o E)[j] = D[j])
      /\ (\A j \in Len(D) + 1 .. Len(D) + extra : (D \o E)[j] = E[j - Len(D)])
  <2>1. D \o E \in Seq(AttributeSet) /\ Len(D \o E) = Len(D) + Len(E)
        /\ (\A j \in 1 .. Len(D) : (D \o E)[j] = D[j])
        /\ (\A j \in Len(D) + 1 .. Len(D) + Len(E) : (D \o E)[j] = E[j - Len(D)])
    <3>1. D \in Seq(AttributeSet) /\ E \in Seq(AttributeSet)
      BY <1>4, <1>7
    <3> QED
      BY <3>1, Concatenation
  <2>2. Len(E) = extra
    BY <1>4
  <2> QED
    BY <2>1, <2>2
<1>9. u = D \o E
  BY <1>5 DEF D, B
<1>10. Len(B) = Len(t) + 1 /\ Len(D) = Len(B) + Len(O) /\ Len(u) = Len(D) + extra
       /\ Len(t) \in Nat
  BY <1>6, <1>7, <1>8, <1>9
<1>11. u \in Seq(AttributeSet)
  BY <1>8, <1>9
<1>12. \A j \in 1 .. Len(t) : u[j] = t[j]
  BY <1>3, <1>6, <1>7, <1>8, <1>9, <1>10
<1>13. u[Len(t) + 1] = A[1]
  BY <1>3, <1>6, <1>7, <1>8, <1>9, <1>10
<1>14. HasCCCD(c) => u[Len(t) + 2] = O[1]
  BY <1>3, <1>6, <1>7, <1>8, <1>9, <1>10
<1>15. ASSUME NEW j \in Len(D) + 1 .. Len(u)
       PROVE  u[j].kind = "descriptor"
  <2>1. j - Len(D) \in 1 .. extra
    BY <1>3, <1>10
  <2> QED
    BY <2>1, <1>4, <1>8, <1>9, <1>10
<1> QED
  BY <1>1, <1>3, <1>10, <1>11, <1>12, <1>13, <1>14, <1>15 DEF Grown

Apart(g, c) == \A i \in 1 .. g.characteristicCount : g.p_characteristics[i] # c

\* A characteristic of a service is in no other service and only once in its own.
LEMMA NoneTwice ==
  ASSUME GattServerAssumption, NEW offered \in SUBSET Services, NEW s \in Services \ offered,
         NEW j \in Nat, j + 1 \in DOMAIN s.chars, NEW g, g.offered = offered, From(g, s, j)
  PROVE  Apart(g, s.chars[j + 1])
<1> SUFFICES ASSUME NEW i \in 1 .. g.characteristicCount
             PROVE  g.p_characteristics[i] # s.chars[j + 1]
  BY DEF Apart
<1>1. PICK p : p = g.p_characteristics[i]
  OBVIOUS
<1>2. (\E t \in offered : p \in Range(t.chars)) \/ (\E l \in 1 .. j : p = s.chars[l])
  BY <1>1 DEF From
<1>3. ASSUME NEW t \in offered, p \in Range(t.chars), p = s.chars[j + 1]
      PROVE  FALSE
  <2>1. PICK l \in DOMAIN t.chars : t.chars[l] = p
    BY <1>3 DEF Range
  <2>2. t = s
    BY <1>3, <2>1 DEF GattServerAssumption
  <2> QED
    BY <2>2
<1>4. ASSUME NEW l \in 1 .. j, p = s.chars[l], p = s.chars[j + 1]
      PROVE  FALSE
  <2>1. s.chars \in Seq(Characteristics)
    BY DEF GattServerAssumption
  <2>2. l \in DOMAIN s.chars /\ l # j + 1
    BY <2>1
  <2> QED
    BY <1>4, <2>2 DEF GattServerAssumption
<1> QED
  BY <1>1, <1>2, <1>3, <1>4

\* g became f when c was added with this handle.
Recorded(g, f, c, h) ==
  LET n == g.characteristicCount + 1
  IN /\ f \in ServerSet
     /\ f.characteristicCount = n /\ f.offered = g.offered
     /\ \A i \in 1 .. n - 1 :
          /\ f.p_characteristics[i] = g.p_characteristics[i]
          /\ f.nrfCharacteristicHandles[i] = g.nrfCharacteristicHandles[i]
     /\ f.p_characteristics[n] = c
     /\ f.nrfCharacteristicHandles[n]
          = [value |-> h, cccd |-> IF HasCCCD(c) THEN h + 1 ELSE 0]
     /\ f.valueHandle[c] = h
     /\ \A d \in Characteristics : d # c => f.valueHandle[d] = g.valueHandle[d]

\* What the driver keeps once it has registered a characteristic.
LEMMA RegisterFields ==
  ASSUME GattServerAssumption, NEW g \in ServerSet, NEW c \in Characteristics,
         NEW h \in 1 .. MaxAttributes, HasCCCD(c) => h + 1 <= MaxAttributes,
         NEW extra \in Nat, g.descriptorCount + extra <= BLE_TOTAL_DESCRIPTORS,
         g.characteristicCount < BLE_TOTAL_CHARACTERISTICS
  PROVE  Recorded(g, Register(g, c, h, extra), c, h)
<1> DEFINE f == Register(g, c, h, extra)
           n == g.characteristicCount + 1
           at == [value |-> h, cccd |-> IF HasCCCD(c) THEN h + 1 ELSE 0]
           P == [g.p_characteristics EXCEPT ![n] = c]
           N == [g.nrfCharacteristicHandles EXCEPT ![n] = at]
           V == [g.valueHandle EXCEPT ![c] = h]
<1>1. g.characteristicCount \in Nat /\ g.descriptorCount \in Nat
      /\ g.p_characteristics \in [1 .. BLE_TOTAL_CHARACTERISTICS -> Characteristics \cup {NoChar}]
      /\ g.nrfCharacteristicHandles \in [1 .. BLE_TOTAL_CHARACTERISTICS -> HandlesSet]
      /\ g.valueHandle \in [Characteristics -> 0 .. MaxAttributes]
      /\ BLE_TOTAL_CHARACTERISTICS \in Nat /\ BLE_TOTAL_DESCRIPTORS \in Nat
      /\ MaxAttributes \in Nat
  BY DEF ServerSet, GattServerAssumption
<1>2. n \in 1 .. BLE_TOTAL_CHARACTERISTICS /\ n - 1 \in Nat /\ n \notin 1 .. n - 1
  BY <1>1
<1>3. at \in HandlesSet
  BY <1>1 DEF HandlesSet
<1>4. f = [g EXCEPT !.characteristicCount = n, !.descriptorCount = g.descriptorCount + extra,
                    !.p_characteristics = P, !.nrfCharacteristicHandles = N,
                    !.valueHandle = V]
  BY DEF Register
<1> HIDE DEF at, f
<1>5. P \in [1 .. BLE_TOTAL_CHARACTERISTICS -> Characteristics \cup {NoChar}]
      /\ P[n] = c /\ \A i \in 1 .. n - 1 : P[i] = g.p_characteristics[i]
  BY <1>1, <1>2
<1>6. N \in [1 .. BLE_TOTAL_CHARACTERISTICS -> HandlesSet]
      /\ N[n] = at /\ \A i \in 1 .. n - 1 : N[i] = g.nrfCharacteristicHandles[i]
  BY <1>1, <1>2, <1>3
<1>7. V \in [Characteristics -> 0 .. MaxAttributes] /\ V[c] = h
      /\ \A d \in Characteristics : d # c => V[d] = g.valueHandle[d]
  BY <1>1
<1> HIDE DEF P, N, V
<1>8. g.descriptorCount + extra \in 0 .. BLE_TOTAL_DESCRIPTORS
  BY <1>1
<1> HIDE DEF n
<1>9. /\ f.characteristicCount = n /\ f.offered = g.offered
      /\ f.p_characteristics = P /\ f.nrfCharacteristicHandles = N /\ f.valueHandle = V
  BY <1>4 DEF ServerSet
<1>10. f \in ServerSet
  <2>1. P \in [1 .. BLE_TOTAL_CHARACTERISTICS -> Characteristics \cup {NoChar}]
    BY <1>5
  <2>2. N \in [1 .. BLE_TOTAL_CHARACTERISTICS -> HandlesSet]
    BY <1>6
  <2>3. V \in [Characteristics -> 0 .. MaxAttributes]
    BY <1>7
  <2>4. n \in 0 .. BLE_TOTAL_CHARACTERISTICS
    BY <1>1, <1>2
  <2> QED
    BY <1>4, <1>8, <2>1, <2>2, <2>3, <2>4 DEF ServerSet
<1> QED
  BY <1>5, <1>6, <1>7, <1>9, <1>10 DEF Recorded, n, at, f

\* The table stays within the room of the SoftDevice.
LEMMA GrownLength ==
  ASSUME NEW t \in Seq(AttributeSet), NEW u, NEW c, NEW extra \in Nat, Grown(t, u, c, extra),
         NEW M \in Nat, extra <= M - Len(t) - (IF HasCCCD(c) THEN 2 ELSE 1)
  PROVE  Len(u) <= M
<1>1. PICK own \in Nat : own = IF HasCCCD(c) THEN 2 ELSE 1
  OBVIOUS
<1>2. Len(u) = Len(t) + own + extra
  BY <1>1 DEF Grown
<1>3. Len(t) \in Nat /\ extra <= M - Len(t) - own
  BY <1>1
<1> QED
  BY <1>2, <1>3

\* The register stays one of the whole table when both grow.
LEMMA RegisterKeeps ==
  ASSUME NEW t \in Seq(AttributeSet), NEW u, NEW c \in Characteristics, NEW extra \in Nat,
         Grown(t, u, c, extra), NEW g \in ServerSet, NEW f, Recorded(g, f, c, Len(t) + 1),
         Registered(g, t), Complete(g, t),
         \A i \in 1 .. g.characteristicCount : g.p_characteristics[i] # c
  PROVE  Registered(f, u) /\ Complete(f, u)
<1> DEFINE n == g.characteristicCount
           h == Len(t) + 1
           m == h + (IF HasCCCD(c) THEN 1 ELSE 0)
<1>1. n \in Nat /\ Len(t) \in Nat
  BY DEF ServerSet
<1>2. /\ u \in Seq(AttributeSet) /\ Len(u) = m + extra
      /\ \A j \in 1 .. Len(t) : u[j] = t[j]
      /\ u[h].kind = "value" /\ u[h].char = c
      /\ HasCCCD(c) => u[m].kind = "cccd" /\ u[m].char = c
      /\ \A j \in m + 1 .. Len(u) : u[j].kind = "descriptor"
  BY DEF Grown
<1>3. /\ f.characteristicCount = n + 1
      /\ \A i \in 1 .. n :
           /\ f.p_characteristics[i] = g.p_characteristics[i]
           /\ f.nrfCharacteristicHandles[i] = g.nrfCharacteristicHandles[i]
      /\ f.p_characteristics[n + 1] = c
      /\ f.valueHandle[c] = h
      /\ \A d \in Characteristics : d # c => f.valueHandle[d] = g.valueHandle[d]
  <2>1. (n + 1) - 1 = n
    BY <1>1
  <2> QED
    BY <2>1 DEF Recorded
<1>4. /\ f.nrfCharacteristicHandles[n + 1].value = h
      /\ HasCCCD(c) => f.nrfCharacteristicHandles[n + 1].cccd = h + 1
      /\ ~HasCCCD(c) => f.nrfCharacteristicHandles[n + 1].cccd = 0
  BY DEF Recorded
<1>5. h \in 1 .. Len(u) /\ (HasCCCD(c) => m = h + 1 /\ h + 1 \in 1 .. Len(u))
      /\ \A j \in 1 .. Len(t) : j \in 1 .. Len(u)
  BY <1>1, <1>2
<1>6. Registered(f, u)
  <2> SUFFICES ASSUME NEW i \in 1 .. n + 1
               PROVE LET d == f.p_characteristics[i]
                         a == f.nrfCharacteristicHandles[i]
                     IN /\ d \in Characteristics
                        /\ f.valueHandle[d] = a.value
                        /\ a.value \in 1 .. Len(u)
                        /\ u[a.value].kind = "value" /\ u[a.value].char = d
                        /\ HasCCCD(d) => /\ a.cccd = a.value + 1 /\ a.cccd \in 1 .. Len(u)
                                         /\ u[a.cccd].kind = "cccd" /\ u[a.cccd].char = d
                        /\ ~HasCCCD(d) => a.cccd = 0
    BY <1>3 DEF Registered
  <2>1. CASE i \in 1 .. n
    <3> DEFINE d == g.p_characteristics[i]
               a == g.nrfCharacteristicHandles[i]
    <3>1. /\ d \in Characteristics /\ g.valueHandle[d] = a.value /\ a.value \in 1 .. Len(t)
          /\ t[a.value].kind = "value" /\ t[a.value].char = d
          /\ HasCCCD(d) => /\ a.cccd = a.value + 1 /\ a.cccd \in 1 .. Len(t)
                           /\ t[a.cccd].kind = "cccd" /\ t[a.cccd].char = d
          /\ ~HasCCCD(d) => a.cccd = 0
      BY <2>1 DEF Registered
    <3>2. f.p_characteristics[i] = d /\ f.nrfCharacteristicHandles[i] = a /\ d # c
      BY <1>3, <2>1
    <3>3. f.valueHandle[d] = g.valueHandle[d]
      BY <1>3, <3>1, <3>2
    <3> HIDE DEF d, a
    <3>4. u[a.value] = t[a.value] /\ a.value \in 1 .. Len(u)
      BY <1>2, <1>5, <3>1
    <3>5. HasCCCD(d) => u[a.cccd] = t[a.cccd] /\ a.cccd \in 1 .. Len(u)
      BY <1>2, <1>5, <3>1
    <3> QED
      BY <3>1, <3>2, <3>3, <3>4, <3>5
  <2>2. CASE i = n + 1
    BY <1>2, <1>3, <1>4, <1>5, <2>2
  <2> QED
    BY <1>1, <2>1, <2>2
<1>7. Complete(f, u)
  <2> SUFFICES ASSUME NEW j \in 1 .. Len(u)
               PROVE  /\ u[j].kind = "value" =>
                           \E i \in 1 .. n + 1 : f.nrfCharacteristicHandles[i].value = j
                      /\ u[j].kind = "cccd" =>
                           \E i \in 1 .. n + 1 : f.nrfCharacteristicHandles[i].cccd = j
    BY <1>3 DEF Complete
  <2>0. n + 1 \in 1 .. n + 1 /\ \A i \in 1 .. n : i \in 1 .. n + 1
    BY <1>1
  <2>1. CASE j \in 1 .. Len(t)
    <3>1. /\ t[j].kind = "value" => \E i \in 1 .. n : g.nrfCharacteristicHandles[i].value = j
          /\ t[j].kind = "cccd" => \E i \in 1 .. n : g.nrfCharacteristicHandles[i].cccd = j
      BY <2>1 DEF Complete
    <3>2. u[j] = t[j]
      BY <1>2, <2>1
    <3> QED
      BY <1>3, <2>0, <3>1, <3>2
  <2>2. CASE j = h
    BY <1>2, <1>4, <2>0, <2>2
  <2>3. CASE HasCCCD(c) /\ j = h + 1
    BY <1>2, <1>4, <1>5, <2>0, <2>3
  <2>4. CASE j \in m + 1 .. Len(u)
    BY <1>2, <2>4
  <2> QED
    BY <1>1, <1>2, <2>1, <2>2, <2>3, <2>4
<1> QED
  BY <1>6, <1>7

With(y, g, t, v) == [y EXCEPT !.g = g, !.table = t, !.err = v]

\* The fields of a round of addService.
LEMMA AdderFields ==
  ASSUME NEW y \in AdderSet, NEW g \in ServerSet, NEW t \in Seq(AttributeSet), NEW v \in Flags
  PROVE  LET r == With(y, g, t, v)
         IN r \in AdderSet /\ r.g = g /\ r.table = t /\ r.cache = y.cache
BY DEF With, AdderSet

\* The round that adds a characteristic.
LEMMA AdderAdds ==
  ASSUME GattServerAssumption, NEW x \in AdderSet, Len(x.cache) <= UUID_TABLE_MAX_ENTRIES,
         Registered(x.g, x.table), Complete(x.g, x.table),
         NEW c \in Characteristics, ~x.err, "incomplete" \notin Properties[c],
         x.g.characteristicCount < BLE_TOTAL_CHARACTERISTICS,
         Room(Converted(x), IF HasCCCD(c) THEN 2 ELSE 1),
         \A i \in 1 .. x.g.characteristicCount : x.g.p_characteristics[i] # c
  PROVE  LET r == AddCharacteristic(x, c)
         IN /\ r \in AdderSet
            /\ Len(r.table) <= MaxAttributes /\ Len(r.cache) <= UUID_TABLE_MAX_ENTRIES
            /\ Registered(r.g, r.table) /\ Complete(r.g, r.table)
            /\ Recorded(x.g, r.g, c, Len(x.table) + 1)
<1> DEFINE y == Converted(x)
           own == IF HasCCCD(c) THEN 2 ELSE 1
           extra == DescriptorsAdded(x, c, own)
           n == x.g.characteristicCount
           h == Len(x.table) + 1
           r == AddCharacteristic(x, c)
           b == Base(y.type, y.vs)
           t == WithAttributes(x.table, c, b, extra)
           e == extra < Descriptors[c]
           g == Register(x.g, c, h, extra)
<1>1. Kept(x, y)
  BY ConvertedKeeps
<1>2. r = [y EXCEPT !.g = Register(@, c, Len(y.table) + 1, extra),
                    !.table = WithAttributes(@, c, b, extra), !.err = e]
  <2>1. ~(n >= BLE_TOTAL_CHARACTERISTICS)
    BY ServerCounts DEF AdderSet, GattServerAssumption
  <2> QED
    BY <2>1 DEF AddCharacteristic
<1>3. Room(y, own)
  OBVIOUS
<1> HIDE DEF y, extra, b, e, r
<1>4. y \in AdderSet /\ y.g = x.g /\ y.table = x.table /\ Len(x.table) + own <= MaxAttributes
      /\ y.type - 1 \in 0 .. Len(y.vs) /\ Len(y.cache) <= UUID_TABLE_MAX_ENTRIES
  BY <1>1, <1>3 DEF Kept, Room
<1>5. PICK v \in Flags : r = With(y, g, t, v)
  <2>1. r = With(y, g, t, e)
    BY <1>2, <1>4 DEF AdderSet, With
  <2>2. e \in Flags
    BY DEF e, Flags
  <2> QED
    BY <2>1, <2>2
<1>6. b \in Bases
  <2>1. y.vs \in Seq(Bases) /\ y.type \in Nat
    BY <1>4 DEF AdderSet
  <2>2. ShortUUID \in Bases
    BY DEF Bases
  <2> QED
    BY <1>4, <2>1, <2>2 DEF Base, BLE_UUID_TYPE_BLE, b
<1>7. x.table \in Seq(AttributeSet) /\ x.g \in ServerSet
  BY DEF AdderSet
<1>8. n \in Nat /\ x.g.descriptorCount \in Nat
  BY <1>7, ServerCounts
<1>9. BLE_TOTAL_CHARACTERISTICS \in Nat /\ BLE_TOTAL_DESCRIPTORS \in Nat /\ MaxAttributes \in Nat
  BY DEF GattServerAssumption
<1>10. own \in {1, 2} /\ (HasCCCD(c) => own = 2) /\ Len(x.table) \in Nat
  BY <1>7
<1>11. extra \in Nat /\ extra <= BLE_TOTAL_DESCRIPTORS - x.g.descriptorCount
       /\ extra <= MaxAttributes - Len(x.table) - own
  BY <1>4, <1>10, DescriptorsAddedFits DEF extra
<1>12. Grown(x.table, t, c, extra)
  BY <1>6, <1>7, <1>11, TableGrows
<1>13. h \in 1 .. MaxAttributes /\ (HasCCCD(c) => h + 1 <= MaxAttributes)
       /\ x.g.descriptorCount + extra <= BLE_TOTAL_DESCRIPTORS
  <2>1. PICK k \in Nat : k = Len(x.table)
    BY <1>10
  <2>2. PICK d \in Nat : d = x.g.descriptorCount
    BY <1>8
  <2>3. k + own <= MaxAttributes /\ h = k + 1
    BY <1>4, <2>1 DEF h
  <2> HIDE DEF own, h
  <2>4. h \in 1 .. MaxAttributes /\ (HasCCCD(c) => h + 1 <= MaxAttributes)
    BY <1>9, <1>10, <2>1, <2>3
  <2>5. d + extra <= BLE_TOTAL_DESCRIPTORS
    <3>1. PICK m \in Nat : m = BLE_TOTAL_DESCRIPTORS
      BY <1>9
    <3>2. PICK f \in Nat : f = extra
      BY <1>11
    <3>3. f <= m - d
      BY <1>11, <2>2, <3>1, <3>2
    <3>4. d + f <= m
      BY <3>3
    <3> QED
      BY <3>1, <3>2, <3>4
  <2> QED
    BY <2>2, <2>4, <2>5
<1>14. Recorded(x.g, g, c, h)
  BY <1>7, <1>11, <1>13, RegisterFields
<1> HIDE DEF g, t
<1>15. Registered(g, t) /\ Complete(g, t)
  BY <1>7, <1>11, <1>12, <1>14, RegisterKeeps
<1>16. g \in ServerSet
  BY <1>14 DEF Recorded
<1>17. t \in Seq(AttributeSet)
  BY <1>12 DEF Grown
<1>18. Len(t) <= MaxAttributes
  BY <1>7, <1>9, <1>11, <1>12, GrownLength
<1>19. r \in AdderSet /\ r.g = g /\ r.table = t /\ r.cache = y.cache
  <2>1. y \in AdderSet
    BY <1>1 DEF Kept
  <2>2. t \in Seq(AttributeSet)
    BY <1>12 DEF Grown
  <2> QED
    BY <1>5, <1>16, <2>1, <2>2, AdderFields
<1>20. /\ r \in AdderSet
       /\ Len(r.table) <= MaxAttributes /\ Len(r.cache) <= UUID_TABLE_MAX_ENTRIES
       /\ Registered(r.g, r.table) /\ Complete(r.g, r.table)
       /\ Recorded(x.g, r.g, c, h)
  <2>1. r \in AdderSet
    BY <1>19
  <2>2. Len(r.table) <= MaxAttributes /\ Len(r.cache) <= UUID_TABLE_MAX_ENTRIES
    BY <1>4, <1>18, <1>19
  <2>3. Registered(r.g, r.table) /\ Complete(r.g, r.table)
    BY <1>15, <1>19
  <2>4. Recorded(x.g, r.g, c, h)
    BY <1>14, <1>19
  <2> QED
    BY <2>1, <2>2, <2>3, <2>4
<1> QED
  BY <1>20 DEF r

\* Every round keeps the registers, whether it adds, skips or fails.
LEMMA AdderStep ==
  ASSUME GattServerAssumption, NEW offered \in SUBSET Services, NEW s \in Services \ offered,
         NEW j \in Nat, j + 1 \in DOMAIN s.chars, NEW x, AdderInv(x, offered, s, j)
  PROVE  AdderInv(AddCharacteristic(x, s.chars[j + 1]), offered, s, j + 1)
<1>1. PICK c \in Characteristics : c = s.chars[j + 1]
  <2>1. s.chars \in Seq(Characteristics)
    BY DEF GattServerAssumption
  <2> QED
    BY <2>1
<1>2. /\ x \in AdderSet /\ Len(x.table) <= MaxAttributes
      /\ Len(x.cache) <= UUID_TABLE_MAX_ENTRIES
      /\ Registered(x.g, x.table) /\ Complete(x.g, x.table)
      /\ x.g.offered = offered /\ From(x.g, s, j)
  BY DEF AdderInv
<1>3. \A i \in 1 .. x.g.characteristicCount : x.g.p_characteristics[i] # c
  <2>1. PICK g : g = x.g
    OBVIOUS
  <2>2. g.offered = offered /\ From(g, s, j)
    BY <1>2, <2>1
  <2>3. Apart(g, s.chars[j + 1])
    BY <2>2, NoneTwice
  <2> QED
    BY <1>1, <2>1, <2>3 DEF Apart
<1>4. ASSUME NEW g, From(g, s, j)
      PROVE  From(g, s, j + 1)
  <2>1. \A l \in 1 .. j : l \in 1 .. j + 1
    OBVIOUS
  <2> QED
    BY <1>4, <2>1 DEF From
<1> DEFINE y == Converted(x)
           own == IF HasCCCD(c) THEN 2 ELSE 1
           r == AddCharacteristic(x, c)
<1>5. Kept(x, y)
  BY <1>2, ConvertedKeeps
<1>6. AdderInv(x, offered, s, j + 1) /\ AdderInv(y, offered, s, j + 1)
  BY <1>2, <1>4, <1>5 DEF AdderInv, Kept
<1> HIDE DEF y
<1>7. ASSUME NEW z, AdderInv(z, offered, s, j + 1)
      PROVE  AdderInv([z EXCEPT !.err = TRUE], offered, s, j + 1)
  BY <1>7 DEF AdderInv, AdderSet, Flags
<1>8. CASE \/ x.err
           \/ /\ "incomplete" \in Properties[c]
              /\ ~(x.g.characteristicCount >= BLE_TOTAL_CHARACTERISTICS)
  BY <1>1, <1>6, <1>8 DEF AddCharacteristic
<1>9. CASE /\ ~x.err
           /\ x.g.characteristicCount >= BLE_TOTAL_CHARACTERISTICS
  <2>1. r = [x EXCEPT !.err = TRUE]
    BY <1>9 DEF AddCharacteristic
  <2> QED
    BY <1>1, <1>6, <1>7, <2>1
<1>10. CASE /\ ~(x.err \/ "incomplete" \in Properties[c])
            /\ ~(x.g.characteristicCount >= BLE_TOTAL_CHARACTERISTICS) /\ ~Room(y, own)
  <2>1. r = [y EXCEPT !.err = TRUE]
    BY <1>10 DEF AddCharacteristic, y
  <2> QED
    BY <1>1, <1>6, <1>7, <2>1
<1>11. CASE /\ ~(x.err \/ "incomplete" \in Properties[c])
            /\ ~(x.g.characteristicCount >= BLE_TOTAL_CHARACTERISTICS) /\ Room(y, own)
  <2> DEFINE n == x.g.characteristicCount
  <2>1. n \in Nat /\ BLE_TOTAL_CHARACTERISTICS \in Nat
    BY <1>2, ServerCounts DEF AdderSet, GattServerAssumption
  <2>2. n < BLE_TOTAL_CHARACTERISTICS /\ Room(Converted(x), own)
    BY <1>11, <2>1 DEF y
  <2>3. /\ r \in AdderSet
        /\ Len(r.table) <= MaxAttributes /\ Len(r.cache) <= UUID_TABLE_MAX_ENTRIES
        /\ Registered(r.g, r.table) /\ Complete(r.g, r.table)
        /\ Recorded(x.g, r.g, c, Len(x.table) + 1)
    BY <1>2, <1>3, <1>11, <2>2, AdderAdds
  <2> HIDE DEF r
  <2>4. /\ r.g.characteristicCount = n + 1 /\ r.g.offered = offered
        /\ r.g.p_characteristics[n + 1] = s.chars[j + 1]
        /\ \A i \in 1 .. n : r.g.p_characteristics[i] = x.g.p_characteristics[i]
    <3>1. (n + 1) - 1 = n
      BY <2>1
    <3> QED
      BY <1>1, <1>2, <2>3, <3>1 DEF Recorded
  <2>5. From(r.g, s, j + 1)
    <3> SUFFICES ASSUME NEW i \in 1 .. n + 1
                 PROVE  \/ \E t \in offered : r.g.p_characteristics[i] \in Range(t.chars)
                        \/ \E l \in 1 .. j + 1 : r.g.p_characteristics[i] = s.chars[l]
      BY <2>4 DEF From
    <3>1. CASE i = n + 1
      BY <2>4, <3>1, j + 1 \in 1 .. j + 1
    <3>2. CASE i \in 1 .. n
      <4>1. From(x.g, s, j + 1)
        BY <1>2, <1>4
      <4> QED
        BY <1>2, <2>4, <3>2, <4>1 DEF From
    <3>3. \A k \in Nat : \A l \in 1 .. k + 1 : l = k + 1 \/ l \in 1 .. k
      OBVIOUS
    <3>4. i = n + 1 \/ i \in 1 .. n
      BY ONLY <2>1, <3>3, i \in 1 .. n + 1
    <3> QED
      BY <3>1, <3>2, <3>4
  <2>6. AdderInv(r, offered, s, j + 1)
    BY <2>3, <2>4, <2>5 DEF AdderInv
  <2> QED
    BY <1>1, <2>6 DEF r
<1> QED
  BY <1>8, <1>9, <1>10, <1>11

\* The loop over the characteristics of a service keeps the registers.
LEMMA AllRounds ==
  ASSUME GattServerAssumption, NEW offered \in SUBSET Services, NEW s \in Services \ offered,
         NEW x, AdderInv(x, offered, s, 0)
  PROVE  AdderInv(FoldLeft(AddCharacteristic, x, s.chars), offered, s, Len(s.chars))
<1>1. PICK n \in Nat : n = Len(s.chars) /\ DOMAIN s.chars = 1 .. n
  <2>1. s.chars \in Seq(Characteristics)
    BY DEF GattServerAssumption
  <2> QED
    BY <2>1
<1>2. PICK z : /\ Adding!Runs(z, x, s.chars, n)
               /\ FoldLeft(AddCharacteristic, x, s.chars) = z[n]
  <2>1. \E z : /\ Adding!Runs(z, x, s.chars, n)
               /\ Adding!FoldLeft(AddCharacteristic, x, s.chars) = z[n]
    BY ONLY <1>1, Adding!FoldRuns, SMTT(30)
  <2> QED
    BY <2>1 DEF FoldLeft, MapThenFoldSet, Max, Adding!FoldLeft, Adding!MapThenFoldSet,
                Adding!Max
<1> DEFINE S == {k \in Nat : k <= n => AdderInv(z[k], offered, s, k)}
<1>3. 0 \in S
  BY <1>2 DEF Adding!Runs
<1>4. ASSUME NEW k \in Nat, k \in S
      PROVE  k + 1 \in S
  <2> SUFFICES ASSUME k + 1 <= n
               PROVE  AdderInv(z[k + 1], offered, s, k + 1)
    OBVIOUS
  <2>1. k + 1 \in 1 .. n /\ (k + 1) - 1 = k /\ AdderInv(z[k], offered, s, k)
    BY <1>4
  <2>2. z[k + 1] = AddCharacteristic(z[k], s.chars[k + 1])
    BY <1>2, <2>1 DEF Adding!Runs
  <2>3. AdderInv(AddCharacteristic(z[k], s.chars[k + 1]), offered, s, k + 1)
    BY <1>1, <2>1, AdderStep
  <2> QED
    BY <2>2, <2>3
<1>5. \A k \in Nat : k \in S
  <2> HIDE DEF S
  <2> QED
    BY <1>3, <1>4, Adding!Induction
<1> QED
  BY <1>1, <1>2, <1>5

\* Two registers that say the same of characteristics.
Alike(f, g) ==
  /\ f.characteristicCount = g.characteristicCount
  /\ f.p_characteristics = g.p_characteristics
  /\ f.nrfCharacteristicHandles = g.nrfCharacteristicHandles
  /\ f.valueHandle = g.valueHandle

\* The register does not depend on the other fields of the driver.
LEMMA AlikeSound ==
  ASSUME NEW f, NEW g, NEW t, Alike(f, g), Registered(g, t), Complete(g, t)
  PROVE  Registered(f, t) /\ Complete(f, t)
BY DEF Alike, Registered, Complete

\* The end of addService.
Offered(g, n, cache, s) ==
  [g EXCEPT !.serviceCount = n, !.convertedUUIDTable = cache, !.offered = @ \cup {s}]

\* The fields of the driver after addService.
LEMMA OfferedFields ==
  ASSUME NEW g \in ServerSet, NEW n \in Nat, NEW cache \in Seq(UUIDSet), NEW s \in Services
  PROVE  /\ Offered(g, n, cache, s) \in ServerSet
         /\ Offered(g, n, cache, s).convertedUUIDTable = cache
         /\ Offered(g, n, cache, s).offered = g.offered \cup {s}
         /\ Alike(Offered(g, n, cache, s), g)
<1> DEFINE f == Offered(g, n, cache, s)
<1>1. f = [g EXCEPT !.serviceCount = n, !.convertedUUIDTable = cache,
                    !.offered = g.offered \cup {s}]
  BY DEF Offered
<1> HIDE DEF f
<1>2. g.offered \cup {s} \in SUBSET Services
  BY DEF ServerSet
<1>3. f \in ServerSet
  BY <1>1, <1>2 DEF ServerSet
<1>4. f.convertedUUIDTable = cache /\ f.offered = g.offered \cup {s}
  BY <1>1 DEF ServerSet
<1>5. Alike(f, g)
  BY <1>1 DEF ServerSet, Alike
<1> QED
  BY <1>3, <1>4, <1>5 DEF f

\* What addService leaves is sound, also when it fails.
LEMMA OfferedSound ==
  ASSUME GattServerAssumption, NEW offered \in SUBSET Services, NEW s \in Services \ offered,
         NEW z, AdderInv(z, offered, s, Len(s.chars)), NEW n \in Nat
  PROVE  Sound(Offered(z.g, n, z.cache, s), z.table, z.vs)
<1> DEFINE f == Offered(z.g, n, z.cache, s)
<1>1. /\ z.g \in ServerSet /\ z.table \in Seq(AttributeSet) /\ z.vs \in Seq(Bases)
      /\ z.cache \in Seq(UUIDSet)
      /\ Len(z.table) <= MaxAttributes /\ Len(z.cache) <= UUID_TABLE_MAX_ENTRIES
      /\ Registered(z.g, z.table) /\ Complete(z.g, z.table)
      /\ z.g.offered = offered /\ From(z.g, s, Len(s.chars))
  BY DEF AdderInv, AdderSet
<1>2. PICK g \in ServerSet : g = z.g
  BY <1>1
<1>3. f = Offered(g, n, z.cache, s)
  BY <1>2
<1> HIDE DEF f
<1>4. f \in ServerSet /\ f.convertedUUIDTable = z.cache /\ f.offered = offered \cup {s}
      /\ Alike(f, g)
  <2>1. PICK cache \in Seq(UUIDSet) : cache = z.cache
    BY <1>1
  <2>2. /\ Offered(g, n, cache, s) \in ServerSet
        /\ Offered(g, n, cache, s).convertedUUIDTable = cache
        /\ Offered(g, n, cache, s).offered = g.offered \cup {s}
        /\ Alike(Offered(g, n, cache, s), g)
    BY OfferedFields
  <2>3. f = Offered(g, n, cache, s) /\ g.offered = offered
    BY <1>1, <1>2, <1>3, <2>1
  <2> QED
    BY <2>1, <2>2, <2>3
<1>5. Registered(f, z.table) /\ Complete(f, z.table)
  BY <1>1, <1>2, <1>4, AlikeSound
<1>6. ASSUME NEW i \in 1 .. f.characteristicCount
      PROVE  \E t \in f.offered : f.p_characteristics[i] \in Range(t.chars)
  <2>1. i \in 1 .. g.characteristicCount /\ f.p_characteristics[i] = g.p_characteristics[i]
    BY <1>4 DEF Alike
  <2>2. \/ \E t \in offered : g.p_characteristics[i] \in Range(t.chars)
        \/ \E j \in 1 .. Len(s.chars) : g.p_characteristics[i] = s.chars[j]
    BY <1>1, <1>2, <2>1 DEF From
  <2>3. \A j \in 1 .. Len(s.chars) : s.chars[j] \in Range(s.chars)
    <3>1. s.chars \in Seq(Characteristics)
      BY DEF GattServerAssumption
    <3> QED
      BY <3>1 DEF Range
  <2> QED
    BY <1>4, <2>1, <2>2, <2>3
<1>7. Sound(f, z.table, z.vs)
  BY <1>1, <1>4, <1>5, <1>6 DEF Sound
<1> QED
  BY <1>7 DEF f

\* addService keeps the register of the table.
LEMMA ServiceKeepsTable ==
  ASSUME GattServerAssumption, TableInv, AddService
  PROVE  TableInv'
<1>1. PICK s \in Services \ server.offered :
        LET start == [g |-> server, table |-> table, vs |-> vsBases, type |-> 0, err |-> FALSE,
                      cache |-> server.convertedUUIDTable, base |-> s.base]
            x == Converted(start)
            known == Room(x, 0)
            y == FoldLeft(AddCharacteristic, x, s.chars)
            end == IF known THEN y ELSE x
        IN /\ server' = [end.g EXCEPT !.serviceCount = IF known /\ ~end.err THEN @ + 1 ELSE @,
                                      !.convertedUUIDTable = end.cache,
                                      !.offered = @ \cup {s}]
           /\ table' = end.table
           /\ vsBases' = end.vs
  BY DEF AddService
<1> DEFINE start == [g |-> server, table |-> table, vs |-> vsBases, type |-> 0, err |-> FALSE,
                     cache |-> server.convertedUUIDTable, base |-> s.base]
           x == Converted(start)
           y == FoldLeft(AddCharacteristic, x, s.chars)
           end == IF Room(x, 0) THEN y ELSE x
           offered == server.offered
<1>2. AdderInv(start, offered, s, 0)
  <2>1. /\ server \in ServerSet /\ table \in Seq(AttributeSet) /\ vsBases \in Seq(Bases)
        /\ s.base \in Bases
    BY DEF TableInv, Sound, Bases
  <2>2. start \in AdderSet
    <3>1. server.convertedUUIDTable \in Seq(UUIDSet)
      BY <2>1 DEF ServerSet
    <3>2. FALSE \in Flags /\ 0 \in Nat
      BY DEF Flags
    <3> QED
      BY <2>1, <3>1, <3>2 DEF AdderSet
  <2>3. From(server, s, 0)
    BY DEF TableInv, Sound, From
  <2> QED
    BY <2>2, <2>3 DEF AdderInv, TableInv, Sound
<1> HIDE DEF start
<1>3. AdderInv(x, offered, s, 0)
  <2>1. Kept(start, x)
    BY <1>2, ConvertedKeeps DEF AdderInv
  <2> QED
    BY <1>2, <2>1 DEF AdderInv, Kept
<1> HIDE DEF x
<1>4. offered \in SUBSET Services
  BY DEF TableInv, Sound, ServerSet
<1>5. AdderInv(y, offered, s, Len(s.chars))
  BY <1>3, <1>4, AllRounds
<1>6. AdderInv(x, offered, s, Len(s.chars))
  <2>1. From(x.g, s, Len(s.chars))
    <3>1. \A l \in 1 .. 0 : FALSE
      OBVIOUS
    <3> QED
      BY <1>3, <3>1 DEF AdderInv, From
  <2> QED
    BY <1>3, <2>1 DEF AdderInv
<1> HIDE DEF y
<1>7. AdderInv(end, offered, s, Len(s.chars))
  BY <1>5, <1>6
<1>8. PICK n \in Nat : server' = Offered(end.g, n, end.cache, s)
  <2> DEFINE n == IF Room(x, 0) /\ ~end.err THEN end.g.serviceCount + 1 ELSE end.g.serviceCount
  <2>1. n \in Nat
    BY <1>7 DEF AdderInv, AdderSet, ServerSet
  <2>2. server' = [end.g EXCEPT !.serviceCount = IF Room(x, 0) /\ ~end.err THEN @ + 1 ELSE @,
                                !.convertedUUIDTable = end.cache,
                                !.offered = @ \cup {s}]
    BY <1>1 DEF x, y, start
  <2>3. server' = Offered(end.g, n, end.cache, s)
    BY <2>2 DEF Offered
  <2> HIDE DEF n
  <2> QED
    BY <2>1, <2>3
<1>9. table' = end.table /\ vsBases' = end.vs
  BY <1>1 DEF x, y, start
<1> HIDE DEF end
<1>10. Sound(server', table', vsBases')
  BY <1>4, <1>7, <1>8, <1>9, OfferedSound
<1> QED
  BY <1>10 DEF TableInv

\* After the reset of both there is nothing to register.
LEMMA ResetSound ==
  ASSUME GattServerAssumption, NEW g, NEW t, NEW vs, Sound(g, t, vs)
  PROVE  Sound(Reset(g), <<>>, <<>>)
<1> DEFINE f == Reset(g)
           N == [i \in DOMAIN g.nrfCharacteristicHandles |->
                   IF i = 1 THEN [value |-> 0, cccd |-> 0] ELSE g.nrfCharacteristicHandles[i]]
<1>1. g \in ServerSet
  BY DEF Sound
<1>2. g.nrfCharacteristicHandles \in [1 .. BLE_TOTAL_CHARACTERISTICS -> HandlesSet]
  BY <1>1 DEF ServerSet
<1>3. N \in [1 .. BLE_TOTAL_CHARACTERISTICS -> HandlesSet]
  <2>1. [value |-> 0, cccd |-> 0] \in HandlesSet
    BY DEF HandlesSet, GattServerAssumption
  <2> QED
    BY <1>2, <2>1
<1>4. Server.p_characteristics \in [1 .. BLE_TOTAL_CHARACTERISTICS -> Characteristics \cup {NoChar}]
  BY DEF Server
<1>5. f = [g EXCEPT !.serviceCount = 0, !.characteristicCount = 0, !.descriptorCount = 0,
                    !.p_characteristics = Server.p_characteristics,
                    !.nrfCharacteristicHandles = N, !.offered = {}]
  BY DEF Reset
<1> HIDE DEF f, N
<1>6. 0 \in 0 .. BLE_TOTAL_CHARACTERISTICS /\ 0 \in 0 .. BLE_TOTAL_DESCRIPTORS
  BY DEF GattServerAssumption
<1>7. f \in ServerSet /\ f.characteristicCount = 0
      /\ f.convertedUUIDTable = g.convertedUUIDTable
  BY <1>1, <1>3, <1>4, <1>5, <1>6 DEF ServerSet
<1>8. Registered(f, <<>>) /\ Complete(f, <<>>)
  BY <1>7 DEF Registered, Complete
<1>9. <<>> \in Seq(AttributeSet) /\ <<>> \in Seq(Bases) /\ Len(<<>>) <= MaxAttributes
  BY DEF GattServerAssumption
<1>10. Sound(f, <<>>, <<>>)
  BY <1>7, <1>8, <1>9 DEF Sound
<1> QED
  BY <1>10 DEF f

(***************************************************************************)
(* Every step keeps TableInv, from which the handles resolve.              *)
(***************************************************************************)

\* Only addService and a reset touch the table and the register.
LEMMA TableStays ==
  ASSUME [Next]_vars, ~AddService, ~Shutdown
  PROVE  UNCHANGED <<server, table, vsBases>>
<1>1. CASE StartAdvertising \/ Connect \/ SoftDeviceResumes \/ CentralConfirms \/ LinkLost
           \/ UNCHANGED vars
  BY <1>1 DEF StartAdvertising, Connect, SoftDeviceResumes, CentralConfirms, LinkLost, vars,
              sdVars
<1>2. CASE hwCallback
  <2>1. PICK ev : \/ HandleConnected(ev) \/ HandleDisconnected(ev)
                  \/ HandleSubscription(ev) \/ HandleDataWritten(ev)
                  \/ HandleSysAttrMissing(ev) \/ HandleAuthorizeWrite(ev)
                  \/ HandleAuthorizeRead(ev) \/ HandleConfirmation(ev) \/ HandleDataSent(ev)
    BY <1>2 DEF hwCallback
  <2>2. UNCHANGED server
    BY <1>2 DEF hwCallback
  <2> QED
    BY <2>1, <2>2 DEF HandleConnected, HandleDisconnected, HandleSubscription,
       HandleDataWritten, HandleSysAttrMissing, HandleAuthorizeWrite, HandleAuthorizeRead,
       HandleConfirmation, HandleDataSent, sdVars
<1>3. ASSUME NEW c, NEW v, NEW localOnly, Write(c, v, localOnly)
      PROVE  UNCHANGED <<server, table, vsBases>>
  BY <1>3 DEF Write
<1>4. ASSUME NEW h, NEW v, CentralWrites(h, v) \/ CentralAsks(h, v)
      PROVE  UNCHANGED <<server, table, vsBases>>
  BY <1>4 DEF CentralWrites, CentralAsks, sdVars
<1>5. ASSUME NEW h, NEW bits, CentralSubscribes(h, bits)
      PROVE  UNCHANGED <<server, table, vsBases>>
  BY <1>5 DEF CentralSubscribes
<1>6. ASSUME NEW n, RadioSends(n)
      PROVE  UNCHANGED <<server, table, vsBases>>
  BY <1>6 DEF RadioSends, sdVars
<1> QED
  BY <1>1, <1>2, <1>3, <1>4, <1>5, <1>6 DEF Next

\* The driver starts with an empty register of an empty table.
LEMMA TableInit ==
  ASSUME GattServerAssumption, Init
  PROVE  TableInv
<1>1. server = Server /\ table = <<>> /\ vsBases = <<>>
  BY DEF Init
<1>2. [value |-> 0, cccd |-> 0] \in HandlesSet
  BY DEF HandlesSet, GattServerAssumption
<1>3. Server \in ServerSet /\ Server.characteristicCount = 0 /\ Server.convertedUUIDTable = <<>>
  BY <1>2 DEF Server, ServerSet, GattServerAssumption
<1>4. Registered(Server, <<>>) /\ Complete(Server, <<>>)
  BY <1>3 DEF Registered, Complete
<1>5. <<>> \in Seq(AttributeSet) /\ <<>> \in Seq(Bases) /\ Len(<<>>) <= MaxAttributes
      /\ Len(<<>>) <= UUID_TABLE_MAX_ENTRIES
  BY DEF GattServerAssumption
<1> QED
  BY <1>1, <1>3, <1>4, <1>5 DEF TableInv, Sound

\* Every step keeps the register of the table.
LEMMA TableStep ==
  ASSUME GattServerAssumption, TableInv, [Next]_vars
  PROVE  TableInv'
<1>1. CASE AddService
  BY <1>1, ServiceKeepsTable
<1>2. CASE Shutdown
  BY <1>2, ResetSound DEF Shutdown, TableInv
<1>3. CASE ~AddService /\ ~Shutdown
  BY <1>3, TableStays DEF TableInv
<1> QED
  BY <1>1, <1>2, <1>3

\* The search for a handle ends at the first that has it, or finds none.
LEMMA Resolves ==
  ASSUME TableInv, NEW field \in {"value", "cccd"}, NEW h
  PROVE  LET C == server.characteristicCount
             N == server.nrfCharacteristicHandles
             i == Resolve(h, field)
         IN \/ i = 0 /\ \A j \in 1 .. C : N[j][field] # h
            \/ i # 0 /\ i \in 1 .. C /\ N[i][field] = h
<1> DEFINE found == {i \in 1 .. server.characteristicCount :
                       server.nrfCharacteristicHandles[i][field] = h}
<1>1. found \in SUBSET Nat
  BY DEF TableInv, Sound, ServerSet
<1>2. CASE found = {}
  BY <1>2 DEF Resolve
<1>3. CASE found # {}
  <2>1. \E i \in found : \A j \in found : i <= j
    BY <1>1, <1>3, Adding!Least
  <2>2. Resolve(h, field) \in found
    BY <1>3, <2>1 DEF Resolve
  <2> HIDE DEF found
  <2>3. Resolve(h, field) \in 1 .. server.characteristicCount
        /\ server.nrfCharacteristicHandles[Resolve(h, field)][field] = h
    BY <2>2 DEF found
  <2>4. server.characteristicCount \in Nat
    BY DEF TableInv, Sound, ServerSet
  <2> QED
    BY <2>3, <2>4
<1> QED
  BY <1>2, <1>3

\* A handle of the table has the characteristic it was added for.
LEMMA TableResolves ==
  ASSUME GattServerAssumption, TableInv
  PROVE  HandlesResolve
<1> SUFFICES ASSUME NEW h \in 1 .. Len(table)
    PROVE /\ ValueIndex(h) # 0 => Char(ValueIndex(h)) = table[h].char
          /\ CCCDIndex(h) # 0 => Char(CCCDIndex(h)) = table[h].char
          /\ (ValueIndex(h) # 0) = (table[h].kind = "value")
          /\ (CCCDIndex(h) # 0) = (table[h].kind = "cccd")
  BY DEF HandlesResolve
<1>1. Registered(server, table) /\ Complete(server, table)
  BY DEF TableInv, Sound
<1>2. table[h].kind = "value" => ValueIndex(h) # 0
  BY <1>1, Resolves DEF Complete, ValueIndex
<1>3. table[h].kind = "cccd" => CCCDIndex(h) # 0
  BY <1>1, Resolves DEF Complete, CCCDIndex
<1>4. ValueIndex(h) # 0 => /\ Char(ValueIndex(h)) = table[h].char
                           /\ table[h].kind = "value"
  BY <1>1, Resolves DEF Registered, ValueIndex, Char
<1>5. CCCDIndex(h) # 0 => /\ Char(CCCDIndex(h)) = table[h].char
                          /\ table[h].kind = "cccd"
  <2> SUFFICES ASSUME NEW i, i = CCCDIndex(h), i # 0
               PROVE  Char(i) = table[h].char /\ table[h].kind = "cccd"
    OBVIOUS
  <2>1. i \in 1 .. server.characteristicCount /\ server.nrfCharacteristicHandles[i].cccd = h
    BY Resolves DEF CCCDIndex
  <2>2. h # 0
    OBVIOUS
  <2> QED
    BY <1>1, <2>1, <2>2 DEF Registered, Char
<1> QED
  BY <1>2, <1>3, <1>4, <1>5

\* Every value and every CCCD of the table resolves to the characteristic it was
\* added for, and no other handle to any, whatever services fail and whatever a
\* reset leaves in nrfCharacteristicHandles (nRF5xGattServer.h:55-80).
THEOREM HandlesAlwaysResolve == Spec => []HandlesResolve
<1>1. GattServerAssumption
  BY GattServerAssumption
<1>2. Init => TableInv
  BY <1>1, TableInit
<1>3. TableInv /\ [Next]_vars => TableInv'
  BY <1>1, TableStep
<1>4. TableInv => HandlesResolve
  BY <1>1, TableResolves
<1> QED
  BY <1>2, <1>3, <1>4, PTL DEF Spec

(***************************************************************************)
(* The queue of events: what its events carry, where the first and the last *)
(* event of a connection stand in it, and which subscriptions it still holds. *)
(***************************************************************************)

Payload == Nat \cup Values \cup CCCDValues
EventTypes == {"connected", "disconnected", "write", "authorize_write", "authorize_read",
               "sys_attr_missing", "tx_complete", "hvc"}
EventSet == [type : EventTypes, handle : Nat, data : Payload]

\* What an event carries.
Carries(e) ==
  /\ e.type = "write" => \/ e.handle \in Attributes("value") /\ e.data \in Values
                         \/ e.handle \in Attributes("descriptor") /\ e.data \in Values
                         \/ e.handle \in Attributes("cccd") /\ e.data \in CCCDValues
  /\ e.type = "authorize_write" => e.data \in Values
  /\ e.type = "tx_complete" => e.data \in 1 .. TxBuffers

\* The queue q holds the beginning of a connection until the driver has heard of
\* it (m), and its end once the SoftDevice has lost it (l).
Protocol(q, l, m) ==
  /\ l = "advertising" => q = <<>>
  /\ q = <<>> => (m <=> l = "connected")
  /\ q # <<>> => /\ m <=> q[1].type # "connected"
                 /\ l = "off" <=> q[Len(q)].type = "disconnected"
  /\ \A i \in 1 .. Len(q) : /\ q[i].type = "connected" => i = 1
                            /\ q[i].type = "disconnected" => i = Len(q)

LinkInv ==
  /\ link \in {"off", "advertising", "connected"} /\ m_connectionHandle \in BOOLEAN
  /\ queue \in Seq(EventSet)
  /\ Len(queue) <= IF link = "connected" THEN MaxEvents ELSE MaxEvents + 1
  /\ Protocol(queue, link, m_connectionHandle)
  /\ ~m_connectionHandle => heard = {}

CarriesInv == \A i \in 1 .. Len(queue) : Carries(queue[i])
\* The request has all its fields.
Whole(p) == \E k, h, d, r : p = [kind |-> k, handle |-> h, data |-> d, refused |-> r]
PendingInv ==
  /\ Whole(pending)
  /\ link # "connected" => tx = 0 /\ indicated = 0 /\ pending.kind = "none"
  /\ pending.kind = "cccd" =>
       pending.handle \in Attributes("cccd") /\ pending.data \in CCCDValues

\* The writes to k in the queue q.
WritesTo(q, k) == {i \in 1 .. Len(q) : q[i].type = "write" /\ q[i].handle = k}

\* The last write to k in q, if there is one, has the data d.
Latest(q, k, d) ==
  \A i \in WritesTo(q, k) : (\A j \in WritesTo(q, k) : j <= i) => q[i].data = d

\* The last write in q to the CCCD k has what the SoftDevice has, d; if there is
\* none, the application was told: p are the properties, hs what it has heard.
Known(q, hs, k, d, p) ==
  /\ Latest(q, k, d)
  /\ WritesTo(q, k) = {} => (k - 1 \in hs <=> d \cap p # {})
HeardInv ==
  /\ link = "connected" => \A k \in Attributes("cccd") :
       Known(queue, heard, k, cccd[k], Properties[table[k].char])
  /\ \A h \in heard : h + 1 \in Attributes("cccd")

\* The fields of an event.
LEMMA EventsAre ==
  ASSUME NEW type \in EventTypes, NEW h \in Nat, NEW d \in Payload
  PROVE  /\ Event(type, h, d) \in EventSet
         /\ Event(type, h, d).type = type
         /\ Event(type, h, d).handle = h /\ Event(type, h, d).data = d
BY DEF Event, EventSet

\* A queue with one more event.
LEMMA Pushed ==
  ASSUME NEW q \in Seq(EventSet), NEW e \in EventSet
  PROVE  /\ Append(q, e) \in Seq(EventSet) /\ Len(Append(q, e)) = Len(q) + 1
         /\ Append(q, e) # <<>>
         /\ \A i \in 1 .. Len(q) : Append(q, e)[i] = q[i]
         /\ Append(q, e)[Len(q) + 1] = e
OBVIOUS

\* A queue without its first event.
LEMMA Popped ==
  ASSUME NEW q \in Seq(EventSet), q # <<>>
  PROVE  /\ Tail(q) \in Seq(EventSet) /\ Len(Tail(q)) = Len(q) - 1
         /\ Head(q) = q[1] /\ Head(q) \in EventSet /\ 1 \in 1 .. Len(q)
         /\ \A i \in 1 .. Len(Tail(q)) : Tail(q)[i] = q[i + 1] /\ i + 1 \in 1 .. Len(q)
OBVIOUS

\* While the connection lasts, its other events come after its beginning.
LEMMA PushKeeps ==
  ASSUME NEW q \in Seq(EventSet), NEW m \in BOOLEAN, Protocol(q, "connected", m),
         NEW e \in EventSet, e.type \notin {"connected", "disconnected"}
  PROVE  Protocol(Append(q, e), "connected", m)
<1> DEFINE r == Append(q, e)
<1>1. /\ Len(r) = Len(q) + 1 /\ r # <<>> /\ Len(q) \in Nat
      /\ \A i \in 1 .. Len(q) : r[i] = q[i]
      /\ r[Len(q) + 1] = e
  OBVIOUS
<1>2. CASE q = <<>>
  <2>1. Len(q) = 0
    BY <1>2
  <2> HIDE DEF r
  <2> QED
    BY <1>1, <1>2, <2>1 DEF Protocol
<1>3. CASE q # <<>>
  <2>1. 1 \in 1 .. Len(q)
    BY <1>3
  <2> HIDE DEF r
  <2> QED
    BY <1>1, <1>3, <2>1 DEF Protocol
<1> QED
  BY <1>2, <1>3

\* The loss of the link is the last event of a connection.
LEMMA LostKeeps ==
  ASSUME NEW q \in Seq(EventSet), NEW m \in BOOLEAN, Protocol(q, "connected", m),
         NEW e \in EventSet, e.type = "disconnected"
  PROVE  Protocol(Append(q, e), "off", m)
<1> DEFINE r == Append(q, e)
<1>1. /\ Len(r) = Len(q) + 1 /\ r # <<>> /\ Len(q) \in Nat
      /\ \A i \in 1 .. Len(q) : r[i] = q[i]
      /\ r[Len(q) + 1] = e
  OBVIOUS
<1>2. CASE q = <<>>
  <2>1. Len(q) = 0
    BY <1>2
  <2> HIDE DEF r
  <2> QED
    BY <1>1, <1>2, <2>1 DEF Protocol
<1>3. CASE q # <<>>
  <2>1. 1 \in 1 .. Len(q) /\ Len(q) \in 1 .. Len(q)
    BY <1>3
  <2> HIDE DEF r
  <2> QED
    BY <1>1, <1>3, <2>1 DEF Protocol
<1> QED
  BY <1>2, <1>3

\* A new connection begins with an empty queue.
LEMMA FoundKeeps ==
  ASSUME NEW m \in BOOLEAN, Protocol(<<>>, "advertising", m),
         NEW e \in EventSet, e.type = "connected"
  PROVE  Protocol(Append(<<>>, e), "connected", m)
<1> DEFINE r == Append(<<>>, e)
<1>1. Len(r) = 1 /\ r # <<>> /\ r[1] = e
  OBVIOUS
<1> HIDE DEF r
<1>2. Protocol(r, "connected", m)
  BY <1>1 DEF Protocol
<1> QED
  BY <1>2 DEF r

\* Only the empty sequence has no elements.
LEMMA EmptyIs ==
  ASSUME NEW S, NEW q \in Seq(S)
  PROVE  Len(q) \in Nat /\ (q = <<>> <=> Len(q) = 0)
OBVIOUS

\* What is left when an event was handled.
LEMMA PopKeeps ==
  ASSUME NEW q \in Seq(EventSet), q # <<>>, NEW m \in BOOLEAN,
         NEW l \in {"off", "advertising", "connected"}, Protocol(q, l, m)
  PROVE  /\ q[1].type = "connected" => Protocol(Tail(q), l, TRUE)
         /\ q[1].type = "disconnected" => Tail(q) = <<>> /\ Protocol(Tail(q), "advertising", FALSE)
         /\ q[1].type \notin {"connected", "disconnected"} =>
              m = TRUE /\ Protocol(Tail(q), l, TRUE)
<1> DEFINE r == Tail(q)
<1>1. /\ Len(r) = Len(q) - 1 /\ Len(r) \in Nat /\ (r = <<>> <=> Len(r) = 0)
      /\ \A i \in 1 .. Len(r) : r[i] = q[i + 1] /\ i + 1 \in 1 .. Len(q)
      /\ 1 \in 1 .. Len(q)
  <2>1. /\ r \in Seq(EventSet) /\ Len(r) = Len(q) - 1 /\ 1 \in 1 .. Len(q)
        /\ \A i \in 1 .. Len(r) : r[i] = q[i + 1] /\ i + 1 \in 1 .. Len(q)
    BY Popped
  <2> HIDE DEF r
  <2>2. Len(r) \in Nat /\ (r = <<>> <=> Len(r) = 0)
    BY <2>1, EmptyIs
  <2> QED
    BY <2>1, <2>2
<1>2. r # <<>> => r[1] = q[2] /\ r[Len(r)] = q[Len(q)] /\ 2 \in 1 .. Len(q)
  BY <1>1
<1>3. r = <<>> => Len(q) = 1
  BY <1>1
<1> HIDE DEF r
<1>4. ASSUME q[1].type # "disconnected"
      PROVE  Protocol(r, l, TRUE)
  <2>1. r = <<>> => l = "connected"
    BY <1>1, <1>3, <1>4 DEF Protocol
  <2>2. \A i \in 1 .. Len(q) : /\ q[i].type = "connected" => i = 1
                               /\ q[i].type = "disconnected" => i = Len(q)
    BY DEF Protocol
  <2>3. \A i \in 1 .. Len(r) : /\ r[i].type # "connected"
                               /\ r[i].type = "disconnected" => i = Len(r)
    BY <1>1, <2>2
  <2>4. r # <<>> => r[1].type # "connected"
    BY <1>1, <2>3
  <2>5. r # <<>> => (l = "off" <=> r[Len(r)].type = "disconnected")
    BY <1>1, <1>2 DEF Protocol
  <2>6. l # "advertising"
    BY DEF Protocol
  <2> QED
    BY <2>1, <2>3, <2>4, <2>5, <2>6 DEF Protocol
<1>5. CASE q[1].type = "disconnected"
  <2>1. Len(q) = 1
    BY <1>1, <1>5 DEF Protocol
  <2>2. r = <<>> /\ Len(r) = 0
    BY <1>1, <2>1
  <2> QED
    BY <1>5, <2>2 DEF Protocol, r
<1>6. q[1].type # "connected" => m = TRUE
  BY DEF Protocol
<1> QED
  BY <1>4, <1>5, <1>6 DEF r

\* An event of a connection that lasts.
LEMMA LinkPush ==
  ASSUME GattServerAssumption, LinkInv, link = "connected", NEW e \in EventSet,
         e.type \notin {"connected", "disconnected"}, Push(e),
         UNCHANGED <<link, m_connectionHandle, heard>>
  PROVE  LinkInv'
<1>1. /\ queue \in Seq(EventSet) /\ m_connectionHandle \in BOOLEAN
      /\ Protocol(queue, "connected", m_connectionHandle)
      /\ queue' = Append(queue, e) /\ Len(queue) < MaxEvents
  BY DEF LinkInv, Push
<1>2. Protocol(queue', "connected", m_connectionHandle)
  BY <1>1, PushKeeps
<1>3. queue' \in Seq(EventSet) /\ Len(queue') <= MaxEvents
  <2>1. MaxEvents \in Nat
    BY DEF GattServerAssumption
  <2> QED
    BY <1>1, <2>1, Pushed
<1> QED
  BY <1>2, <1>3 DEF LinkInv

\* What a new event carries is its own matter.
LEMMA CarriesPush ==
  ASSUME LinkInv, CarriesInv, NEW e \in EventSet,
         queue' = Append(queue, e), Carries(e), UNCHANGED table
  PROVE  CarriesInv'
<1>1. \A i \in 1 .. Len(queue') : Carries(queue'[i])
  <2>1. /\ Len(queue') = Len(queue) + 1 /\ Len(queue) \in Nat
        /\ \A i \in 1 .. Len(queue) : queue'[i] = queue[i]
        /\ queue'[Len(queue) + 1] = e
    BY Pushed DEF LinkInv
  <2> QED
    BY <2>1 DEF CarriesInv
<1>2. ASSUME NEW f, Carries(f)
      PROVE  Carries(f)'
  BY <1>2 DEF Carries, Attributes
<1> QED
  BY <1>1, <1>2 DEF CarriesInv

\* The attributes of a kind have handles.
LEMMA AttributesAre ==
  ASSUME TableInv, NEW kind, NEW h \in Attributes(kind)
  PROVE  h \in Nat /\ h \in 1 .. Len(table) /\ h \in Handles
BY GattServerAssumption DEF Attributes, TableInv, Sound, Handles, GattServerAssumption

\* What a central, or the SoftDevice, puts into the queue.
LEMMA PushedCarry ==
  ASSUME GattServerAssumption, TableInv, NEW h, NEW d, NEW type,
         \/ type = "write" /\ h \in Attributes("value") /\ d \in Values
         \/ type = "write" /\ h \in Attributes("descriptor") /\ d \in Values
         \/ type = "write" /\ h \in Attributes("cccd") /\ d \in CCCDValues
         \/ type = "authorize_write" /\ h \in Nat /\ d \in Values
         \/ type \in {"sys_attr_missing", "authorize_read", "hvc"} /\ h \in Nat /\ d \in Values
         \/ type = "tx_complete" /\ h = 0 /\ d \in 1 .. TxBuffers
  PROVE  /\ Event(type, h, d) \in EventSet /\ Carries(Event(type, h, d))
         /\ Event(type, h, d).type \notin {"connected", "disconnected"}
<1>1. h \in Nat
  BY AttributesAre
<1>2. d \in Payload /\ type \in EventTypes
  <2>1. d \in Values \/ d \in CCCDValues \/ d \in Nat
    OBVIOUS
  <2>2. type \in EventTypes
    BY DEF EventTypes
  <2> QED
    BY <2>1, <2>2 DEF Payload
<1>3. /\ Event(type, h, d) \in EventSet
      /\ Event(type, h, d).type = type
      /\ Event(type, h, d).handle = h /\ Event(type, h, d).data = d
  BY <1>1, <1>2, EventsAre
<1>4. PICK e \in EventSet : /\ e = Event(type, h, d)
                            /\ e.type = type /\ e.handle = h /\ e.data = d
  BY <1>3
<1>5. Carries(e)
  BY <1>4 DEF Carries
<1>6. e.type \notin {"connected", "disconnected"}
  BY <1>4
<1> QED
  BY <1>4, <1>5, <1>6

\* A request, and none.
LEMMA RequestsAre ==
  /\ \A k, h, d : /\ Whole(Request(k, h, d)) /\ Request(k, h, d).kind = k
                  /\ Request(k, h, d).handle = h /\ Request(k, h, d).data = d
  /\ Whole(NoRequest) /\ NoRequest.kind = "none"
<1>1. \A k, h, d : /\ Whole(Request(k, h, d)) /\ Request(k, h, d).kind = k
                   /\ Request(k, h, d).handle = h /\ Request(k, h, d).data = d
  BY DEF Request, Whole
<1>2. Whole(NoRequest) /\ NoRequest.kind = "none"
  BY <1>1 DEF NoRequest
<1> QED
  BY <1>1, <1>2

\* A request whose answer was refused is the same request.
LEMMA UnansweredKeeps ==
  ASSUME PendingInv, NEW kind
  PROVE  /\ Whole(Unanswered(kind)) /\ Unanswered(kind).kind = pending.kind
         /\ Unanswered(kind).handle = pending.handle
         /\ Unanswered(kind).data = pending.data
<1>1. PICK k, h, d, r : pending = [kind |-> k, handle |-> h, data |-> d, refused |-> r]
  BY DEF PendingInv, Whole
<1>2. CASE pending.kind = kind
  <2>1. Unanswered(kind) = [kind |-> k, handle |-> h, data |-> d, refused |-> TRUE]
    BY <1>1, <1>2 DEF Unanswered
  <2>2. Whole(Unanswered(kind))
    BY <2>1 DEF Whole
  <2>3. pending.kind = k /\ pending.handle = h /\ pending.data = d
    BY <1>1
  <2>4. /\ Unanswered(kind).kind = k /\ Unanswered(kind).handle = h
        /\ Unanswered(kind).data = d
    BY <2>1
  <2> QED
    BY <2>2, <2>3, <2>4
<1>3. CASE pending.kind # kind
  BY <1>1, <1>3 DEF Unanswered, Whole
<1> QED
  BY <1>2, <1>3

\* A central's doing, and the SoftDevice's.
LEMMA CentralStep ==
  ASSUME GattServerAssumption, TableInv, LinkInv, PendingInv, CarriesInv, NEW h \in Handles,
         \/ \E v \in Values : CentralWrites(h, v) \/ CentralAsks(h, v)
         \/ \E bits \in CCCDValues : CentralSubscribes(h, bits)
  PROVE  LinkInv' /\ PendingInv' /\ CarriesInv'
<1>1. h \in Nat /\ InitialValue \in Values
  BY DEF Handles, GattServerAssumption
<1>2. link = "connected"
  BY DEF CentralWrites, CentralAsks, CentralSubscribes, Requests
<1>3. UNCHANGED <<table, link, m_connectionHandle, heard, tx, indicated>>
  BY DEF CentralWrites, CentralAsks, CentralSubscribes, sdVars, linkVars, historyVars
<1>4. PICK e \in EventSet : /\ Carries(e) /\ e.type \notin {"connected", "disconnected"}
                            /\ Push(e)
  <2>1. CASE \E v \in Values : CentralWrites(h, v)
    <3>1. PICK v \in Values : /\ Push(Event("write", h, v))
                              /\ h \in Attributes("value") \/ h \in Attributes("descriptor")
      BY <2>1 DEF CentralWrites, Writable
    <3> QED
      BY <3>1, PushedCarry
  <2>2. CASE \E v \in Values : CentralAsks(h, v)
    <3>1. PICK v \in Values : \/ Push(Event("authorize_write", h, v))
                              \/ Push(Event("authorize_read", h, v))
      BY <2>2 DEF CentralAsks
    <3> QED
      BY <1>1, <3>1, PushedCarry
  <2>3. CASE \E bits \in CCCDValues : CentralSubscribes(h, bits)
    <3>1. PICK bits \in CCCDValues : \/ Push(Event("write", h, bits))
                                     \/ Push(Event("sys_attr_missing", 0, InitialValue))
      BY <2>3 DEF CentralSubscribes
    <3>2. h \in Attributes("cccd") /\ 0 \in Nat
      BY <2>3 DEF CentralSubscribes
    <3> QED
      BY <1>1, <3>1, <3>2, PushedCarry
  <2> QED
    BY <2>1, <2>2, <2>3
<1>5. LinkInv'
  BY <1>2, <1>3, <1>4, LinkPush
<1>6. CarriesInv'
  BY <1>3, <1>4, CarriesPush DEF Push
<1>7. PendingInv'
  <2>1. link' = "connected" /\ \A kind : Attributes(kind)' = Attributes(kind)
    BY <1>2, <1>3 DEF Attributes
  <2>2. \/ UNCHANGED pending
        \/ \E k, d : /\ pending' = Request(k, h, d)
                     /\ k = "cccd" => h \in Attributes("cccd") /\ d \in CCCDValues
    <3>1. CASE \E v \in Values : CentralWrites(h, v) \/ CentralAsks(h, v)
      BY <3>1 DEF CentralWrites, CentralAsks, Requests, linkVars
    <3>2. CASE \E bits \in CCCDValues : CentralSubscribes(h, bits)
      BY <3>2 DEF CentralSubscribes, Requests
    <3> QED
      BY <3>1, <3>2
  <2>3. /\ Whole(pending')
        /\ pending'.kind = "cccd" =>
             pending'.handle \in Attributes("cccd") /\ pending'.data \in CCCDValues
    BY <2>2, RequestsAre DEF PendingInv
  <2> QED
    BY <2>1, <2>3 DEF PendingInv
<1> QED
  BY <1>5, <1>6, <1>7

(***************************************************************************)
(* The rest of the state, and the invariant all the theorems below rest on. *)
(***************************************************************************)

\* The types of the rest of the state.
RestOK ==
  /\ value \in [Handles -> Values] /\ last \in [Handles -> Values]
  /\ cccd \in [Handles -> SUBSET Subscriptions]
  /\ sysAttrs \in BOOLEAN
  /\ tx \in 0 .. TxBuffers /\ indicated \in 0 .. MaxAttributes
  /\ heard \subseteq Handles

BaseInv == TableInv /\ LinkInv /\ PendingInv /\ CarriesInv /\ RestOK

\* The steps of the SoftDevice on a connection.
LEMMA SoftDeviceStep ==
  ASSUME GattServerAssumption, BaseInv,
         SoftDeviceResumes \/ CentralConfirms \/ \E n \in 1 .. TxBuffers : RadioSends(n)
  PROVE  LinkInv' /\ PendingInv' /\ CarriesInv'
<1>1. InitialValue \in Values /\ 0 \in Nat
  BY DEF GattServerAssumption
<1>2. link = "connected"
  BY DEF SoftDeviceResumes, CentralConfirms, RadioSends, BaseInv, PendingInv
<1>3. UNCHANGED <<table, link, m_connectionHandle, heard>>
  BY DEF SoftDeviceResumes, CentralConfirms, RadioSends, sdVars, historyVars
<1>4. PICK e \in EventSet : /\ Carries(e) /\ e.type \notin {"connected", "disconnected"}
                            /\ Push(e)
  <2>1. CASE SoftDeviceResumes
    <3>1. PICK h, d : /\ Push(Event("write", h, d))
                      /\ h \in Attributes("cccd") /\ d \in CCCDValues
      BY <2>1 DEF SoftDeviceResumes, BaseInv, PendingInv
    <3> QED
      BY <3>1, PushedCarry DEF BaseInv
  <2>2. CASE CentralConfirms
    <3>1. PICK h \in Nat : Push(Event("hvc", h, InitialValue))
      BY <2>2 DEF CentralConfirms, BaseInv, RestOK
    <3> QED
      BY <1>1, <3>1, PushedCarry DEF BaseInv
  <2>3. CASE \E n \in 1 .. TxBuffers : RadioSends(n)
    <3>1. PICK n \in 1 .. TxBuffers : Push(Event("tx_complete", 0, n))
      BY <2>3 DEF RadioSends
    <3> QED
      BY <3>1, PushedCarry DEF BaseInv
  <2> QED
    BY <2>1, <2>2, <2>3
<1>5. LinkInv'
  BY <1>2, <1>3, <1>4, LinkPush DEF BaseInv
<1>6. CarriesInv'
  BY <1>3, <1>4, CarriesPush DEF Push, BaseInv
<1>7. PendingInv'
  <2>1. link' = "connected" /\ \A kind : Attributes(kind)' = Attributes(kind)
    BY <1>2, <1>3 DEF Attributes
  <2>2. /\ Whole(pending')
        /\ pending'.kind = "cccd" =>
             pending'.handle \in Attributes("cccd") /\ pending'.data \in CCCDValues
    <3>1. pending' = NoRequest \/ pending' = pending
      BY DEF SoftDeviceResumes, CentralConfirms, RadioSends
    <3> QED
      BY <3>1, RequestsAre DEF BaseInv, PendingInv
  <2> QED
    BY <2>1, <2>2 DEF PendingInv
<1> QED
  BY <1>5, <1>6, <1>7

\* The driver takes an event from the queue.
LEMMA EventStep ==
  ASSUME GattServerAssumption, BaseInv, hwCallback
  PROVE  LinkInv' /\ PendingInv' /\ CarriesInv'
<1>1. /\ queue \in Seq(EventSet) /\ queue # <<>> /\ queue' = Tail(queue)
      /\ m_connectionHandle \in BOOLEAN /\ link \in {"off", "advertising", "connected"}
      /\ Protocol(queue, link, m_connectionHandle)
      /\ Len(queue) <= IF link = "connected" THEN MaxEvents ELSE MaxEvents + 1
      /\ (~m_connectionHandle => heard = {})
  BY DEF hwCallback, BaseInv, LinkInv
<1>2. PICK ev : /\ ev = queue[1]
                /\ \/ HandleConnected(ev) \/ HandleDisconnected(ev)
                   \/ HandleSubscription(ev) \/ HandleDataWritten(ev)
                   \/ HandleSysAttrMissing(ev) \/ HandleAuthorizeWrite(ev)
                   \/ HandleAuthorizeRead(ev) \/ HandleConfirmation(ev) \/ HandleDataSent(ev)
  BY <1>1, Popped DEF hwCallback
<1>3. /\ queue' \in Seq(EventSet) /\ Len(queue') = Len(queue) - 1 /\ Len(queue') \in Nat
      /\ \A i \in 1 .. Len(queue') : queue'[i] = queue[i + 1] /\ i + 1 \in 1 .. Len(queue)
  BY <1>1, Popped
<1>4. UNCHANGED <<table, tx, indicated>>
  BY <1>2 DEF hwCallback, HandleConnected, HandleDisconnected, HandleSubscription,
     HandleDataWritten, HandleSysAttrMissing, HandleAuthorizeWrite, HandleAuthorizeRead,
     HandleConfirmation, HandleDataSent, sdVars
<1>5. MaxEvents \in Nat
  BY DEF GattServerAssumption
<1>6. CASE HandleDisconnected(ev)
  <2>1. /\ Tail(queue) = <<>> /\ Protocol(Tail(queue), "advertising", FALSE)
    BY <1>1, <1>2, <1>6, PopKeeps DEF HandleDisconnected
  <2>2. /\ link' = "advertising" /\ m_connectionHandle' = FALSE /\ heard' = {}
        /\ UNCHANGED pending
    BY <1>6 DEF HandleDisconnected
  <2>3. link # "connected"
    BY <1>1, <1>2, <1>6 DEF HandleDisconnected, Protocol
  <2>4. queue' = <<>> /\ Len(queue') = 0
    BY <1>1, <2>1
  <2>5. LinkInv'
    <3>1. Protocol(queue', link', m_connectionHandle')
      <4>1. Protocol(queue', "advertising", FALSE)
        BY <1>1, <2>1
      <4> QED
        BY <2>2, <4>1
    <3>2. m_connectionHandle' \in BOOLEAN
      BY <2>2
    <3>3. link' \in {"off", "advertising", "connected"} /\ (~m_connectionHandle' => heard' = {})
      BY <2>2
    <3>4. Len(queue') <= IF link' = "connected" THEN MaxEvents ELSE MaxEvents + 1
      BY <1>5, <2>4
    <3> QED
      BY <1>3, <3>1, <3>2, <3>3, <3>4, Zenon DEF LinkInv
  <2>6. PendingInv'
    BY <1>4, <2>2, <2>3 DEF BaseInv, PendingInv
  <2> QED
    BY <2>4, <2>5, <2>6 DEF CarriesInv
<1>7. CASE ~HandleDisconnected(ev)
  <2>1. link' = link
    BY <1>2, <1>7 DEF HandleConnected, HandleSubscription,
     HandleDataWritten, HandleSysAttrMissing, HandleAuthorizeWrite, HandleAuthorizeRead,
     HandleConfirmation, HandleDataSent, linkVars
  <2>2. Protocol(queue', link', m_connectionHandle') /\ m_connectionHandle' \in BOOLEAN
        /\ (~m_connectionHandle' => heard' = {})
    <3>1. CASE HandleConnected(ev)
      <4>1. Protocol(Tail(queue), link, TRUE)
        BY <1>1, <1>2, <3>1, PopKeeps DEF HandleConnected
      <4>2. m_connectionHandle' = TRUE
        BY <3>1 DEF HandleConnected
      <4> QED
        BY <1>1, <2>1, <4>1, <4>2
    <3>2. CASE ~HandleConnected(ev)
      <4>1. /\ ev.type \notin {"connected", "disconnected"}
            /\ m_connectionHandle' = m_connectionHandle
        BY <1>2, <1>7, <3>2 DEF HandleSubscription,
         HandleDataWritten, HandleSysAttrMissing, HandleAuthorizeWrite, HandleAuthorizeRead,
         HandleConfirmation, HandleDataSent, linkVars
      <4>2. m_connectionHandle = TRUE /\ Protocol(Tail(queue), link, TRUE)
        BY <1>1, <1>2, <4>1, PopKeeps
      <4> QED
        BY <1>1, <2>1, <4>1, <4>2
    <3> QED
      BY <3>1, <3>2
  <2>3. LinkInv'
    BY <1>1, <1>3, <1>5, <2>1, <2>2 DEF LinkInv
  <2>4. PendingInv'
    <3>1. pending' = NoRequest \/ pending' = pending \/ \E kind : pending' = Unanswered(kind)
      BY <1>2, <1>7, AuthorizedWrite DEF HandleConnected, HandleSubscription,
        HandleDataWritten, HandleSysAttrMissing, HandleAuthorizeRead,
        HandleConfirmation, HandleDataSent, linkVars
    <3>2. \A kind : Attributes(kind)' = Attributes(kind)
      BY <1>4 DEF Attributes
    <3>3. /\ Whole(pending')
          /\ \/ pending'.kind = "none"
             \/ /\ pending'.kind = pending.kind
                /\ pending'.handle = pending.handle
                /\ pending'.data = pending.data
      <4>1. CASE \E kind : pending' = Unanswered(kind)
        BY <4>1, UnansweredKeeps DEF BaseInv
      <4>2. CASE pending' = NoRequest \/ pending' = pending
        BY <4>2, RequestsAre DEF BaseInv, PendingInv
      <4> QED
        BY <3>1, <4>1, <4>2
    <3> QED
      BY <1>4, <2>1, <3>2, <3>3 DEF BaseInv, PendingInv
  <2>5. CarriesInv'
    <3>1. ASSUME NEW f, Carries(f)
          PROVE  Carries(f)'
      BY <1>4, <3>1 DEF Carries, Attributes
    <3>2. \A i \in 1 .. Len(queue') : Carries(queue'[i])
      BY <1>3 DEF BaseInv, CarriesInv
    <3> QED
      BY <3>1, <3>2 DEF CarriesInv
  <2> QED
    BY <2>3, <2>4, <2>5
<1> QED
  BY <1>6, <1>7

\* A write() of the application leaves the queue alone.
LEMMA WriteStep ==
  ASSUME GattServerAssumption, BaseInv, NEW c, NEW v, NEW localOnly, Write(c, v, localOnly)
  PROVE  LinkInv' /\ PendingInv' /\ CarriesInv'
<1>1. UNCHANGED <<table, link, pending, m_connectionHandle, queue, heard>>
  BY DEF Write
<1>2. link = "connected" \/ UNCHANGED <<tx, indicated>>
  BY DEF Write, Hvx, HvxRefused, Live
<1>3. LinkInv'
  BY <1>1 DEF BaseInv, LinkInv
<1>4. \A kind : Attributes(kind)' = Attributes(kind)
  BY <1>1 DEF Attributes
<1>5. PendingInv'
  BY <1>1, <1>2, <1>4 DEF BaseInv, PendingInv
<1>6. ASSUME NEW f, Carries(f)
      PROVE  Carries(f)'
  BY <1>1, <1>6 DEF Carries, Attributes
<1> QED
  BY <1>1, <1>3, <1>5, <1>6 DEF BaseInv, CarriesInv

\* The link comes and goes.
LEMMA LinkStep ==
  ASSUME GattServerAssumption, BaseInv,
         AddService \/ StartAdvertising \/ Connect \/ LinkLost \/ Shutdown \/ UNCHANGED vars
  PROVE  LinkInv' /\ PendingInv' /\ CarriesInv'
<1>1. InitialValue \in Payload /\ 0 \in Nat /\ MaxEvents \in Nat
  BY DEF GattServerAssumption, Payload
<1>2. CASE AddService
  <2>1. UNCHANGED <<link, m_connectionHandle, queue, heard, tx, indicated, pending>>
        /\ link = "off" /\ queue = <<>>
    BY <1>2 DEF AddService, linkVars, historyVars
  <2>2. Len(queue') = 0
    BY <2>1
  <2>3. LinkInv'
    BY <2>1 DEF BaseInv, LinkInv
  <2> QED
    BY <2>1, <2>2, <2>3 DEF BaseInv, PendingInv, CarriesInv
<1>3. CASE StartAdvertising
  <2>1. UNCHANGED <<m_connectionHandle, queue, heard, tx, indicated, pending>>
        /\ link = "off" /\ queue = <<>> /\ link' = "advertising"
    BY <1>3 DEF StartAdvertising, linkVars, historyVars
  <2>2. Len(queue') = 0
    BY <2>1
  <2>3. LinkInv'
    BY <2>1, <2>2 DEF BaseInv, LinkInv, Protocol
  <2> QED
    BY <2>1, <2>2, <2>3 DEF BaseInv, PendingInv, CarriesInv
<1>4. CASE Connect
  <2>1. /\ UNCHANGED <<m_connectionHandle, heard, tx, indicated, pending, table>>
        /\ link = "advertising" /\ link' = "connected"
        /\ Len(queue) < MaxEvents
        /\ queue' = Append(queue, Event("connected", 0, InitialValue))
    BY <1>4 DEF Connect, Push, historyVars
  <2>2. PICK e \in EventSet : e = Event("connected", 0, InitialValue) /\ e.type = "connected"
    BY <1>1, EventsAre DEF EventTypes
  <2>3. /\ queue = <<>> /\ Protocol(<<>>, "advertising", m_connectionHandle)
        /\ m_connectionHandle \in BOOLEAN
    BY <2>1 DEF BaseInv, LinkInv, Protocol
  <2>4. Protocol(queue', "connected", m_connectionHandle)
    BY <2>1, <2>2, <2>3, FoundKeeps
  <2>5. /\ queue \in Seq(EventSet) /\ Len(queue) \in Nat
        /\ queue' \in Seq(EventSet) /\ Len(queue') = Len(queue) + 1
    BY <2>1, <2>2, Pushed DEF BaseInv, LinkInv
  <2>6. LinkInv'
    BY <1>1, <2>1, <2>4, <2>5 DEF BaseInv, LinkInv
  <2>7. PendingInv'
    BY <2>1 DEF BaseInv, PendingInv
  <2>8. Carries(e)
    BY <2>2 DEF Carries
  <2>9. CarriesInv'
    BY <2>1, <2>2, <2>8, CarriesPush DEF BaseInv
  <2> QED
    BY <2>6, <2>7, <2>9
<1>5. CASE LinkLost
  <2>1. /\ UNCHANGED <<m_connectionHandle, heard, table>>
        /\ link = "connected" /\ link' = "off"
        /\ tx' = 0 /\ indicated' = 0 /\ pending' = NoRequest
        /\ queue' = Append(queue, Event("disconnected", 0, InitialValue))
    BY <1>5 DEF LinkLost, sdVars
  <2>2. PICK e \in EventSet : e = Event("disconnected", 0, InitialValue) /\ e.type = "disconnected"
    BY <1>1, EventsAre DEF EventTypes
  <2>3. /\ Protocol(queue, "connected", m_connectionHandle) /\ queue \in Seq(EventSet)
        /\ m_connectionHandle \in BOOLEAN /\ Len(queue) <= MaxEvents
    BY <2>1 DEF BaseInv, LinkInv
  <2>4. Protocol(queue', "off", m_connectionHandle)
    BY <2>1, <2>2, <2>3, LostKeeps
  <2>5. /\ Len(queue) \in Nat
        /\ queue' \in Seq(EventSet) /\ Len(queue') = Len(queue) + 1
    BY <2>1, <2>2, <2>3, Pushed
  <2>6. LinkInv'
    BY <1>1, <2>1, <2>3, <2>4, <2>5 DEF BaseInv, LinkInv
  <2>7. PendingInv'
    BY <2>1, RequestsAre DEF PendingInv
  <2>8. Carries(e)
    BY <2>2 DEF Carries
  <2>9. CarriesInv'
    BY <2>1, <2>2, <2>8, CarriesPush DEF BaseInv
  <2> QED
    BY <2>6, <2>7, <2>9
<1>6. CASE Shutdown
  <2>1. /\ m_connectionHandle' = FALSE /\ heard' = {} /\ queue' = <<>> /\ link' = "off"
        /\ tx' = 0 /\ indicated' = 0 /\ pending' = NoRequest
    BY <1>6 DEF Shutdown
  <2>2. <<>> \in Seq(EventSet) /\ Len(<<>>) = 0
    OBVIOUS
  <2>3. LinkInv'
    <3>1. Protocol(<<>>, "off", FALSE)
      BY <2>2 DEF Protocol
    <3>2. Protocol(queue', link', m_connectionHandle') /\ m_connectionHandle' \in BOOLEAN
      BY <2>1, <3>1
    <3> QED
      BY <1>1, <2>1, <2>2, <3>2 DEF LinkInv
  <2> QED
    BY <2>1, <2>2, <2>3, RequestsAre DEF PendingInv, CarriesInv
<1>7. CASE UNCHANGED vars
  <2>1. UNCHANGED <<table, link, m_connectionHandle, queue, heard, tx, indicated, pending>>
    BY <1>7 DEF vars, sdVars, linkVars, historyVars
  <2> QED
    BY <2>1 DEF BaseInv, LinkInv, PendingInv, CarriesInv, Carries, Attributes
<1> QED
  BY <1>2, <1>3, <1>4, <1>5, <1>6, <1>7

\* The handle the driver notes of a characteristic is a handle.
LEMMA NotedHandles ==
  ASSUME GattServerAssumption, TableInv, NEW i \in 1 .. server.characteristicCount
  PROVE  /\ Char(i) \in Characteristics
         /\ server.valueHandle[Char(i)] = server.nrfCharacteristicHandles[i].value
         /\ server.valueHandle[Char(i)] \in Attributes("value")
         /\ table[server.valueHandle[Char(i)]].char = Char(i)
         /\ server.valueHandle[Char(i)] \in Handles
<1>1. PICK c, at : /\ c = server.p_characteristics[i] /\ at = server.nrfCharacteristicHandles[i]
                   /\ c \in Characteristics /\ server.valueHandle[c] = at.value
                   /\ at.value \in 1 .. Len(table)
                   /\ table[at.value].kind = "value" /\ table[at.value].char = c
  BY DEF TableInv, Sound, Registered
<1>2. Len(table) <= MaxAttributes /\ Len(table) \in Nat /\ MaxAttributes \in Nat
  BY DEF TableInv, Sound, GattServerAssumption
<1> QED
  BY <1>1, <1>2 DEF Char, Attributes, Handles

\* A function with one value replaced.
LEMMA StoredValues ==
  ASSUME NEW S, NEW T, NEW f \in [S -> T], NEW h, NEW v \in T
  PROVE  [f EXCEPT ![h] = v] \in [S -> T]
OBVIOUS

\* A write() stores a value that is one, at a handle that is one.
LEMMA RestWrite ==
  ASSUME GattServerAssumption, BaseInv, NEW c, NEW v \in Values, NEW localOnly,
         Write(c, v, localOnly)
  PROVE  RestOK'
<1> DEFINE h == server.valueHandle[c]
<1>1. RestOK /\ TableInv /\ TxBuffers \in Nat
  BY DEF BaseInv, GattServerAssumption
<1>2. h \in Handles
  BY <1>1, NotedHandles DEF Write
<1> HIDE DEF h
<1>3. UNCHANGED <<cccd, sysAttrs, heard>>
  BY DEF Write
<1>4. CASE \E type : Hvx(h, v, type)
  <2>1. value' = [value EXCEPT ![h] = v] /\ last' = [last EXCEPT ![h] = v]
    BY <1>4 DEF Hvx, Stored
  <2>2. value' \in [Handles -> Values] /\ last' \in [Handles -> Values]
    BY <1>1, <2>1, StoredValues DEF RestOK
  <2>3. tx' \in 0 .. TxBuffers /\ indicated' \in 0 .. MaxAttributes
    BY <1>1, <1>2, <1>4 DEF Hvx, RestOK, Handles
  <2> QED
    BY <1>1, <1>3, <2>2, <2>3 DEF RestOK
<1>5. CASE \/ HvxRefused(h, v)
           \/ Stored(h, v) /\ last' = [last EXCEPT ![h] = v] /\ UNCHANGED <<tx, unsent, indicated>>
  <2>1. /\ value' = [value EXCEPT ![h] = v] \/ value' = value
        /\ last' = [last EXCEPT ![h] = v] \/ last' = last
        /\ UNCHANGED <<tx, indicated>>
    BY <1>5 DEF HvxRefused, Stored
  <2>2. value' \in [Handles -> Values] /\ last' \in [Handles -> Values]
    BY <1>1, <2>1, StoredValues DEF RestOK
  <2> QED
    BY <1>1, <1>3, <2>1, <2>2 DEF RestOK
<1>6. \/ \E type : Hvx(h, v, type)
      \/ HvxRefused(h, v)
      \/ Stored(h, v) /\ last' = [last EXCEPT ![h] = v] /\ UNCHANGED <<tx, unsent, indicated>>
  <2>1. PICK type : \/ Hvx(h, v, type) \/ HvxRefused(h, v)
                    \/ Stored(h, v) /\ last' = [last EXCEPT ![h] = v]
                       /\ UNCHANGED <<tx, unsent, indicated>>
    <3> DEFINE i == ValueIndex(h)
               type == IF "notify" \in Properties[Char(i)] THEN "notify" ELSE "indicate"
    <3>1. \/ Hvx(h, v, type) \/ HvxRefused(h, v)
          \/ Stored(h, v) /\ last' = [last EXCEPT ![h] = v]
             /\ UNCHANGED <<tx, unsent, indicated>>
      BY DEF Write, h
    <3> HIDE DEF type
    <3> QED
      BY <3>1
  <2> QED
    BY <2>1
<1> QED
  BY <1>4, <1>5, <1>6

\* The requests of the central store values and subscriptions.
LEMMA RestCentral ==
  ASSUME GattServerAssumption, BaseInv, NEW h \in Handles,
         \/ \E v \in Values : CentralWrites(h, v) \/ CentralAsks(h, v)
         \/ \E bits \in CCCDValues : CentralSubscribes(h, bits)
  PROVE  RestOK'
<1>1. RestOK /\ CCCDValues \subseteq SUBSET Subscriptions
  BY DEF BaseInv, GattServerAssumption, Subscriptions
<1>2. UNCHANGED <<sysAttrs, tx, indicated, heard>>
  BY DEF CentralWrites, CentralAsks, CentralSubscribes, linkVars, historyVars
<1>3. \E v \in Values : \/ value' = [value EXCEPT ![h] = v] /\ last' = [last EXCEPT ![h] = v]
                        \/ UNCHANGED <<value, last>>
  BY DEF CentralWrites, CentralAsks, CentralSubscribes, Stored, sdVars, historyVars,
         GattServerAssumption
<1>4. value' \in [Handles -> Values] /\ last' \in [Handles -> Values]
  BY <1>1, <1>3, StoredValues DEF RestOK
<1>5. cccd' = cccd \/ \E bits \in SUBSET Subscriptions : cccd' = [cccd EXCEPT ![h] = bits]
  <2>1. CASE \E v \in Values : CentralWrites(h, v) \/ CentralAsks(h, v)
    BY <2>1 DEF CentralWrites, CentralAsks, sdVars
  <2>2. CASE \E bits \in CCCDValues : CentralSubscribes(h, bits)
    <3>1. PICK bits \in CCCDValues : CentralSubscribes(h, bits)
      BY <2>2
    <3>2. cccd' = cccd \/ cccd' = [cccd EXCEPT ![h] = bits]
      BY <3>1 DEF CentralSubscribes
    <3>3. bits \in SUBSET Subscriptions
      BY <1>1
    <3> QED
      BY <3>2, <3>3
  <2> QED
    BY <2>1, <2>2
<1>6. cccd' \in [Handles -> SUBSET Subscriptions]
  <2>1. cccd \in [Handles -> SUBSET Subscriptions]
    BY <1>1 DEF RestOK
  <2>2. ASSUME NEW bits \in SUBSET Subscriptions
        PROVE  [cccd EXCEPT ![h] = bits] \in [Handles -> SUBSET Subscriptions]
    BY <2>1, StoredValues
  <2> QED
    BY <1>5, <2>1, <2>2
<1> QED
  BY <1>1, <1>2, <1>4, <1>6 DEF RestOK

\* The rest of the state in the steps of the SoftDevice.
LEMMA RestSoftDevice ==
  ASSUME GattServerAssumption, BaseInv,
         \/ SoftDeviceResumes \/ CentralConfirms \/ \E n \in 1 .. TxBuffers : RadioSends(n)
         \/ AddService \/ StartAdvertising \/ Connect \/ LinkLost \/ Shutdown
         \/ UNCHANGED vars
  PROVE  RestOK'
<1>1. /\ RestOK /\ CCCDValues \subseteq SUBSET Subscriptions /\ InitialValue \in Values
      /\ TxBuffers \in Nat /\ MaxAttributes \in Nat
  BY DEF BaseInv, GattServerAssumption, Subscriptions
<1>2. CASE SoftDeviceResumes
  <2>1. UNCHANGED <<sysAttrs, tx, indicated, heard, value, last>>
    BY <1>2 DEF SoftDeviceResumes, historyVars
  <2>2. pending.data \in SUBSET Subscriptions
    BY <1>1, <1>2 DEF SoftDeviceResumes, BaseInv, PendingInv
  <2>3. cccd' \in [Handles -> SUBSET Subscriptions]
    <3>1. cccd' = [cccd EXCEPT ![pending.handle] = pending.data]
      BY <1>2 DEF SoftDeviceResumes
    <3> QED
      BY <1>1, <2>2, <3>1, StoredValues DEF RestOK
  <2> QED
    BY <1>1, <2>1, <2>3 DEF RestOK
<1>3. CASE CentralConfirms \/ \E n \in 1 .. TxBuffers : RadioSends(n)
  <2>1. UNCHANGED <<sysAttrs, heard, value, last, cccd>>
    BY <1>3 DEF CentralConfirms, RadioSends, sdVars, historyVars
  <2>2. tx' \in 0 .. TxBuffers /\ indicated' \in 0 .. MaxAttributes
    BY <1>1, <1>3 DEF CentralConfirms, RadioSends, RestOK
  <2> QED
    BY <1>1, <2>1, <2>2 DEF RestOK
<1>4. CASE AddService \/ StartAdvertising \/ UNCHANGED vars
  <2>1. UNCHANGED <<sysAttrs, heard, value, last, cccd, tx, indicated>>
    BY <1>4 DEF AddService, StartAdvertising, vars, sdVars, linkVars, historyVars
  <2> QED
    BY <1>1, <2>1 DEF RestOK
<1>5. [k \in Handles |-> {}] \in [Handles -> SUBSET Subscriptions]
  OBVIOUS
<1>6. CASE Connect
  <2>1. UNCHANGED <<heard, value, last, tx, indicated>> /\ sysAttrs' = FALSE
        /\ cccd' = [k \in Handles |-> {}]
    BY <1>6 DEF Connect, historyVars
  <2> QED
    BY <1>1, <1>5, <2>1 DEF RestOK
<1>7. CASE LinkLost
  <2>1. UNCHANGED <<heard, value, last, sysAttrs, cccd>> /\ tx' = 0 /\ indicated' = 0
    BY <1>7 DEF LinkLost, sdVars
  <2> QED
    BY <1>1, <2>1 DEF RestOK
<1>8. CASE Shutdown
  <2>1. /\ value' = [k \in Handles |-> InitialValue] /\ last' = value'
        /\ cccd' = [k \in Handles |-> {}]
        /\ sysAttrs' = FALSE /\ tx' = 0 /\ indicated' = 0 /\ heard' = {}
    BY <1>8 DEF Shutdown
  <2>2. value' \in [Handles -> Values] /\ last' \in [Handles -> Values]
    BY <1>1, <2>1
  <2>3. sysAttrs' \in BOOLEAN /\ cccd' \in [Handles -> SUBSET Subscriptions]
    BY <1>5, <2>1
  <2> QED
    BY <1>1, <2>1, <2>2, <2>3 DEF RestOK
<1> QED
  BY <1>2, <1>3, <1>4, <1>6, <1>7, <1>8

\* The rest of the state when an event is handled.
LEMMA RestEvent ==
  ASSUME GattServerAssumption, BaseInv, hwCallback
  PROVE  RestOK'
<1>1. RestOK /\ TableInv
  BY DEF BaseInv
<1>2. queue \in Seq(EventSet) /\ queue # <<>>
  BY DEF hwCallback, BaseInv, LinkInv
<1>3. PICK ev : /\ ev = queue[1] /\ Carries(ev)
                /\ \/ HandleConnected(ev) \/ HandleDisconnected(ev)
                   \/ HandleSubscription(ev) \/ HandleDataWritten(ev)
                   \/ HandleSysAttrMissing(ev) \/ HandleAuthorizeWrite(ev)
                   \/ HandleAuthorizeRead(ev) \/ HandleConfirmation(ev) \/ HandleDataSent(ev)
  BY <1>2, Popped DEF hwCallback, BaseInv, CarriesInv
<1>4. UNCHANGED <<cccd, tx, indicated>>
  BY <1>3 DEF hwCallback, HandleConnected, HandleDisconnected, HandleSubscription,
     HandleDataWritten, HandleSysAttrMissing, HandleAuthorizeWrite, HandleAuthorizeRead,
     HandleConfirmation, HandleDataSent, sdVars
<1>5. value' \in [Handles -> Values] /\ last' \in [Handles -> Values]
  <2>1. \/ UNCHANGED <<value, last>>
        \/ ev.data \in Values /\ value' = [value EXCEPT ![ev.handle] = ev.data]
           /\ last' = [last EXCEPT ![ev.handle] = ev.data]
    <3>1. CASE HandleAuthorizeWrite(ev)
      <4>1. ev.data \in Values
        BY <1>3, <3>1 DEF HandleAuthorizeWrite, Carries
      <4> QED
        BY <3>1, <4>1, AuthorizedWrite
    <3>2. CASE ~HandleAuthorizeWrite(ev)
      BY <1>3, <3>2 DEF HandleConnected, HandleDisconnected, HandleSubscription,
       HandleDataWritten, HandleSysAttrMissing, HandleAuthorizeRead,
       HandleConfirmation, HandleDataSent, sdVars
    <3> QED
      BY <3>1, <3>2
  <2> QED
    BY <1>1, <2>1, StoredValues DEF RestOK
<1>6. sysAttrs' \in BOOLEAN
  <2>1. sysAttrs' = sysAttrs \/ sysAttrs' = (sysAttrs \/ link = "connected")
    BY <1>3 DEF HandleConnected, HandleDisconnected, HandleSubscription,
     HandleDataWritten, HandleSysAttrMissing, HandleAuthorizeWrite, HandleAuthorizeRead,
     HandleConfirmation, HandleDataSent, linkVars
  <2> QED
    BY <1>1, <2>1 DEF RestOK
<1>7. heard' \subseteq Handles
  <2>1. CASE HandleSubscription(ev)
    <3>1. CCCDIndex(ev.handle) \in 1 .. server.characteristicCount
      BY <1>1, <2>1, Resolves DEF HandleSubscription, CCCDIndex
    <3>2. server.valueHandle[Char(CCCDIndex(ev.handle))] \in Handles
      BY <1>1, <3>1, NotedHandles
    <3> QED
      BY <1>1, <2>1, <3>2 DEF HandleSubscription, RestOK
  <2>2. CASE ~HandleSubscription(ev)
    <3>1. heard' = heard \/ heard' = {}
      BY <1>3, <2>2 DEF HandleConnected, HandleDisconnected,
     HandleDataWritten, HandleSysAttrMissing, HandleAuthorizeWrite, HandleAuthorizeRead,
     HandleConfirmation, HandleDataSent
    <3> QED
      BY <1>1, <3>1 DEF RestOK
  <2> QED
    BY <2>1, <2>2
<1> QED
  BY <1>1, <1>4, <1>5, <1>6, <1>7 DEF RestOK

\* Every step keeps the invariant of the queue and the link.
LEMMA BaseStep ==
  ASSUME GattServerAssumption, BaseInv, [Next]_vars
  PROVE  BaseInv'
<1>1. TableInv'
  BY TableStep DEF BaseInv
<1>2. CASE AddService \/ StartAdvertising \/ Connect \/ LinkLost \/ Shutdown \/ UNCHANGED vars
  BY <1>1, <1>2, LinkStep, RestSoftDevice DEF BaseInv
<1>3. CASE SoftDeviceResumes \/ CentralConfirms \/ \E n \in 1 .. TxBuffers : RadioSends(n)
  BY <1>1, <1>3, SoftDeviceStep, RestSoftDevice DEF BaseInv
<1>4. CASE hwCallback
  BY <1>1, <1>4, EventStep, RestEvent DEF BaseInv
<1>5. ASSUME NEW c, NEW v \in Values, NEW localOnly, Write(c, v, localOnly)
      PROVE  BaseInv'
  BY <1>1, <1>5, WriteStep, RestWrite DEF BaseInv
<1>6. ASSUME NEW h \in Handles,
             \/ \E v \in Values : CentralWrites(h, v) \/ CentralAsks(h, v)
             \/ \E bits \in CCCDValues : CentralSubscribes(h, bits)
      PROVE  BaseInv'
  <2>1. LinkInv' /\ PendingInv' /\ CarriesInv'
    BY <1>6, CentralStep DEF BaseInv
  <2>2. RestOK'
    BY <1>6, RestCentral
  <2> QED
    BY <1>1, <2>1, <2>2 DEF BaseInv
<1> QED
  BY <1>2, <1>3, <1>4, <1>5, <1>6 DEF Next

\* The program starts in the invariant.
LEMMA BaseInit ==
  ASSUME GattServerAssumption, Init
  PROVE  BaseInv
<1>1. TableInv
  BY TableInit
<1>2. <<>> \in Seq(EventSet) /\ Len(<<>>) = 0 /\ MaxEvents \in Nat
  BY DEF GattServerAssumption
<1>3. Protocol(<<>>, "off", FALSE)
  BY <1>2 DEF Protocol
<1>4. LinkInv
  <2>1. Protocol(queue, link, m_connectionHandle) /\ m_connectionHandle \in BOOLEAN
    BY <1>3 DEF Init
  <2> QED
    BY <1>2, <2>1 DEF LinkInv, Init
<1>5. PendingInv /\ CarriesInv
  BY <1>2, RequestsAre DEF PendingInv, CarriesInv, Init
<1>6. RestOK
  <2>1. [k \in Handles |-> {}] \in [Handles -> SUBSET Subscriptions]
    OBVIOUS
  <2>2. [k \in Handles |-> InitialValue] \in [Handles -> Values]
    BY DEF GattServerAssumption
  <2>3. TxBuffers \in Nat /\ MaxAttributes \in Nat
    BY DEF GattServerAssumption
  <2>4. /\ value \in [Handles -> Values] /\ last \in [Handles -> Values]
        /\ cccd \in [Handles -> SUBSET Subscriptions] /\ sysAttrs \in BOOLEAN
    BY <2>1, <2>2 DEF Init
  <2>5. tx = 0 /\ indicated = 0 /\ heard = {}
    BY DEF Init
  <2> QED
    BY <2>3, <2>4, <2>5 DEF RestOK
<1> QED
  BY <1>1, <1>4, <1>5, <1>6 DEF BaseInv

(***************************************************************************)
(* Sums and concatenations over the queue.                                 *)
(***************************************************************************)

Sums == INSTANCE FoldFacts WITH Op <- Added
Words == INSTANCE FoldFacts WITH Op <- Joined

\* The fold of the module is the one of FoldFacts, with Added.
LEMMA SumsFold == \A base, seq : FoldLeft(Added, base, seq) = Sums!FoldLeft(Added, base, seq)
BY DEF FoldLeft, MapThenFoldSet, Max, Sums!FoldLeft, Sums!MapThenFoldSet, Sums!Max

\* The fold of the module is the one of FoldFacts, with Joined.
LEMMA WordsFold == \A base, seq : FoldLeft(Joined, base, seq) = Words!FoldLeft(Joined, base, seq)
BY DEF FoldLeft, MapThenFoldSet, Max, Words!FoldLeft, Words!MapThenFoldSet, Words!Max

-----------------------------------------------------------------------------
Reports(q) == [i \in DOMAIN q |-> Reported(q[i])]
Total(base, q) == FoldLeft(Added, base, Reports(q))

\* An event at the end adds what it reports.
LEMMA TotalPush ==
  ASSUME NEW base, NEW q \in Seq(EventSet), NEW e \in EventSet
  PROVE  Total(base, Append(q, e)) = Total(base, q) + Reported(e)
<1>1. PICK n \in Nat : n = Len(q)
  OBVIOUS
<1>2. PICK r : r = Append(q, e)
  OBVIOUS
<1>3. /\ DOMAIN q = 1 .. n /\ DOMAIN r = 1 .. n + 1
      /\ (\A i \in 1 .. n : r[i] = q[i]) /\ r[n + 1] = e
  BY <1>1, <1>2
<1>4. PICK s, l : s = Reports(q) /\ l = Reports(r)
  OBVIOUS
<1>5. DOMAIN s = 1 .. n /\ DOMAIN l = 1 .. n + 1 /\ n + 1 \in 1 .. n + 1
      /\ (\A i \in 1 .. n : i \in 1 .. n + 1)
  BY <1>3, <1>4 DEF Reports
<1>6. (\A i \in 1 .. n : l[i] = s[i]) /\ l[n + 1] = Reported(e)
  BY <1>3, <1>4, <1>5 DEF Reports
<1>7. Sums!FoldLeft(Added, base, l) = Added(Sums!FoldLeft(Added, base, s), l[n + 1])
  <2>1. Sums!IsLonger(l, s, n)
    BY <1>5, <1>6 DEF Sums!IsLonger
  <2>2. Sums!IsStep(Sums!FoldLeft(Added, base, s), l[n + 1],
                   Sums!FoldLeft(Added, base, l))
    BY <2>1, Sums!FoldLast
  <2> QED
    BY <2>2 DEF Sums!IsStep
<1> QED
  BY <1>2, <1>4, <1>6, <1>7, SumsFold DEF Total, Added

\* The first event is added to the base.
LEMMA TotalPop ==
  ASSUME NEW base, NEW q \in Seq(EventSet), q # <<>>
  PROVE  Total(base, q) = Total(base + Reported(q[1]), Tail(q))
<1>1. PICK r : r = Tail(q)
  OBVIOUS
<1>2. r \in Seq(EventSet) /\ Len(r) = Len(q) - 1 /\ \A i \in 1 .. Len(r) : r[i] = q[i + 1]
  BY <1>1, Popped
<1>3. PICK n \in Nat : n = Len(r) /\ n + 1 = Len(q)
  BY <1>2
<1>4. DOMAIN r = 1 .. n /\ DOMAIN q = 1 .. n + 1 /\ (\A i \in 1 .. n : r[i] = q[i + 1])
  BY <1>2, <1>3
<1>5. PICK s, l : s = Reports(r) /\ l = Reports(q)
  OBVIOUS
<1>6. DOMAIN s = 1 .. n /\ DOMAIN l = 1 .. n + 1 /\ 1 \in 1 .. n + 1
      /\ (\A i \in 1 .. n : i + 1 \in 1 .. n + 1)
  BY <1>4, <1>5 DEF Reports
<1>7. (\A i \in 1 .. n : s[i] = l[i + 1]) /\ l[1] = Reported(q[1])
  BY <1>4, <1>5, <1>6 DEF Reports
<1>8. PICK first : Sums!IsStep(base, l[1], first)
  BY DEF Sums!IsStep
<1>9. Sums!FoldLeft(Added, base, l) = Sums!FoldLeft(Added, first, s)
  <2>1. Sums!IsRest(s, l, n)
    BY <1>6, <1>7 DEF Sums!IsRest
  <2> QED
    BY <1>8, <2>1, Sums!FoldFirst
<1>10. first = base + Reported(q[1])
  BY <1>7, <1>8 DEF Sums!IsStep, Added
<1> QED
  BY <1>1, <1>5, <1>9, <1>10, SumsFold DEF Total

\* No event of q reports more than the SoftDevice can hold.
Counted(q) == \A i \in 1 .. Len(q) : Reported(q[i]) \in 0 .. TxBuffers

Bounded(t, base, n) == t >= base /\ t <= base + n * TxBuffers

\* The counts can be added to the base before or after.
LEMMA TotalShift ==
  ASSUME NEW a \in Nat, NEW b \in Nat, NEW c \in Nat, c = a + b, NEW q \in Seq(EventSet),
         Counted(q), TxBuffers \in Nat
  PROVE  /\ Total(c, q) = a + Total(b, q)
         /\ Total(b, q) \in Nat /\ Bounded(Total(b, q), b, Len(q))
<1>0. PICK s : s = Reports(q)
  OBVIOUS
<1>1. PICK n \in Nat : n = Len(q) /\ s = Reports(q)
  BY <1>0
<1>2. DOMAIN s = 1 .. n /\ \A i \in 1 .. n : s[i] \in 0 .. TxBuffers
  BY <1>1 DEF Reports, Counted
<1>3. PICK z : Sums!Runs(z, b, s, n) /\ Sums!FoldLeft(Added, b, s) = z[n]
  BY <1>2, Sums!FoldRuns
<1>4. z[0] = b /\ \A k \in 1 .. n : z[k] = Added(z[k - 1], s[k])
  BY <1>3 DEF Sums!Runs
<1> DEFINE S == {k \in Nat : k <= n => /\ z[k] \in Nat /\ z[k] >= b
                                       /\ z[k] <= b + k * TxBuffers}
<1>5. \A k \in Nat : k \in S
  <2>1. 0 \in S
    BY <1>4
  <2>2. ASSUME NEW k \in Nat, k \in S
        PROVE  k + 1 \in S
    <3> SUFFICES ASSUME k + 1 <= n
                 PROVE  /\ z[k + 1] \in Nat /\ z[k + 1] >= b
                        /\ z[k + 1] <= b + (k + 1) * TxBuffers
      OBVIOUS
    <3>1. k + 1 \in 1 .. n /\ (k + 1) - 1 = k
      OBVIOUS
    <3>2. z[k + 1] = z[k] + s[k + 1] /\ s[k + 1] \in 0 .. TxBuffers
      BY <1>2, <1>4, <3>1 DEF Added
    <3>3. z[k] \in Nat /\ z[k] >= b /\ z[k] <= b + k * TxBuffers
      BY <2>2
    <3>4. (k + 1) * TxBuffers = k * TxBuffers + TxBuffers /\ k * TxBuffers \in Nat
      OBVIOUS
    <3> QED
      BY <3>2, <3>3, <3>4
  <2> HIDE DEF S
  <2> QED
    BY <2>1, <2>2, Sums!Induction
<1>6. \A k \in 0 .. n : z[k] \in Nat /\ z[k] >= b /\ z[k] <= b + k * TxBuffers
  BY <1>5
<1> HIDE DEF S
<1> DEFINE y == [k \in 0 .. n |-> a + z[k]]
<1>7. Sums!Runs(y, c, s, n)
  <2>1. y[0] = c
    BY <1>4
  <2>2. ASSUME NEW k \in 1 .. n
        PROVE  y[k] = Added(y[k - 1], s[k])
    <3>1. k \in 0 .. n /\ k - 1 \in 0 .. n
      OBVIOUS
    <3>2. y[k] = a + z[k] /\ y[k - 1] = a + z[k - 1]
      BY <3>1
    <3>3. z[k] = z[k - 1] + s[k] /\ z[k - 1] \in Nat /\ s[k] \in Nat
      BY <1>2, <1>4, <1>6, <3>1 DEF Added
    <3> HIDE DEF y
    <3> QED
      BY <3>2, <3>3 DEF Added
  <2> HIDE DEF y
  <2> QED
    BY <2>1, <2>2 DEF Sums!Runs
<1>8. Sums!FoldLeft(Added, c, s) = y[n]
  <2> HIDE DEF y
  <2> QED
    BY <1>2, <1>7, Sums!FoldIs
<1>9. y[n] = a + z[n] /\ n \in 0 .. n
  OBVIOUS
<1> HIDE DEF y
<1>10. Total(c, q) = y[n] /\ Total(b, q) = z[n]
  BY <1>1, <1>3, <1>8, SumsFold DEF Total
<1>11. Bounded(z[n], b, n) /\ z[n] \in Nat
  BY <1>6, <1>9 DEF Bounded
<1> QED
  BY <1>1, <1>9, <1>10, <1>11

\* The property, with the total of the queue by its name.
LEMMA DataSentIs == DataSentExact <=> unsent = Total(tx, queue)
BY DEF DataSentExact, Total, Reports

\* An event reports no more than the SoftDevice can hold.
LEMMA ReportedCounts ==
  ASSUME GattServerAssumption, NEW e, Carries(e)
  PROVE  Reported(e) \in 0 .. TxBuffers
BY DEF Carries, Reported, GattServerAssumption

\* The base can be added before or after the reports.
LEMMA ShiftAny ==
  ASSUME TxBuffers \in Nat, NEW q \in Seq(EventSet), Counted(q)
  PROVE  \A a, b, c \in Nat : c = a + b => /\ Total(c, q) = a + Total(b, q)
                                         /\ Total(b, q) \in Nat
<1>1. ASSUME NEW a \in Nat, NEW b \in Nat, NEW c \in Nat, c = a + b
      PROVE  Total(c, q) = a + Total(b, q)
  BY <1>1, TotalShift
<1>2. ASSUME NEW b \in Nat
      PROVE  Total(b, q) \in Nat
  <2>1. b = 0 + b /\ 0 \in Nat
    OBVIOUS
  <2> QED
    BY <2>1, TotalShift
<1> QED
  BY <1>1, <1>2

\* The total of the queue, and of the queue after an event that counts nothing.
LEMMA TotalsAre ==
  ASSUME GattServerAssumption, BaseInv
  PROVE  /\ queue \in Seq(EventSet) /\ tx \in Nat
         /\ Counted(queue)
         /\ \A b \in Nat : Total(b, queue) \in Nat
         /\ \A a, b, c \in Nat : c = a + b => Total(c, queue) = a + Total(b, queue)
<1>1. queue \in Seq(EventSet) /\ tx \in Nat /\ TxBuffers \in Nat
  BY DEF BaseInv, LinkInv, RestOK, GattServerAssumption
<1>2. Counted(queue)
  BY ReportedCounts DEF BaseInv, CarriesInv, Counted
<1>3. \A a, b, c \in Nat : c = a + b => /\ Total(c, queue) = a + Total(b, queue)
                                       /\ Total(b, queue) \in Nat
  BY <1>1, <1>2, ShiftAny
<1>4. ASSUME NEW b \in Nat
      PROVE  Total(b, queue) \in Nat
  <2>1. b = 0 + b /\ 0 \in Nat
    OBVIOUS
  <2> QED
    BY <1>3, <2>1
<1> QED
  BY <1>1, <1>2, <1>3, <1>4

\* An event that reports nothing leaves the total as it was.
LEMMA PushOthers ==
  ASSUME GattServerAssumption, BaseInv, DataSentExact, UNCHANGED <<tx, unsent>>,
         NEW e, e \in EventSet, e.type # "tx_complete", queue' = Append(queue, e)
  PROVE  DataSentExact'
<1>1. Reported(e) = 0
  BY DEF Reported
<1>2. Total(tx, queue') = Total(tx, queue)
  <2>1. queue \in Seq(EventSet) /\ Total(tx, queue) \in Nat
    BY TotalsAre
  <2>2. Total(tx, Append(queue, e)) = Total(tx, queue) + Reported(e)
    BY <2>1, TotalPush
  <2> QED
    BY <1>1, <2>1, <2>2
<1>3. unsent' = Total(tx', queue')
  BY <1>2, DataSentIs
<1> QED
  BY <1>3 DEF DataSentExact, Total, Reports

\* The steps that send, queue and report nothing.
LEMMA DataSentOthers ==
  ASSUME GattServerAssumption, BaseInv, DataSentExact,
         \/ SoftDeviceResumes \/ CentralConfirms \/ AddService \/ StartAdvertising \/ Connect
         \/ UNCHANGED vars
         \/ \E h \in Handles, v \in Values : CentralWrites(h, v) \/ CentralAsks(h, v)
         \/ \E h \in Handles, bits \in CCCDValues : CentralSubscribes(h, bits)
  PROVE  DataSentExact'
<1>1. UNCHANGED <<tx, unsent>>
  BY DEF SoftDeviceResumes, CentralConfirms, AddService, StartAdvertising, Connect, vars,
     CentralWrites, CentralAsks, CentralSubscribes, linkVars, historyVars
<1>2. \/ UNCHANGED queue
      \/ \E type, h, d : queue' = Append(queue, Event(type, h, d)) /\ type # "tx_complete"
  <2>1. CASE AddService \/ StartAdvertising \/ UNCHANGED vars
    BY <2>1 DEF AddService, StartAdvertising, vars
  <2>2. CASE SoftDeviceResumes \/ CentralConfirms \/ Connect
    BY <2>2 DEF SoftDeviceResumes, CentralConfirms, Connect, Push
  <2>3. CASE \E h \in Handles, v \in Values : CentralWrites(h, v) \/ CentralAsks(h, v)
    BY <2>3 DEF CentralWrites, CentralAsks, Push
  <2>4. CASE \E h \in Handles, bits \in CCCDValues : CentralSubscribes(h, bits)
    BY <2>4 DEF CentralSubscribes, Push
  <2> QED
    BY <2>1, <2>2, <2>3, <2>4
<1>3. CASE UNCHANGED queue
  BY <1>1, <1>3 DEF DataSentExact
<1>4. ASSUME NEW type, NEW h, NEW d, queue' = Append(queue, Event(type, h, d)),
             type # "tx_complete"
      PROVE  DataSentExact'
  <2>1. queue' \in Seq(EventSet) /\ queue \in Seq(EventSet)
    BY BaseStep DEF BaseInv, LinkInv, Next
  <2>2. queue'[Len(queue) + 1] = Event(type, h, d) /\ Len(queue) + 1 \in 1 .. Len(queue')
    BY <1>4, <2>1
  <2>3. Event(type, h, d) \in EventSet
    BY <2>1, <2>2
  <2>4. Event(type, h, d).type # "tx_complete"
    BY <1>4 DEF Event
  <2> QED
    BY <1>1, <1>4, <2>3, <2>4, PushOthers
<1> QED
  BY <1>2, <1>3, <1>4

(***************************************************************************)
(* The reports of sent notifications: each step that could disturb them.   *)
(***************************************************************************)

\* The notifications a lost link had not sent are not counted.
LEMMA DataSentLost ==
  ASSUME GattServerAssumption, BaseInv, DataSentExact, LinkLost
  PROVE  DataSentExact'
<1>1. /\ tx' = 0 /\ unsent' = unsent - tx
      /\ queue' = Append(queue, Event("disconnected", 0, InitialValue))
  BY DEF LinkLost
<1>2. PICK e \in EventSet : e = Event("disconnected", 0, InitialValue) /\ e.type = "disconnected"
  <2>1. InitialValue \in Payload /\ 0 \in Nat /\ "disconnected" \in EventTypes
    BY DEF GattServerAssumption, Payload, EventTypes
  <2> QED
    BY <2>1, EventsAre
<1>3. queue \in Seq(EventSet) /\ tx \in Nat /\ Total(0, queue) \in Nat
      /\ Total(tx, queue) = tx + Total(0, queue)
  <2>1. tx = tx + 0 /\ 0 \in Nat /\ tx \in Nat
    BY TotalsAre
  <2> QED
    BY <2>1, TotalsAre
<1>4. Total(0, queue') = Total(0, queue) + Reported(e) /\ Reported(e) = 0
  <2>1. Total(0, Append(queue, e)) = Total(0, queue) + Reported(e)
    BY <1>3, TotalPush
  <2> QED
    BY <1>1, <1>2, <2>1 DEF Reported
<1>5. unsent = Total(tx, queue)
  BY DataSentIs
<1>6. unsent' = Total(tx', queue')
  BY <1>1, <1>3, <1>4, <1>5
<1> QED
  BY <1>6 DEF DataSentExact, Total, Reports

\* What the radio sends moves from the SoftDevice into an event.
LEMMA DataSentRadio ==
  ASSUME GattServerAssumption, BaseInv, DataSentExact, NEW n \in 1 .. TxBuffers, RadioSends(n)
  PROVE  DataSentExact'
<1>1. /\ tx' = tx - n /\ unsent' = unsent /\ n \in 1 .. tx
      /\ queue' = Append(queue, Event("tx_complete", 0, n))
  BY DEF RadioSends, Push, historyVars
<1>2. PICK e \in EventSet : /\ e = Event("tx_complete", 0, n)
                            /\ e.type = "tx_complete" /\ e.data = n
  <2>1. n \in Payload /\ 0 \in Nat /\ "tx_complete" \in EventTypes
    BY DEF Payload, EventTypes
  <2> QED
    BY <2>1, EventsAre
<1>3. queue \in Seq(EventSet) /\ tx \in Nat
  BY TotalsAre
<1>4. PICK m \in Nat : m = tx - n /\ tx = n + m /\ n \in Nat
  BY <1>1, <1>3
<1>5. Total(tx, queue) = n + Total(m, queue) /\ Total(m, queue) \in Nat
  BY <1>3, <1>4, TotalsAre
<1>6. Total(m, Append(queue, e)) = Total(m, queue) + Reported(e)
  BY <1>3, TotalPush
<1>7. Reported(e) = n
  BY <1>2 DEF Reported
<1>8. Total(m, queue') = Total(m, queue) + n
  BY <1>1, <1>2, <1>6, <1>7
<1>9. unsent = Total(tx, queue)
  BY DataSentIs
<1>10. Total(m, queue') = Total(tx, queue)
  BY <1>4, <1>5, <1>8
<1>11. unsent' = Total(tx', queue')
  BY <1>1, <1>4, <1>9, <1>10
<1> QED
  BY <1>11 DEF DataSentExact, Total, Reports

\* A write() that is accepted is counted once.
LEMMA DataSentWrite ==
  ASSUME GattServerAssumption, BaseInv, DataSentExact, NEW c, NEW v, NEW localOnly,
         Write(c, v, localOnly)
  PROVE  DataSentExact'
<1>1. UNCHANGED queue
  BY DEF Write
<1>2. UNCHANGED <<tx, unsent>> \/ (tx' = tx + 1 /\ unsent' = unsent + 1)
  BY DEF Write, Hvx, HvxRefused
<1>3. unsent = Total(tx, queue)
  BY DataSentIs
<1>4. CASE UNCHANGED <<tx, unsent>>
  BY <1>1, <1>4 DEF DataSentExact
<1>5. CASE tx' = tx + 1 /\ unsent' = unsent + 1
  <2>1. tx \in Nat /\ Total(tx, queue) \in Nat
    BY TotalsAre
  <2>2. PICK m \in Nat : m = 1 + tx /\ m = tx'
    BY <1>5, <2>1
  <2>3. Total(m, queue) = 1 + Total(tx, queue)
    BY <2>1, <2>2, TotalsAre
  <2>4. unsent' = Total(tx', queue')
    BY <1>1, <1>3, <1>5, <2>1, <2>2, <2>3
  <2> QED
    BY <2>4 DEF DataSentExact, Total, Reports
<1> QED
  BY <1>2, <1>4, <1>5

\* What is reported is no longer owed.
LEMMA DataSentEvent ==
  ASSUME GattServerAssumption, BaseInv, DataSentExact, hwCallback
  PROVE  DataSentExact'
<1>1. queue \in Seq(EventSet) /\ tx \in Nat /\ TxBuffers \in Nat /\ Counted(queue)
  BY TotalsAre DEF GattServerAssumption
<1>2. /\ queue # <<>> /\ queue' = Tail(queue) /\ tx' = tx
      /\ unsent' = unsent - Reported(Head(queue))
  BY DEF hwCallback
<1>3. /\ queue' \in Seq(EventSet) /\ Len(queue') = Len(queue) - 1
      /\ Head(queue) = queue[1] /\ 1 \in 1 .. Len(queue)
      /\ \A i \in 1 .. Len(queue') : queue'[i] = queue[i + 1] /\ i + 1 \in 1 .. Len(queue)
  BY <1>1, <1>2, Popped
<1>4. Counted(queue')
  BY <1>1, <1>3 DEF Counted
<1>5. PICK r \in Nat : r = Reported(queue[1])
  BY <1>1, <1>3 DEF Counted
<1>6. PICK m \in Nat : m = r + tx
  BY <1>1
<1>7. Total(tx, queue) = Total(tx + Reported(queue[1]), Tail(queue))
  BY <1>1, <1>2, TotalPop
<1>8. tx + Reported(queue[1]) = m
  BY <1>1, <1>5, <1>6
<1>9. Total(m, queue') = r + Total(tx, queue') /\ Total(tx, queue') \in Nat
  <2>1. PICK q \in Seq(EventSet) : q = queue'
    BY <1>3
  <2>2. Counted(q)
    BY <1>4, <2>1
  <2>3. PICK b \in Nat : b = tx /\ m = r + b /\ TxBuffers \in Nat
    BY <1>1, <1>6
  <2>4. \A x, y, z \in Nat : z = x + y => /\ Total(z, q) = x + Total(y, q)
                                         /\ Total(y, q) \in Nat
    BY <2>2, <2>3, ShiftAny
  <2>5. Total(m, q) = r + Total(b, q) /\ Total(b, q) \in Nat
    BY <2>3, <2>4
  <2> QED
    BY <2>1, <2>3, <2>5
<1>10. unsent = Total(tx, queue)
  BY DataSentIs
<1>11. Total(tx, queue) = Total(m, queue')
  BY <1>2, <1>7, <1>8
<1>12. unsent' = unsent - r
  BY <1>2, <1>3, <1>5
<1>13. unsent' = Total(tx', queue')
  BY <1>1, <1>2, <1>9, <1>10, <1>11, <1>12
<1> QED
  BY <1>13 DEF DataSentExact, Total, Reports

\* An empty queue reports nothing.
LEMMA DataSentNone ==
  ASSUME NEW b
  PROVE  Total(b, <<>>) = b
<1>1. DOMAIN Reports(<<>>) = {}
  BY DEF Reports
<1>2. Sums!FoldLeft(Added, b, Reports(<<>>)) = b
  BY <1>1, Sums!FoldEmpty
<1> QED
  BY <1>2, SumsFold DEF Total

\* A shutdown leaves nothing to report.
LEMMA DataSentShutdown ==
  ASSUME Shutdown
  PROVE  DataSentExact'
<1>1. tx' = 0 /\ unsent' = 0 /\ queue' = <<>>
  BY DEF Shutdown
<1>2. unsent' = Total(tx', queue')
  BY <1>1, DataSentNone
<1> QED
  BY <1>2 DEF DataSentExact, Total, Reports

\* Every step keeps the count of the reports.
LEMMA DataSentStep ==
  ASSUME GattServerAssumption, BaseInv, DataSentExact, [Next]_vars
  PROVE  DataSentExact'
<1>1. CASE hwCallback
  BY <1>1, DataSentEvent
<1>2. CASE Shutdown
  BY <1>2, DataSentShutdown
<1>3. CASE LinkLost
  BY <1>3, DataSentLost
<1>4. CASE \E n \in 1 .. TxBuffers : RadioSends(n)
  BY <1>4, DataSentRadio
<1>5. CASE \E c \in Characteristics, v \in Values, localOnly \in BOOLEAN : Write(c, v, localOnly)
  BY <1>5, DataSentWrite
<1>6. CASE \/ SoftDeviceResumes \/ CentralConfirms \/ AddService \/ StartAdvertising \/ Connect
           \/ UNCHANGED vars
           \/ \E h \in Handles, v \in Values : CentralWrites(h, v) \/ CentralAsks(h, v)
           \/ \E h \in Handles, bits \in CCCDValues : CentralSubscribes(h, bits)
  BY <1>6, DataSentOthers
<1> QED
  BY <1>1, <1>2, <1>3, <1>4, <1>5, <1>6 DEF Next

\* At the start there is nothing to report.
LEMMA DataSentInit ==
  ASSUME Init
  PROVE  DataSentExact
<1>1. tx = 0 /\ unsent = 0 /\ queue = <<>>
  BY DEF Init
<1>2. unsent = Total(tx, queue)
  BY <1>1, DataSentNone
<1> QED
  BY <1>2, DataSentIs

\* The counts of onDataSent are those of the notifications write() queued:
\* none is lost or counted twice, whatever order the radio, the application and
\* the loss of the link come in (nRF5xGattServer.cpp:406-409).
THEOREM DataSentIsExact == Spec => []DataSentExact
<1>1. GattServerAssumption
  BY GattServerAssumption
<1>2. Init => BaseInv /\ DataSentExact
  BY <1>1, BaseInit, DataSentInit
<1>3. BaseInv /\ DataSentExact /\ [Next]_vars => BaseInv' /\ DataSentExact'
  BY <1>1, BaseStep, DataSentStep
<1> QED
  BY <1>2, <1>3, PTL DEF Spec

\* The types and bounds that follow from the invariant.
LEMMA TypesFollow ==
  ASSUME GattServerAssumption, BaseInv, DataSentExact
  PROVE  TypeOK
<1>1. unsent \in 0 .. TxBuffers + MaxEvents * TxBuffers
  <2>1. PICK n \in Nat : n = Len(queue)
    BY TotalsAre
  <2>2. unsent = Total(tx, queue) /\ Total(tx, queue) \in Nat /\ tx \in 0 .. TxBuffers
        /\ TxBuffers \in Nat /\ MaxEvents \in Nat
    BY DataSentIs, TotalsAre DEF BaseInv, RestOK, GattServerAssumption
  <2>3. Bounded(Total(tx, queue), tx, n)
    <3>1. tx = 0 + tx /\ 0 \in Nat /\ tx \in Nat
      BY <2>2
    <3> QED
      BY <2>1, <2>2, <3>1, TotalsAre, TotalShift
  <2>4. unsent <= tx + n * TxBuffers
    BY <2>2, <2>3 DEF Bounded
  <2>5. CASE n <= MaxEvents
    <3>1. n * TxBuffers <= MaxEvents * TxBuffers
      BY <2>2, <2>5
    <3>2. n * TxBuffers \in Nat /\ MaxEvents * TxBuffers \in Nat
      BY <2>2
    <3> QED
      BY <2>2, <2>4, <3>1, <3>2
  <2>6. CASE ~ (n <= MaxEvents)
    <3>1. n = MaxEvents + 1 /\ tx = 0
      BY <2>1, <2>2, <2>6 DEF BaseInv, LinkInv, PendingInv
    <3>2. n * TxBuffers = MaxEvents * TxBuffers + TxBuffers /\ MaxEvents * TxBuffers \in Nat
      BY <2>2, <3>1
    <3> QED
      BY <2>2, <2>4, <3>1, <3>2
  <2> QED
    BY <2>5, <2>6
<1>2. /\ server.characteristicCount \in 0 .. BLE_TOTAL_CHARACTERISTICS
      /\ server.descriptorCount \in 0 .. BLE_TOTAL_DESCRIPTORS
      /\ Len(server.convertedUUIDTable) <= UUID_TABLE_MAX_ENTRIES
      /\ Len(table) <= MaxAttributes
  BY DEF BaseInv, TableInv, Sound, ServerSet
<1>3. Len(queue) <= MaxEvents + 1
  BY DEF BaseInv, LinkInv, GattServerAssumption
<1>4. /\ link \in {"off", "advertising", "connected"} /\ m_connectionHandle \in BOOLEAN
  BY DEF BaseInv, LinkInv
<1>5. RestOK
  BY DEF BaseInv
<1> QED
  BY <1>1, <1>2, <1>3, <1>4, <1>5, Zenon DEF TypeOK, RestOK

\* The counters of the driver stay within its tables and the SoftDevice's,
\* whatever services are added, fail and are forgotten; the queue and the
\* reports are bounded by those of one connection.
THEOREM TypesAreOK == Spec => []TypeOK
<1>1. GattServerAssumption
  BY GattServerAssumption
<1>2. Init => BaseInv /\ DataSentExact
  BY <1>1, BaseInit, DataSentInit
<1>3. BaseInv /\ DataSentExact /\ [Next]_vars => BaseInv' /\ DataSentExact'
  BY <1>1, BaseStep, DataSentStep
<1>4. BaseInv /\ DataSentExact => TypeOK
  BY <1>1, TypesFollow
<1> QED
  BY <1>2, <1>3, <1>4, PTL DEF Spec

(***************************************************************************)
(* The writes of the central the application is still owed.                *)
(***************************************************************************)

Pairs == Nat \X Payload
Told(q) == [i \in DOMAIN q |-> Unheard(q[i])]
Owed(q) == FoldLeft(Joined, <<>>, Told(q))

\* What an event owes the application is a sequence of writes.
LEMMA UnheardIs ==
  ASSUME NEW e \in EventSet
  PROVE  Unheard(e) \in Seq(Pairs)
<1>1. e.handle \in Nat /\ e.data \in Payload
  BY DEF EventSet
<1>2. <<e.handle, e.data>> \in Pairs
  BY <1>1 DEF Pairs
<1> HIDE DEF Pairs
<1> QED
  BY <1>2 DEF Unheard

\* An event at the end adds what it owes.
LEMMA OwedPush ==
  ASSUME NEW q \in Seq(EventSet), NEW e \in EventSet
  PROVE  Owed(Append(q, e)) = Owed(q) \o Unheard(e)
<1>1. PICK n \in Nat : n = Len(q)
  OBVIOUS
<1>2. PICK r : r = Append(q, e)
  OBVIOUS
<1>3. /\ DOMAIN q = 1 .. n /\ DOMAIN r = 1 .. n + 1
      /\ (\A i \in 1 .. n : r[i] = q[i]) /\ r[n + 1] = e
  BY <1>1, <1>2
<1>4. PICK s, l : s = Told(q) /\ l = Told(r)
  OBVIOUS
<1>5. DOMAIN s = 1 .. n /\ DOMAIN l = 1 .. n + 1 /\ n + 1 \in 1 .. n + 1
      /\ (\A i \in 1 .. n : i \in 1 .. n + 1)
  BY <1>3, <1>4 DEF Told
<1>6. (\A i \in 1 .. n : l[i] = s[i]) /\ l[n + 1] = Unheard(e)
  BY <1>3, <1>4, <1>5 DEF Told
<1>7. Words!FoldLeft(Joined, <<>>, l) = Joined(Words!FoldLeft(Joined, <<>>, s), l[n + 1])
  <2>1. Words!IsLonger(l, s, n)
    BY <1>5, <1>6 DEF Words!IsLonger
  <2>2. Words!IsStep(Words!FoldLeft(Joined, <<>>, s), l[n + 1],
                   Words!FoldLeft(Joined, <<>>, l))
    BY <2>1, Words!FoldLast
  <2> QED
    BY <2>2 DEF Words!IsStep
<1> QED
  BY <1>2, <1>4, <1>6, <1>7, WordsFold DEF Owed, Joined

\* What the queue owes follows what was owed before.
LEMMA OwedIs ==
  ASSUME NEW a \in Seq(Pairs), NEW q \in Seq(EventSet)
  PROVE  /\ Owed(q) \in Seq(Pairs)
         /\ FoldLeft(Joined, a, Told(q)) = a \o Owed(q)
<1>0. PICK s : s = Told(q)
  OBVIOUS
<1>1. PICK n \in Nat : n = Len(q) /\ s = Told(q)
  BY <1>0
<1>2. DOMAIN s = 1 .. n /\ \A i \in 1 .. n : s[i] \in Seq(Pairs)
  <2>1. \A i \in 1 .. n : q[i] \in EventSet
    BY <1>1
  <2> QED
    BY <1>1, <2>1, UnheardIs DEF Told
<1>3. PICK z : Words!Runs(z, <<>>, s, n) /\ Words!FoldLeft(Joined, <<>>, s) = z[n]
  BY <1>2, Words!FoldRuns
<1>4. z[0] = <<>> /\ \A k \in 1 .. n : z[k] = Joined(z[k - 1], s[k])
  BY <1>3 DEF Words!Runs
<1> DEFINE S == {k \in Nat : k <= n => z[k] \in Seq(Pairs)}
<1>5. \A k \in Nat : k \in S
  <2>1. 0 \in S
    <3>1. <<>> \in Seq(Pairs)
      OBVIOUS
    <3> QED
      BY <1>4, <3>1
  <2>2. ASSUME NEW k \in Nat, k \in S
        PROVE  k + 1 \in S
    <3> SUFFICES ASSUME k + 1 <= n
                 PROVE  z[k + 1] \in Seq(Pairs)
      OBVIOUS
    <3>1. k + 1 \in 1 .. n /\ (k + 1) - 1 = k
      OBVIOUS
    <3>2. z[k + 1] = z[k] \o s[k + 1] /\ s[k + 1] \in Seq(Pairs)
      BY <1>2, <1>4, <3>1 DEF Joined
    <3>3. z[k] \in Seq(Pairs)
      BY <2>2
    <3> QED
      BY <3>2, <3>3, Concatenation
  <2> HIDE DEF S
  <2> QED
    BY <2>1, <2>2, Words!Induction
<1>6. \A k \in 0 .. n : z[k] \in Seq(Pairs)
  BY <1>5
<1> HIDE DEF S
<1> DEFINE y == [k \in 0 .. n |-> a \o z[k]]
<1>7. Words!Runs(y, a, s, n)
  <2>1. y[0] = a
    <3>1. y[0] = a \o <<>>
      BY <1>4
    <3> QED
      BY <3>1, ConcatEmptySeq
  <2>2. ASSUME NEW k \in 1 .. n
        PROVE  y[k] = Joined(y[k - 1], s[k])
    <3>1. k \in 0 .. n /\ k - 1 \in 0 .. n
      OBVIOUS
    <3>2. y[k] = a \o z[k] /\ y[k - 1] = a \o z[k - 1]
      BY <3>1
    <3>3. z[k] = z[k - 1] \o s[k] /\ z[k - 1] \in Seq(Pairs) /\ s[k] \in Seq(Pairs)
      BY <1>2, <1>4, <1>6, <3>1 DEF Joined
    <3>4. (a \o z[k - 1]) \o s[k] = a \o (z[k - 1] \o s[k])
      <4>1. PICK u \in Seq(Pairs), w \in Seq(Pairs) : u = z[k - 1] /\ w = s[k]
        BY <3>3
      <4>2. (a \o u) \o w = a \o (u \o w)
        BY ConcatAssociative
      <4> QED
        BY <4>1, <4>2
    <3> HIDE DEF y
    <3> QED
      BY <3>2, <3>3, <3>4 DEF Joined
  <2> HIDE DEF y
  <2> QED
    BY <2>1, <2>2 DEF Words!Runs
<1>8. Words!FoldLeft(Joined, a, s) = y[n]
  <2> HIDE DEF y
  <2> QED
    BY <1>2, <1>7, Words!FoldIs
<1>9. y[n] = a \o z[n] /\ n \in 0 .. n
  OBVIOUS
<1> HIDE DEF y
<1>10. FoldLeft(Joined, a, s) = y[n] /\ Owed(q) = z[n]
  BY <1>1, <1>3, <1>8, WordsFold DEF Owed
<1> QED
  BY <1>1, <1>6, <1>9, <1>10

\* The writes of the first event are the first that are owed.
LEMMA OwedPop ==
  ASSUME NEW q \in Seq(EventSet), q # <<>>
  PROVE  /\ Owed(q) = Unheard(q[1]) \o Owed(Tail(q))
         /\ Owed(Tail(q)) \in Seq(Pairs)
<1>1. PICK r : r = Tail(q)
  OBVIOUS
<1>2. r \in Seq(EventSet) /\ Len(r) = Len(q) - 1 /\ \A i \in 1 .. Len(r) : r[i] = q[i + 1]
  BY <1>1, Popped
<1>3. PICK n \in Nat : n = Len(r) /\ n + 1 = Len(q)
  BY <1>2
<1>4. DOMAIN r = 1 .. n /\ DOMAIN q = 1 .. n + 1 /\ (\A i \in 1 .. n : r[i] = q[i + 1])
  BY <1>2, <1>3
<1>5. PICK s, l : s = Told(r) /\ l = Told(q)
  OBVIOUS
<1>6. DOMAIN s = 1 .. n /\ DOMAIN l = 1 .. n + 1 /\ 1 \in 1 .. n + 1
      /\ (\A i \in 1 .. n : i + 1 \in 1 .. n + 1)
  BY <1>4, <1>5 DEF Told
<1>7. (\A i \in 1 .. n : s[i] = l[i + 1]) /\ l[1] = Unheard(q[1])
  BY <1>4, <1>5, <1>6 DEF Told
<1>8. PICK first : Words!IsStep(<<>>, l[1], first)
  BY DEF Words!IsStep
<1>9. Words!FoldLeft(Joined, <<>>, l) = Words!FoldLeft(Joined, first, s)
  <2>1. Words!IsRest(s, l, n)
    BY <1>6, <1>7 DEF Words!IsRest
  <2> QED
    BY <1>8, <2>1, Words!FoldFirst
<1>10. first = Unheard(q[1]) /\ first \in Seq(Pairs)
  <2>1. Unheard(q[1]) \in Seq(Pairs)
    BY Popped, UnheardIs
  <2>2. first = <<>> \o Unheard(q[1])
    BY <1>7, <1>8 DEF Words!IsStep, Joined
  <2> QED
    BY <2>1, <2>2, ConcatEmptySeq
<1>11. FoldLeft(Joined, first, Told(r)) = first \o Owed(r) /\ Owed(r) \in Seq(Pairs)
  BY <1>2, <1>10, OwedIs
<1>12. Owed(q) = FoldLeft(Joined, first, Told(r))
  BY <1>5, <1>9, WordsFold DEF Owed
<1> QED
  BY <1>1, <1>10, <1>11, <1>12

\* An empty queue owes nothing.
LEMMA OwedNone == Owed(<<>>) = <<>>
<1>1. DOMAIN Told(<<>>) = {}
  BY DEF Told
<1>2. Words!FoldLeft(Joined, <<>>, Told(<<>>)) = <<>>
  BY <1>1, Words!FoldEmpty
<1> QED
  BY <1>2, WordsFold DEF Owed

\* The property, with the writes the queue owes by their name.
LEMMA ToldIs ==
  /\ ToldOfWrites <=> owed = Owed(queue)
  /\ UNCHANGED table => (owed' = Owed(queue') => ToldOfWrites')
<1>1. ToldOfWrites <=> owed = Owed(queue)
  BY DEF ToldOfWrites, Owed, Told
<1>2. ASSUME UNCHANGED table, owed' = Owed(queue')
      PROVE  ToldOfWrites'
  <2>1. \A e : Unheard(e)' = Unheard(e)
    BY <1>2 DEF Unheard
  <2>2. [i \in DOMAIN queue |-> Unheard(queue[i])]' = Told(queue')
    BY <2>1 DEF Told
  <2> QED
    BY <1>2, <2>2 DEF ToldOfWrites, Owed
<1> QED
  BY <1>1, <1>2

\* No writes are a sequence of writes.
LEMMA EmptyPairs == <<>> \in Seq(Pairs)
OBVIOUS

\* An event that is no write of a value.
LEMMA ToldPush ==
  ASSUME BaseInv, ToldOfWrites, UNCHANGED <<table, owed>>, NEW e \in EventSet,
         Unheard(e) = <<>>, queue' = Append(queue, e)
  PROVE  ToldOfWrites'
<1>1. queue \in Seq(EventSet) /\ owed = Owed(queue)
  BY ToldIs DEF BaseInv, LinkInv
<1>2. Owed(Append(queue, e)) = Owed(queue) \o <<>>
  BY <1>1, OwedPush
<1>3. Owed(queue) \in Seq(Pairs)
  BY <1>1, OwedIs, EmptyPairs
<1>4. Owed(queue) \o <<>> = Owed(queue)
  BY <1>3, ConcatEmptySeq
<1> QED
  BY <1>1, <1>2, <1>4, ToldIs

\* The steps that push no write of a value.
LEMMA ToldOthers ==
  ASSUME GattServerAssumption, BaseInv, ToldOfWrites,
         \/ SoftDeviceResumes \/ CentralConfirms \/ StartAdvertising \/ Connect \/ LinkLost
         \/ UNCHANGED vars \/ \E n \in 1 .. TxBuffers : RadioSends(n)
         \/ \E c \in Characteristics, v \in Values, localOnly \in BOOLEAN : Write(c, v, localOnly)
         \/ \E h \in Handles, v \in Values : CentralAsks(h, v)
         \/ \E h \in Handles, bits \in CCCDValues : CentralSubscribes(h, bits)
  PROVE  ToldOfWrites'
<1>1. UNCHANGED <<table, owed>>
  BY DEF SoftDeviceResumes, CentralConfirms, StartAdvertising, Connect, LinkLost, vars,
     RadioSends, Write, CentralAsks, CentralSubscribes, linkVars, sdVars, historyVars
<1>2. \/ UNCHANGED queue
      \/ \E type, h, d : /\ queue' = Append(queue, Event(type, h, d))
                         /\ type # "write" \/ h \in Attributes("cccd")
  <2>1. CASE \/ StartAdvertising \/ UNCHANGED vars
             \/ \E c \in Characteristics, v \in Values, localOnly \in BOOLEAN : Write(c, v, localOnly)
    BY <2>1 DEF StartAdvertising, Write, vars
  <2>2. CASE SoftDeviceResumes
    BY <2>2 DEF SoftDeviceResumes, Push, BaseInv, PendingInv
  <2>3. CASE CentralConfirms \/ Connect \/ LinkLost
    BY <2>3 DEF CentralConfirms, Connect, LinkLost, Push
  <2>4. CASE \E n \in 1 .. TxBuffers : RadioSends(n)
    BY <2>4 DEF RadioSends, Push
  <2>5. CASE \E h \in Handles, v \in Values : CentralAsks(h, v)
    BY <2>5 DEF CentralAsks, Push
  <2>6. CASE \E h \in Handles, bits \in CCCDValues : CentralSubscribes(h, bits)
    BY <2>6 DEF CentralSubscribes, Push
  <2> QED
    BY <2>1, <2>2, <2>3, <2>4, <2>5, <2>6
<1>3. CASE UNCHANGED queue
  BY <1>1, <1>3, ToldIs
<1>4. ASSUME NEW type, NEW h, NEW d, queue' = Append(queue, Event(type, h, d)),
             type # "write" \/ h \in Attributes("cccd")
      PROVE  ToldOfWrites'
  <2>1. queue' \in Seq(EventSet) /\ queue \in Seq(EventSet)
    <3>1. [Next]_vars
      BY DEF Next
    <3> QED
      BY <3>1, BaseStep DEF BaseInv, LinkInv
  <2>2. queue'[Len(queue) + 1] = Event(type, h, d) /\ Len(queue) + 1 \in 1 .. Len(queue')
    BY <1>4, <2>1
  <2>3. Event(type, h, d) \in EventSet
    BY <2>1, <2>2
  <2>4. Unheard(Event(type, h, d)) = <<>>
    <3>0. Event(type, h, d).type = type /\ Event(type, h, d).handle = h
      BY DEF Event
    <3>1. PICK e \in EventSet : e = Event(type, h, d) /\ e.type = type /\ e.handle = h
      BY <2>3, <3>0
    <3>2. type = "write" => table[h].kind = "cccd"
      BY <1>4 DEF Attributes
    <3>3. Unheard(e) = <<>>
      BY <3>1, <3>2 DEF Unheard
    <3> QED
      BY <3>1, <3>3
  <2> QED
    BY <1>1, <1>4, <2>3, <2>4, ToldPush
<1> QED
  BY <1>2, <1>3, <1>4

(***************************************************************************)
(* The writes the application has to authorize: nothing the central writes *)
(* comes after one in the queue, as the central waits for the reply.       *)
(***************************************************************************)

Writes == {"write", "authorize_write"}
Alone(q) == \A i, j \in 1 .. Len(q) : q[i].type = "authorize_write" /\ i < j => q[j].type \notin Writes
Unasked(q) == \A i \in 1 .. Len(q) : q[i].type # "authorize_write"
AskInv ==
  /\ Alone(queue)
  /\ link = "connected" /\ pending.kind # "write" => Unasked(queue)

\* A new event is no write, or there was none to authorize.
LEMMA AskPush ==
  ASSUME NEW q \in Seq(EventSet), NEW e \in EventSet, Alone(q),
         e.type \notin Writes \/ Unasked(q)
  PROVE  /\ Alone(Append(q, e))
         /\ Unasked(q) /\ e.type # "authorize_write" => Unasked(Append(q, e))
<1>1. PICK r : r = Append(q, e)
  OBVIOUS
<1>2. /\ Len(r) = Len(q) + 1 /\ Len(q) \in Nat /\ r[Len(q) + 1] = e
      /\ \A i \in 1 .. Len(q) : r[i] = q[i]
  BY <1>1
<1>3. Alone(r)
  BY <1>2 DEF Alone, Unasked
<1>4. Unasked(q) /\ e.type # "authorize_write" => Unasked(r)
  BY <1>2 DEF Unasked
<1> QED
  BY <1>1, <1>3, <1>4

\* After a write to authorize there is no other one.
LEMMA AskPop ==
  ASSUME NEW q \in Seq(EventSet), q # <<>>, Alone(q)
  PROVE  /\ Alone(Tail(q)) /\ (Unasked(q) => Unasked(Tail(q)))
         /\ q[1].type = "authorize_write" =>
              \A i \in 1 .. Len(Tail(q)) : Tail(q)[i].type \notin Writes
<1>1. PICK r : r = Tail(q)
  OBVIOUS
<1>2. /\ Len(r) \in Nat /\ 1 \in 1 .. Len(q)
      /\ \A i \in 1 .. Len(r) : r[i] = q[i + 1] /\ i + 1 \in 1 .. Len(q)
  BY <1>1, Popped
<1>3. Alone(r)
  BY <1>2 DEF Alone
<1>4. Unasked(q) => Unasked(r)
  BY <1>2 DEF Unasked
<1>5. q[1].type = "authorize_write" => \A i \in 1 .. Len(r) : r[i].type \notin Writes
  BY <1>2 DEF Alone
<1> QED
  BY <1>1, <1>3, <1>4, <1>5

\* The steps that put an event of a connection into the queue.
LEMMA AskCentral ==
  ASSUME GattServerAssumption, BaseInv, AskInv,
         \/ CentralConfirms \/ SoftDeviceResumes \/ \E n \in 1 .. TxBuffers : RadioSends(n)
         \/ \E h \in Handles, v \in Values : CentralWrites(h, v) \/ CentralAsks(h, v)
         \/ \E h \in Handles, bits \in CCCDValues : CentralSubscribes(h, bits)
  PROVE  AskInv'
<1>1. link = "connected" /\ link' = "connected"
  BY DEF SoftDeviceResumes, CentralConfirms, RadioSends, CentralWrites, CentralAsks, Requests,
     CentralSubscribes, linkVars, BaseInv, PendingInv
<1>2. \E type, h, d :
        /\ queue' = Append(queue, Event(type, h, d))
        /\ \/ type \notin Writes /\ (pending' = pending \/ pending.kind = "none")
           \/ type = "write" /\ pending.kind # "write"
           \/ type = "authorize_write" /\ pending.kind = "none" /\ pending'.kind = "write"
  <2>1. CASE CentralConfirms \/ \E n \in 1 .. TxBuffers : RadioSends(n)
    BY <2>1 DEF CentralConfirms, RadioSends, Push, Writes
  <2>2. CASE SoftDeviceResumes
    BY <2>2 DEF SoftDeviceResumes, Push
  <2>3. CASE \E h \in Handles, v \in Values : CentralWrites(h, v)
    BY <2>3 DEF CentralWrites, Push
  <2>4. CASE \E h \in Handles, v \in Values : CentralAsks(h, v)
    <3>1. PICK h \in Handles, v \in Values : CentralAsks(h, v)
      BY <2>4
    <3>2. \/ /\ queue' = Append(queue, Event("authorize_write", h, v))
             /\ pending.kind = "none" /\ pending' = Request("write", h, v)
          \/ /\ queue' = Append(queue, Event("authorize_read", h, v))
             /\ pending.kind = "none"
      BY <3>1 DEF CentralAsks, Push, Requests
    <3> QED
      BY <3>2, RequestsAre DEF Writes
  <2>5. CASE \E h \in Handles, bits \in CCCDValues : CentralSubscribes(h, bits)
    BY <2>5 DEF CentralSubscribes, Push, Requests, Writes
  <2> QED
    BY <2>1, <2>2, <2>3, <2>4, <2>5
<1>3. queue' \in Seq(EventSet) /\ queue \in Seq(EventSet)
  <2>1. [Next]_vars
    BY DEF Next
  <2> QED
    BY <2>1, BaseStep DEF BaseInv, LinkInv
<1>4. PICK type, h, d :
        /\ queue' = Append(queue, Event(type, h, d))
        /\ \/ type \notin Writes /\ (pending' = pending \/ pending.kind = "none")
           \/ type = "write" /\ pending.kind # "write"
           \/ type = "authorize_write" /\ pending.kind = "none" /\ pending'.kind = "write"
  BY <1>2
<1>5. queue'[Len(queue) + 1] = Event(type, h, d) /\ Len(queue) + 1 \in 1 .. Len(queue')
  BY <1>3, <1>4
<1>6. Event(type, h, d) \in EventSet
  BY <1>3, <1>5
<1>7. PICK e \in EventSet : e = Event(type, h, d) /\ e.type = type
  BY <1>6 DEF Event
<1>8. e.type \notin Writes \/ Unasked(queue)
  BY <1>1, <1>4, <1>7 DEF AskInv
<1>9. Alone(queue') /\ (Unasked(queue) /\ type # "authorize_write" => Unasked(queue'))
  BY <1>3, <1>4, <1>7, <1>8, AskPush DEF AskInv
<1>10. pending'.kind # "write" => Unasked(queue')
  BY <1>1, <1>4, <1>9 DEF AskInv, Writes
<1> QED
  BY <1>9, <1>10 DEF AskInv

\* The driver replies to a write it has handled, and to no other.
LEMMA AskEvent ==
  ASSUME GattServerAssumption, BaseInv, AskInv, hwCallback
  PROVE  AskInv'
<1>1. /\ queue \in Seq(EventSet) /\ queue # <<>> /\ queue' = Tail(queue)
  BY DEF hwCallback, BaseInv, LinkInv
<1>2. PICK ev : /\ ev = queue[1]
                /\ \/ HandleConnected(ev) \/ HandleDisconnected(ev)
                   \/ HandleSubscription(ev) \/ HandleDataWritten(ev)
                   \/ HandleSysAttrMissing(ev) \/ HandleAuthorizeWrite(ev)
                   \/ HandleAuthorizeRead(ev) \/ HandleConfirmation(ev) \/ HandleDataSent(ev)
  BY <1>1, Popped DEF hwCallback
<1>3. /\ Alone(queue') /\ (Unasked(queue) => Unasked(queue'))
      /\ ev.type = "authorize_write" => Unasked(queue')
  BY <1>1, <1>2, AskPop DEF AskInv, Unasked, Writes
<1>4. CASE ev.type = "authorize_write"
  BY <1>3, <1>4 DEF AskInv
<1>5. CASE ev.type # "authorize_write"
  <2>1. link' = "connected" => link = "connected"
    BY <1>2 DEF HandleConnected, HandleDisconnected, HandleSubscription,
     HandleDataWritten, HandleSysAttrMissing, HandleAuthorizeWrite, HandleAuthorizeRead,
     HandleConfirmation, HandleDataSent, linkVars
  <2>2. \/ pending' = pending \/ \E kind : pending' = Unanswered(kind)
        \/ pending.kind = "read"
    BY <1>2, <1>5 DEF HandleConnected, HandleDisconnected, HandleSubscription,
     HandleDataWritten, HandleSysAttrMissing, HandleAuthorizeWrite, HandleAuthorizeRead,
     HandleConfirmation, HandleDataSent, linkVars
  <2>3. pending'.kind # "write" => pending.kind # "write"
    BY <2>2, UnansweredKeeps DEF BaseInv
  <2> QED
    BY <1>3, <2>1, <2>3 DEF AskInv
<1> QED
  BY <1>4, <1>5

\* Every step keeps the writes to authorize the last of the queue.
LEMMA AskStep ==
  ASSUME GattServerAssumption, BaseInv, AskInv, [Next]_vars
  PROVE  AskInv'
<1>1. CASE hwCallback
  BY <1>1, AskEvent
<1>2. CASE \/ CentralConfirms \/ SoftDeviceResumes \/ \E n \in 1 .. TxBuffers : RadioSends(n)
           \/ \E h \in Handles, v \in Values : CentralWrites(h, v) \/ CentralAsks(h, v)
           \/ \E h \in Handles, bits \in CCCDValues : CentralSubscribes(h, bits)
  BY <1>2, AskCentral
<1>3. CASE \/ AddService \/ StartAdvertising \/ UNCHANGED vars
           \/ \E c \in Characteristics, v \in Values, localOnly \in BOOLEAN : Write(c, v, localOnly)
  <2>1. /\ UNCHANGED <<queue, pending>>
        /\ link' = "connected" => link = "connected"
    BY <1>3 DEF AddService, StartAdvertising, Write, vars, linkVars
  <2> QED
    BY <2>1 DEF AskInv
<1>4. CASE Shutdown
  <2>1. queue' = <<>> /\ Len(<<>>) = 0
    BY <1>4 DEF Shutdown
  <2> QED
    BY <2>1 DEF AskInv, Alone, Unasked
<1>5. CASE Connect \/ LinkLost
  <2>1. PICK type, h, d : /\ queue' = Append(queue, Event(type, h, d))
                          /\ type \in {"connected", "disconnected"}
                          /\ type = "disconnected" \/ queue = <<>>
                          /\ type = "disconnected" => link' = "off"
    BY <1>5 DEF Connect, LinkLost, Push, BaseInv, LinkInv, Protocol
  <2>2. queue' \in Seq(EventSet) /\ queue \in Seq(EventSet)
    <3>1. [Next]_vars
      BY <1>5 DEF Next
    <3> QED
      BY <3>1, BaseStep DEF BaseInv, LinkInv
  <2>3. queue'[Len(queue) + 1] = Event(type, h, d) /\ Len(queue) + 1 \in 1 .. Len(queue')
    BY <2>1, <2>2
  <2>4. PICK e \in EventSet : e = Event(type, h, d) /\ e.type = type
    BY <2>2, <2>3 DEF Event
  <2>5. e.type \notin Writes
    BY <2>1, <2>4 DEF Writes
  <2>6. Alone(queue') /\ (Unasked(queue) => Unasked(queue'))
    BY <2>1, <2>2, <2>4, <2>5, AskPush DEF AskInv, Writes
  <2>7. queue = <<>> => Unasked(queue)
    BY EmptyIs, <2>2 DEF Unasked
  <2> QED
    BY <2>1, <2>6, <2>7 DEF AskInv
<1> QED
  BY <1>1, <1>2, <1>3, <1>4, <1>5 DEF Next

\* A queue without writes owes nothing.
LEMMA OwedQuiet ==
  ASSUME NEW q \in Seq(EventSet), \A i \in 1 .. Len(q) : q[i].type \notin Writes
  PROVE  Owed(q) = <<>>
<1>0. PICK s : s = Told(q)
  OBVIOUS
<1>1. PICK n \in Nat : n = Len(q)
  OBVIOUS
<1>2. DOMAIN s = 1 .. n /\ \A i \in 1 .. n : s[i] = <<>>
  BY <1>0, <1>1 DEF Told, Unheard, Writes
<1>3. PICK z : Words!Runs(z, <<>>, s, n) /\ Words!FoldLeft(Joined, <<>>, s) = z[n]
  BY <1>2, Words!FoldRuns
<1>4. z[0] = <<>> /\ \A k \in 1 .. n : z[k] = Joined(z[k - 1], s[k])
  BY <1>3 DEF Words!Runs
<1> DEFINE S == {k \in Nat : k <= n => z[k] = <<>>}
<1>5. \A k \in Nat : k \in S
  <2>1. 0 \in S
    BY <1>4
  <2>2. ASSUME NEW k \in Nat, k \in S
        PROVE  k + 1 \in S
    <3> SUFFICES ASSUME k + 1 <= n
                 PROVE  z[k + 1] = <<>>
      OBVIOUS
    <3>1. k + 1 \in 1 .. n /\ (k + 1) - 1 = k
      OBVIOUS
    <3>2. z[k + 1] = z[k] \o s[k + 1] /\ s[k + 1] = <<>> /\ z[k] = <<>>
      <4>1. k <= n
        OBVIOUS
      <4>2. z[k] = <<>>
        BY <2>2, <4>1
      <4>3. z[k + 1] = Joined(z[k], s[k + 1])
        BY <1>4, <3>1
      <4> QED
        BY <1>2, <3>1, <4>2, <4>3 DEF Joined
    <3>3. <<>> \o <<>> = <<>>
      <4>1. PICK w \in Seq(Pairs) : w = <<>>
        BY EmptyPairs
      <4>2. w \o <<>> = w
        BY ConcatEmptySeq
      <4> QED
        BY <4>1, <4>2
    <3> QED
      BY <3>2, <3>3
  <2> HIDE DEF S
  <2> QED
    BY <2>1, <2>2, Words!Induction
<1>6. z[n] = <<>>
  BY <1>5
<1> QED
  BY <1>0, <1>3, <1>6, WordsFold DEF Owed

(***************************************************************************)
(* The steps that could disturb what the application is owed.              *)
(***************************************************************************)

\* A write of a central, of a value: the application is to be told.
LEMMA ToldWrite ==
  ASSUME GattServerAssumption, BaseInv, ToldOfWrites, NEW h \in Handles, NEW v \in Values,
         CentralWrites(h, v)
  PROVE  ToldOfWrites'
<1>1. /\ UNCHANGED table
      /\ owed' = IF table[h].kind = "value" THEN Append(owed, <<h, v>>) ELSE owed
      /\ queue' = Append(queue, Event("write", h, v))
      /\ h \in Attributes("value") \/ h \in Attributes("descriptor")
  BY DEF CentralWrites, Push, Writable
<1>2. PICK e \in EventSet : e = Event("write", h, v)
  BY <1>1, PushedCarry DEF BaseInv
<1>3. Unheard(e) = IF table[h].kind = "value" THEN << <<h, v>> >> ELSE <<>>
  BY <1>2 DEF Event, Unheard
<1>4. queue \in Seq(EventSet) /\ owed = Owed(queue)
  BY ToldIs DEF BaseInv, LinkInv
<1>5. Owed(queue') = owed \o Unheard(e)
  BY <1>1, <1>2, <1>4, OwedPush
<1>6. owed \in Seq(Pairs)
  BY <1>4, OwedIs, EmptyPairs
<1>7. <<h, v>> \in Pairs
  BY DEF Pairs, Payload, Handles
<1>8. Append(owed, <<h, v>>) = owed \o << <<h, v>> >> /\ owed \o <<>> = owed
  BY <1>6, <1>7, AppendIsConcat, ConcatEmptySeq
<1>9. owed' = owed \o Unheard(e)
  BY <1>1, <1>3, <1>8
<1> QED
  BY <1>1, <1>5, <1>9, ToldIs

\* What was owed first is what handleDataWrittenEvent tells.
LEMMA InformedIs ==
  ASSUME NEW ev \in EventSet, NEW w \in Seq(Pairs), NEW o,
         o = << <<ev.handle, ev.data>> >> \o w
  PROVE  Informed(o, ev) = w
<1>1. PICK p \in Pairs : p = <<ev.handle, ev.data>>
  BY DEF Pairs, EventSet
<1>2. Tail(<<p>> \o w) = w /\ Head(<<p>> \o w) = p /\ <<p>> \o w # <<>>
  OBVIOUS
<1> QED
  BY <1>1, <1>2 DEF Informed

\* The reply to a write leaves nothing owed: nothing was, and what the
\* SoftDevice makes is reported with it.
LEMMA ToldAuthorized ==
  ASSUME NEW ev \in EventSet, owed = <<>>, HandleAuthorizeWrite(ev)
  PROVE  owed' = <<>>
<1>1. Informed(<<>>, ev) = <<>>
  BY DEF Informed
<1>2. Informed(Append(<<>>, <<ev.handle, ev.data>>), ev) = <<>>
  <2>1. PICK p \in Pairs : p = <<ev.handle, ev.data>>
    BY DEF Pairs, EventSet
  <2>2. Append(<<>>, p) = <<p>> /\ <<p>> = <<p>> \o <<>>
    OBVIOUS
  <2> QED
    BY <2>1, <2>2, EmptyPairs, InformedIs
<1>3. \/ owed' = owed
      \/ owed' = Informed(owed, ev)
      \/ owed' = Informed(Append(owed, <<ev.handle, ev.data>>), ev)
  BY AuthorizedWrite
<1> QED
  BY <1>1, <1>2, <1>3

\* The application is told of a write when it is a value's.
LEMMA ToldEvent ==
  ASSUME GattServerAssumption, BaseInv, AskInv, ToldOfWrites, hwCallback
  PROVE  ToldOfWrites'
<1>1. /\ queue \in Seq(EventSet) /\ queue # <<>> /\ queue' = Tail(queue)
      /\ owed = Owed(queue)
  BY ToldIs DEF hwCallback, BaseInv, LinkInv
<1>2. PICK ev \in EventSet :
        /\ ev = queue[1] /\ Carries(ev)
        /\ \/ HandleConnected(ev) \/ HandleDisconnected(ev)
           \/ HandleSubscription(ev) \/ HandleDataWritten(ev)
           \/ HandleSysAttrMissing(ev) \/ HandleAuthorizeWrite(ev)
           \/ HandleAuthorizeRead(ev) \/ HandleConfirmation(ev) \/ HandleDataSent(ev)
  BY <1>1, Popped DEF hwCallback, BaseInv, CarriesInv
<1>3. UNCHANGED table
  BY <1>2 DEF HandleConnected, HandleDisconnected, HandleSubscription,
     HandleDataWritten, HandleSysAttrMissing, HandleAuthorizeWrite, HandleAuthorizeRead,
     HandleConfirmation, HandleDataSent, sdVars
<1>4. /\ owed = Unheard(ev) \o Owed(queue') /\ Owed(queue') \in Seq(Pairs)
  BY <1>1, <1>2, OwedPop
<1>5. HandlesResolve
  BY TableResolves DEF BaseInv
<1>6. Unheard(ev) = <<>> => owed = Owed(queue')
  BY <1>4, ConcatEmptySeq
<1>7. owed' = Owed(queue')
  <2>1. CASE HandleDataWritten(ev)
    <3>1. ev.type = "write" /\ CCCDIndex(ev.handle) = 0
          /\ owed' = IF ValueIndex(ev.handle) = 0 THEN owed ELSE Informed(owed, ev)
      BY <2>1 DEF HandleDataWritten
    <3>2. ev.handle \in 1 .. Len(table)
          /\ (ValueIndex(ev.handle) # 0) = (table[ev.handle].kind = "value")
      BY <1>2, <1>5, <3>1 DEF Carries, Attributes, HandlesResolve
    <3>3. CASE table[ev.handle].kind = "value"
      <4>1. PICK w \in Seq(Pairs) : w = Owed(queue')
        BY <1>4
      <4>2. owed = << <<ev.handle, ev.data>> >> \o w
        BY <1>4, <3>1, <3>3, <4>1 DEF Unheard
      <4>3. Informed(owed, ev) = w
        BY <4>2, InformedIs
      <4> QED
        BY <3>1, <3>2, <3>3, <4>1, <4>3
    <3>4. CASE table[ev.handle].kind # "value"
      BY <1>6, <3>1, <3>2, <3>4 DEF Unheard
    <3> QED
      BY <3>3, <3>4
  <2>2. CASE HandleAuthorizeWrite(ev)
    <3>1. ev.type = "authorize_write"
      BY <2>2 DEF HandleAuthorizeWrite
    <3>2. Owed(queue') = <<>>
      <4>1. \A i \in 1 .. Len(queue') : queue'[i].type \notin Writes
        BY <1>1, <1>2, <3>1, AskPop DEF AskInv
      <4>2. queue' \in Seq(EventSet)
        BY <1>1, Popped
      <4> QED
        BY <4>1, <4>2, OwedQuiet
    <3>3. owed = <<>>
      BY <1>6, <3>1, <3>2 DEF Unheard
    <3> QED
      BY <2>2, <3>2, <3>3, ToldAuthorized
  <2>3. CASE ~HandleDataWritten(ev) /\ ~HandleAuthorizeWrite(ev)
    <3>1. owed' = owed
      BY <1>2, <2>3 DEF HandleConnected, HandleDisconnected, HandleSubscription,
       HandleSysAttrMissing, HandleAuthorizeRead, HandleConfirmation, HandleDataSent
    <3>2. Unheard(ev) = <<>>
      <4>1. CASE HandleSubscription(ev)
        <5>1. ev.type = "write" /\ CCCDIndex(ev.handle) # 0
          BY <4>1 DEF HandleSubscription
        <5>2. table[ev.handle].kind = "cccd"
          BY <1>2, <1>5, <5>1 DEF Carries, Attributes, HandlesResolve
        <5> QED
          BY <5>2 DEF Unheard
      <4>2. CASE ~HandleSubscription(ev)
        <5>1. ev.type # "write"
          BY <1>2, <2>3, <4>2 DEF HandleConnected, HandleDisconnected,
           HandleSysAttrMissing, HandleAuthorizeRead, HandleConfirmation, HandleDataSent
        <5> QED
          BY <5>1 DEF Unheard
      <4> QED
        BY <4>1, <4>2
    <3> QED
      BY <1>6, <3>1, <3>2
  <2> QED
    BY <2>1, <2>2, <2>3
<1> QED
  BY <1>3, <1>7, ToldIs

\* Every step keeps the writes the application is owed in the queue.
LEMMA ToldStep ==
  ASSUME GattServerAssumption, BaseInv, AskInv, ToldOfWrites, [Next]_vars
  PROVE  ToldOfWrites'
<1>1. CASE AddService \/ Shutdown
  <2>1. owed' = <<>> /\ queue' = <<>>
    <3>1. CASE AddService
      <4>1. queue = <<>> /\ UNCHANGED <<queue, owed>>
        BY <3>1 DEF AddService, historyVars
      <4> QED
        BY <4>1, OwedNone, ToldIs
    <3>2. CASE Shutdown
      BY <3>2 DEF Shutdown
    <3> QED
      BY <1>1, <3>1, <3>2
  <2>2. [i \in DOMAIN queue |-> Unheard(queue[i])]' = Told(<<>>)
    <3>1. DOMAIN queue' = {}
      BY <2>1
    <3> QED
      BY <2>1, <3>1 DEF Told
  <2> QED
    BY <2>1, <2>2, OwedNone DEF ToldOfWrites, Owed
<1>2. CASE hwCallback
  BY <1>2, ToldEvent
<1>3. CASE \E h \in Handles, v \in Values : CentralWrites(h, v)
  BY <1>3, ToldWrite
<1>4. CASE \/ SoftDeviceResumes \/ CentralConfirms \/ StartAdvertising \/ Connect \/ LinkLost
           \/ UNCHANGED vars \/ \E n \in 1 .. TxBuffers : RadioSends(n)
           \/ \E c \in Characteristics, v \in Values, localOnly \in BOOLEAN : Write(c, v, localOnly)
           \/ \E h \in Handles, v \in Values : CentralAsks(h, v)
           \/ \E h \in Handles, bits \in CCCDValues : CentralSubscribes(h, bits)
  BY <1>4, ToldOthers
<1> QED
  BY <1>1, <1>2, <1>3, <1>4 DEF Next

\* The application is told of every write of a central to the value of a
\* characteristic, in order and once: what it was not told of is still in the
\* queue, also when the link was lost since (nRF5xGattServer.cpp:395-453); a
\* write it has to authorize it is told of when the SoftDevice makes it
\* (nRF5xGattServer.cpp:454-493).  The write of a descriptor it is told nothing of.
THEOREM WritesAreTold == Spec => []ToldOfWrites
<1>1. GattServerAssumption
  BY GattServerAssumption
<1>2. Init => BaseInv /\ AskInv /\ ToldOfWrites
  <2>1. Init => ToldOfWrites
    BY OwedNone, ToldIs DEF Init
  <2>2. Init => AskInv
    BY DEF Init, AskInv, Alone
  <2> QED
    BY <1>1, <2>1, <2>2, BaseInit
<1>3. BaseInv /\ AskInv /\ ToldOfWrites /\ [Next]_vars => BaseInv' /\ AskInv' /\ ToldOfWrites'
  BY <1>1, BaseStep, AskStep, ToldStep
<1> QED
  BY <1>2, <1>3, PTL DEF Spec

(***************************************************************************)
(* The subscriptions the application was told of.                          *)
(***************************************************************************)

\* An event that is no write to k does not change the last one.
LEMMA LatestOther ==
  ASSUME NEW q \in Seq(EventSet), NEW e \in EventSet, NEW k, NEW d,
         ~ (e.type = "write" /\ e.handle = k)
  PROVE  /\ WritesTo(Append(q, e), k) = WritesTo(q, k)
         /\ Latest(q, k, d) => Latest(Append(q, e), k, d)
<1>1. PICK r : r = Append(q, e)
  OBVIOUS
<1>2. /\ Len(r) = Len(q) + 1 /\ Len(q) \in Nat /\ r[Len(q) + 1] = e
      /\ \A i \in 1 .. Len(q) : r[i] = q[i]
  BY <1>1
<1>3. WritesTo(r, k) = WritesTo(q, k)
  BY <1>2 DEF WritesTo
<1>4. \A i \in WritesTo(q, k) : r[i] = q[i]
  BY <1>2 DEF WritesTo
<1> QED
  BY <1>1, <1>3, <1>4 DEF Latest

\* A write to k at the end is the last one.
LEMMA LatestSame ==
  ASSUME NEW q \in Seq(EventSet), NEW e \in EventSet, NEW k, NEW d,
         e.type = "write", e.handle = k, e.data = d
  PROVE  /\ WritesTo(Append(q, e), k) # {}
         /\ Latest(Append(q, e), k, d)
<1>1. PICK r : r = Append(q, e)
  OBVIOUS
<1>2. PICK n \in Nat : n = Len(q) + 1 /\ Len(r) = n /\ r[n] = e
  BY <1>1
<1>3. n \in WritesTo(r, k)
  BY <1>2 DEF WritesTo
<1>4. \A i \in WritesTo(r, k) : i \in 1 .. n
  BY <1>2 DEF WritesTo
<1>5. \A i \in WritesTo(r, k) : n <= i => i = n
  BY <1>4
<1>6. Latest(r, k, d)
  BY <1>2, <1>3, <1>5 DEF Latest
<1> QED
  BY <1>1, <1>3, <1>6

\* The last write to k is the last one until it is taken from the queue.
LEMMA LatestPop ==
  ASSUME NEW q \in Seq(EventSet), q # <<>>, NEW k, NEW d, Latest(q, k, d)
  PROVE  /\ Latest(Tail(q), k, d)
         /\ WritesTo(Tail(q), k) = {} =>
              \/ WritesTo(q, k) = {}
              \/ q[1].type = "write" /\ q[1].handle = k /\ q[1].data = d
<1>1. PICK r : r = Tail(q)
  OBVIOUS
<1>2. PICK n \in Nat : n = Len(r) /\ Len(q) = n + 1
  BY <1>1
<1>3. \A i \in 1 .. n : r[i] = q[i + 1] /\ i + 1 \in 1 .. n + 1
  BY <1>1, <1>2
<1>4. \A i \in WritesTo(r, k) : i \in 1 .. n /\ i + 1 \in WritesTo(q, k)
  BY <1>2, <1>3 DEF WritesTo
<1>5. \A i \in WritesTo(q, k) : i = 1 \/ (i - 1 \in 1 .. n /\ i - 1 \in WritesTo(r, k))
  <2> SUFFICES ASSUME NEW i \in WritesTo(q, k), i # 1
               PROVE  i - 1 \in 1 .. n /\ i - 1 \in WritesTo(r, k)
    OBVIOUS
  <2>1. i \in 1 .. n + 1 /\ q[i].type = "write" /\ q[i].handle = k
    BY <1>2 DEF WritesTo
  <2>2. PICK j \in 1 .. n : j = i - 1 /\ i = j + 1
    BY <2>1
  <2>3. r[j] = q[i]
    BY <1>3, <2>2
  <2>4. j \in WritesTo(r, k)
    BY <1>2, <2>1, <2>2, <2>3 DEF WritesTo
  <2> QED
    BY <2>2, <2>4
<1>6. Latest(r, k, d)
  <2> SUFFICES ASSUME NEW i \in WritesTo(r, k), \A j \in WritesTo(r, k) : j <= i
               PROVE  r[i].data = d
    BY DEF Latest
  <2>1. i \in 1 .. n /\ i + 1 \in WritesTo(q, k)
    BY <1>4
  <2>2. \A j \in WritesTo(q, k) : j <= i + 1
    <3> SUFFICES ASSUME NEW j \in WritesTo(q, k)
                 PROVE  j <= i + 1
      OBVIOUS
    <3>1. j = 1 \/ (j - 1 \in 1 .. n /\ j - 1 <= i)
      BY <1>5
    <3>2. j \in 1 .. n + 1
      BY <1>2 DEF WritesTo
    <3> QED
      BY <2>1, <3>1, <3>2
  <2>3. q[i + 1].data = d
    BY <2>1, <2>2 DEF Latest
  <2> QED
    BY <1>3, <2>1, <2>3
<1>7. ASSUME WritesTo(r, k) = {}, WritesTo(q, k) # {}
      PROVE  q[1].type = "write" /\ q[1].handle = k /\ q[1].data = d
  <2>1. \A i \in WritesTo(q, k) : i = 1
    BY <1>5, <1>7
  <2>2. 1 \in WritesTo(q, k)
    BY <1>7, <2>1
  <2>3. q[1].data = d
    BY <2>1, <2>2 DEF Latest
  <2> QED
    BY <2>2, <2>3 DEF WritesTo
<1> QED
  BY <1>1, <1>6, <1>7

\* Where the CCCD of a characteristic is.
LEMMA CCCDFollows ==
  ASSUME GattServerAssumption, TableInv, NEW k \in Attributes("cccd")
  PROVE  /\ CCCDIndex(k) # 0 /\ Char(CCCDIndex(k)) = table[k].char
         /\ server.valueHandle[table[k].char] = k - 1
         /\ k - 1 \in Attributes("value") /\ table[k - 1].char = table[k].char
         /\ HasCCCD(table[k].char) /\ k \in Nat
<1>1. k \in 1 .. Len(table) /\ table[k].kind = "cccd" /\ k \in Nat
  BY AttributesAre DEF Attributes
<1>2. CCCDIndex(k) # 0 /\ Char(CCCDIndex(k)) = table[k].char
  BY <1>1, TableResolves DEF HandlesResolve
<1>3. PICK i \in 1 .. server.characteristicCount :
        i = CCCDIndex(k) /\ server.nrfCharacteristicHandles[i].cccd = k
  BY <1>2, Resolves DEF CCCDIndex
<1>4. HasCCCD(Char(i)) /\ server.nrfCharacteristicHandles[i].cccd
                            = server.nrfCharacteristicHandles[i].value + 1
      /\ server.nrfCharacteristicHandles[i].value \in 1 .. Len(table)
  BY <1>1, <1>3 DEF TableInv, Sound, Registered, Char
<1>5. /\ server.valueHandle[Char(i)] = server.nrfCharacteristicHandles[i].value
      /\ server.valueHandle[Char(i)] \in Attributes("value")
      /\ table[server.valueHandle[Char(i)]].char = Char(i)
  BY NotedHandles
<1>6. server.nrfCharacteristicHandles[i].value = k - 1
  BY <1>3, <1>4
<1> QED
  BY <1>1, <1>2, <1>3, <1>4, <1>5, <1>6

\* A value with a CCCD is followed by it.
LEMMA CCCDPresent ==
  ASSUME GattServerAssumption, TableInv, NEW h \in Attributes("value"), HasCCCD(table[h].char)
  PROVE  h + 1 \in Attributes("cccd") /\ h \in Nat
<1>1. h \in 1 .. Len(table) /\ table[h].kind = "value" /\ h \in Nat
  BY AttributesAre DEF Attributes
<1>2. PICK i \in 1 .. server.characteristicCount : server.nrfCharacteristicHandles[i].value = h
  BY <1>1 DEF TableInv, Sound, Complete
<1>3. Char(i) = table[h].char
  BY <1>2, NotedHandles
<1>4. PICK k \in Nat : k = h + 1
  BY <1>1
<1>5. server.nrfCharacteristicHandles[i].cccd = k
  BY <1>2, <1>3, <1>4 DEF TableInv, Sound, Registered, Char
<1>6. k \in 1 .. Len(table) /\ table[k].kind = "cccd"
  BY <1>2, <1>3, <1>5 DEF TableInv, Sound, Registered, Char
<1> QED
  BY <1>1, <1>4, <1>6 DEF Attributes

\* What the application knows is what the central has enabled.
LEMMA HeardTells ==
  ASSUME GattServerAssumption, BaseInv, HeardInv
  PROVE  SubscriptionsKnown
<1> SUFFICES ASSUME link = "connected", \A i \in DOMAIN queue : queue[i].type # "write"
             PROVE  heard = {h \in Attributes("value") : HasCCCD(table[h].char)
                               /\ cccd[h + 1] \cap Properties[table[h].char] # {}}
  BY DEF SubscriptionsKnown
<1>1. \A k : WritesTo(queue, k) = {}
  BY DEF WritesTo, BaseInv, LinkInv
<1>2. \A k \in Attributes("cccd") :
        k - 1 \in heard <=> cccd[k] \cap Properties[table[k].char] # {}
  BY <1>1 DEF HeardInv, Known
<1>3. TableInv
  BY DEF BaseInv
<1>4. ASSUME NEW h \in heard
      PROVE  h \in Attributes("value") /\ HasCCCD(table[h].char)
             /\ cccd[h + 1] \cap Properties[table[h].char] # {}
  <2>1. h \in Nat
    BY DEF BaseInv, RestOK, Handles
  <2>2. PICK k \in Attributes("cccd") : k = h + 1 /\ k - 1 = h
    BY <2>1 DEF HeardInv
  <2> QED
    BY <1>2, <1>3, <2>2, CCCDFollows
<1>5. ASSUME NEW h \in Attributes("value"), HasCCCD(table[h].char),
             cccd[h + 1] \cap Properties[table[h].char] # {}
      PROVE  h \in heard
  <2>1. PICK k \in Attributes("cccd") : k = h + 1 /\ k - 1 = h
    BY <1>3, <1>5, CCCDPresent
  <2>2. table[k].char = table[h].char
    BY <1>3, <2>1, CCCDFollows
  <2> QED
    BY <1>2, <1>5, <2>1, <2>2
<1> QED
  BY <1>4, <1>5

\* A new event of the queue, for one CCCD.
LEMMA KnownPush ==
  ASSUME NEW q \in Seq(EventSet), NEW e \in EventSet, NEW k, NEW hs, NEW c, NEW d, NEW p,
         Known(q, hs, k, c, p),
         \/ e.type = "write" /\ e.handle = k /\ e.data = d
         \/ ~ (e.type = "write" /\ e.handle = k) /\ d = c
  PROVE  Known(Append(q, e), hs, k, d, p)
<1>1. CASE e.type = "write" /\ e.handle = k /\ e.data = d
  BY <1>1, LatestSame DEF Known
<1>2. CASE ~ (e.type = "write" /\ e.handle = k) /\ d = c
  BY <1>2, LatestOther DEF Known
<1> QED
  BY <1>1, <1>2

\* An event taken from the queue, for one CCCD.
LEMMA KnownPop ==
  ASSUME NEW q \in Seq(EventSet), q # <<>>, NEW k, NEW hs, NEW gs, NEW d, NEW p,
         Known(q, hs, k, d, p),
         \/ /\ q[1].type = "write" /\ q[1].handle = k
            /\ q[1].data = d => (k - 1 \in gs <=> d \cap p # {})
         \/ /\ ~ (q[1].type = "write" /\ q[1].handle = k)
            /\ k - 1 \in gs <=> k - 1 \in hs
  PROVE  Known(Tail(q), gs, k, d, p)
<1>1. Latest(Tail(q), k, d)
  BY LatestPop DEF Known
<1>2. ASSUME WritesTo(Tail(q), k) = {}
      PROVE  k - 1 \in gs <=> d \cap p # {}
  <2>1. \/ WritesTo(q, k) = {}
        \/ q[1].type = "write" /\ q[1].handle = k /\ q[1].data = d
    BY <1>2, LatestPop DEF Known
  <2>2. CASE q[1].type = "write" /\ q[1].handle = k /\ q[1].data = d
    BY <2>2
  <2>3. CASE WritesTo(q, k) = {} /\ ~ (q[1].type = "write" /\ q[1].handle = k /\ q[1].data = d)
    <3>1. 1 \in 1 .. Len(q)
      BY Popped
    <3>2. ~ (q[1].type = "write" /\ q[1].handle = k)
      BY <2>3, <3>1 DEF WritesTo
    <3> QED
      BY <2>3, <3>2 DEF Known
  <2> QED
    BY <2>1, <2>2, <2>3
<1> QED
  BY <1>1, <1>2 DEF Known

\* A new event of the queue, for all of them.
LEMMA HeardPush ==
  ASSUME BaseInv, HeardInv, link = "connected", NEW e \in EventSet,
         queue' = Append(queue, e), UNCHANGED <<table, heard>>,
         \A k \in Attributes("cccd") :
           \/ e.type = "write" /\ e.handle = k /\ e.data = cccd'[k]
           \/ ~ (e.type = "write" /\ e.handle = k) /\ cccd'[k] = cccd[k]
  PROVE  HeardInv'
<1>1. Attributes("cccd")' = Attributes("cccd")
  BY DEF Attributes
<1>2. queue \in Seq(EventSet)
  BY DEF BaseInv, LinkInv
<1>3. ASSUME NEW k \in Attributes("cccd")
      PROVE  Known(queue', heard, k, cccd'[k], Properties[table[k].char])
  <2>1. Known(queue, heard, k, cccd[k], Properties[table[k].char])
    BY DEF HeardInv
  <2> QED
    BY <1>2, <2>1, KnownPush
<1> QED
  BY <1>1, <1>3 DEF HeardInv

\* The steps without an effect on subscriptions.
LEMMA HeardSame ==
  ASSUME HeardInv, link' = link, UNCHANGED <<queue, table, heard, cccd>>
  PROVE  HeardInv'
BY DEF HeardInv, Attributes

\* Without a connection there is nothing to know.
LEMMA HeardOff ==
  ASSUME HeardInv, link' # "connected", heard' = {} \/ UNCHANGED <<table, heard>>
  PROVE  HeardInv'
BY DEF HeardInv, Attributes

\* A new connection begins with no update enabled.
LEMMA HeardConnect ==
  ASSUME GattServerAssumption, BaseInv, HeardInv, Connect
  PROVE  HeardInv'
<1>1. /\ queue' = Append(queue, Event("connected", 0, InitialValue))
      /\ cccd' = [h \in Handles |-> {}] /\ link = "advertising"
      /\ UNCHANGED <<table, heard, m_connectionHandle>>
  BY DEF Connect, Push, historyVars
<1>2. queue = <<>> /\ ~m_connectionHandle /\ heard = {}
  BY <1>1 DEF BaseInv, LinkInv, Protocol
<1>3. Attributes("cccd")' = Attributes("cccd") /\ Attributes("cccd") \subseteq Handles
  BY <1>1, AttributesAre DEF Attributes, BaseInv
<1>4. \A k : WritesTo(queue', k) = {}
  <2>1. PICK r : r = queue'
    OBVIOUS
  <2>2. Len(r) = 1 /\ r[1].type = "connected"
    BY <1>1, <1>2, <2>1 DEF Event
  <2>3. \A k : WritesTo(r, k) = {}
    BY <2>2 DEF WritesTo
  <2> QED
    BY <2>1, <2>3
<1>5. ASSUME NEW k \in Attributes("cccd")
      PROVE  Known(queue', heard', k, cccd'[k], Properties[table[k].char])
  <2>1. cccd'[k] = {}
    BY <1>1, <1>3
  <2> QED
    BY <1>1, <1>2, <1>4, <2>1 DEF Known, Latest
<1> QED
  BY <1>1, <1>2, <1>3, <1>5 DEF HeardInv

\* A subscription is stored and put into the queue in one step.
LEMMA HeardCentral ==
  ASSUME GattServerAssumption, BaseInv, HeardInv,
         \/ CentralConfirms \/ SoftDeviceResumes \/ \E n \in 1 .. TxBuffers : RadioSends(n)
         \/ \E h \in Handles, v \in Values : CentralWrites(h, v) \/ CentralAsks(h, v)
         \/ \E h \in Handles, bits \in CCCDValues : CentralSubscribes(h, bits)
  PROVE  HeardInv'
<1>1. UNCHANGED <<table, heard>> /\ link = "connected"
  BY DEF SoftDeviceResumes, CentralConfirms, RadioSends, CentralWrites, CentralAsks, Requests,
     CentralSubscribes, linkVars, sdVars, historyVars, BaseInv, PendingInv
<1>2. \E type, h, d :
        /\ queue' = Append(queue, Event(type, h, d))
        /\ \/ type # "write" /\ UNCHANGED cccd
           \/ type = "write" /\ h \notin Attributes("cccd") /\ UNCHANGED cccd
           \/ type = "write" /\ h \in Attributes("cccd") /\ cccd' = [cccd EXCEPT ![h] = d]
  <2>1. CASE CentralConfirms \/ \E n \in 1 .. TxBuffers : RadioSends(n)
    BY <2>1 DEF CentralConfirms, RadioSends, Push, sdVars
  <2>2. CASE SoftDeviceResumes
    BY <2>2 DEF SoftDeviceResumes, Push, BaseInv, PendingInv
  <2>3. CASE \E h \in Handles, v \in Values : CentralWrites(h, v)
    <3>1. PICK h \in Handles, v \in Values : CentralWrites(h, v)
      BY <2>3
    <3>2. h \notin Attributes("cccd")
      BY <3>1 DEF CentralWrites, Writable, Attributes
    <3>3. queue' = Append(queue, Event("write", h, v)) /\ UNCHANGED cccd
      BY <3>1 DEF CentralWrites, Push
    <3> QED
      BY <3>2, <3>3
  <2>4. CASE \E h \in Handles, v \in Values : CentralAsks(h, v)
    BY <2>4 DEF CentralAsks, Push, sdVars
  <2>5. CASE \E h \in Handles, bits \in CCCDValues : CentralSubscribes(h, bits)
    BY <2>5 DEF CentralSubscribes, Push
  <2> QED
    BY <2>1, <2>2, <2>3, <2>4, <2>5
<1>3. queue' \in Seq(EventSet) /\ queue \in Seq(EventSet)
  <2>1. [Next]_vars
    BY DEF Next
  <2> QED
    BY <2>1, BaseStep DEF BaseInv, LinkInv
<1>4. ASSUME NEW type, NEW h, NEW d, queue' = Append(queue, Event(type, h, d)),
             \/ type # "write" /\ UNCHANGED cccd
             \/ type = "write" /\ h \notin Attributes("cccd") /\ UNCHANGED cccd
             \/ type = "write" /\ h \in Attributes("cccd") /\ cccd' = [cccd EXCEPT ![h] = d]
      PROVE  HeardInv'
  <2>1. queue'[Len(queue) + 1] = Event(type, h, d) /\ Len(queue) + 1 \in 1 .. Len(queue')
    BY <1>3, <1>4
  <2>2. Event(type, h, d) \in EventSet
    BY <1>3, <2>1
  <2>3. PICK e \in EventSet : /\ e = Event(type, h, d)
                             /\ e.type = type /\ e.handle = h /\ e.data = d
    BY <2>2 DEF Event
  <2>4. ASSUME NEW k \in Attributes("cccd")
        PROVE  \/ e.type = "write" /\ e.handle = k /\ e.data = cccd'[k]
               \/ ~ (e.type = "write" /\ e.handle = k) /\ cccd'[k] = cccd[k]
    <3>1. k \in Handles /\ table[k].kind = "cccd"
      BY AttributesAre DEF Attributes, BaseInv
    <3>2. h \notin Attributes("cccd") => k # h
      OBVIOUS
    <3>3. cccd' = [cccd EXCEPT ![h] = d] => cccd'[k] = IF k = h THEN d ELSE cccd[k]
      BY <3>1 DEF BaseInv, RestOK
    <3> QED
      BY <1>4, <2>3, <3>2, <3>3
  <2> QED
    BY <1>1, <1>4, <2>3, <2>4, HeardPush
<1> QED
  BY <1>2, <1>4

\* The application is told of a write to a CCCD when the driver gets to it.
LEMMA HeardSubscription ==
  ASSUME GattServerAssumption, BaseInv, HeardInv, NEW ev \in EventSet, queue # <<>>,
         ev = queue[1], queue' = Tail(queue), Carries(ev), HandleSubscription(ev)
  PROVE  HeardInv'
<1>1. queue \in Seq(EventSet) /\ TableInv /\ HandlesResolve
  BY TableResolves DEF BaseInv, LinkInv
<1>2. ev.type = "write" /\ CCCDIndex(ev.handle) # 0 /\ UNCHANGED <<table, cccd, link>>
  BY DEF HandleSubscription, sdVars, linkVars
<1>3. ev.handle \in Attributes("cccd")
  BY <1>1, <1>2 DEF Carries, HandlesResolve, Attributes
<1>4. PICK k0 \in Attributes("cccd"), h0 \in Attributes("value") :
        k0 = ev.handle /\ h0 = k0 - 1 /\ h0 = server.valueHandle[table[k0].char]
  BY <1>1, <1>3, CCCDFollows
<1>5. Char(CCCDIndex(k0)) = table[k0].char /\ k0 \in Nat /\ h0 \in Nat
  BY <1>1, <1>4, CCCDFollows, AttributesAre
<1>6. heard' = IF ev.data \cap Properties[table[k0].char] # {} THEN heard \cup {h0} ELSE heard \ {h0}
  BY <1>4, <1>5 DEF HandleSubscription
<1>7. Attributes("cccd")' = Attributes("cccd")
  BY <1>2 DEF Attributes
<1>8. ASSUME NEW k \in Attributes("cccd"), link = "connected"
      PROVE  Known(queue', heard', k, cccd[k], Properties[table[k].char])
  <2>1. Known(queue, heard, k, cccd[k], Properties[table[k].char])
    BY <1>8 DEF HeardInv
  <2>2. k \in Nat
    BY <1>1, AttributesAre
  <2>3. CASE k = k0
    <3>1. ev.data = cccd[k] => (k - 1 \in heard' <=> cccd[k] \cap Properties[table[k].char] # {})
      BY <1>4, <1>6, <2>3
    <3> QED
      BY <1>1, <1>2, <1>4, <2>1, <2>3, <3>1, KnownPop
  <2>4. CASE k # k0
    <3>1. k - 1 # h0
      BY <1>4, <1>5, <2>2, <2>4
    <3>2. k - 1 \in heard' <=> k - 1 \in heard
      BY <1>6, <3>1
    <3> QED
      BY <1>1, <1>4, <2>1, <2>4, <3>2, KnownPop
  <2> QED
    BY <2>3, <2>4
<1>9. ASSUME NEW h \in heard'
      PROVE  h + 1 \in Attributes("cccd")
  <2>1. h \in heard \/ h = h0
    BY <1>6, <1>9
  <2>2. h0 + 1 = k0
    BY <1>4, <1>5
  <2> QED
    BY <2>1, <2>2 DEF HeardInv
<1> QED
  BY <1>2, <1>7, <1>8, <1>9 DEF HeardInv

\* The driver takes an event, about a subscription or not.
LEMMA HeardEvent ==
  ASSUME GattServerAssumption, BaseInv, HeardInv, hwCallback
  PROVE  HeardInv'
<1>1. /\ queue \in Seq(EventSet) /\ queue # <<>> /\ queue' = Tail(queue)
      /\ TableInv /\ HandlesResolve
  BY TableResolves DEF hwCallback, BaseInv, LinkInv
<1>2. PICK ev \in EventSet :
        /\ ev = queue[1] /\ Carries(ev)
        /\ \/ HandleConnected(ev) \/ HandleDisconnected(ev)
           \/ HandleSubscription(ev) \/ HandleDataWritten(ev)
           \/ HandleSysAttrMissing(ev) \/ HandleAuthorizeWrite(ev)
           \/ HandleAuthorizeRead(ev) \/ HandleConfirmation(ev) \/ HandleDataSent(ev)
  BY <1>1, Popped DEF hwCallback, BaseInv, CarriesInv
<1>3. CASE HandleSubscription(ev)
  BY <1>1, <1>2, <1>3, HeardSubscription
<1>4. CASE HandleDisconnected(ev)
  BY <1>4, HeardOff DEF HandleDisconnected
<1>5. CASE ~HandleSubscription(ev) /\ ~HandleDisconnected(ev)
  <2>1. UNCHANGED <<table, cccd, link>>
    BY <1>2, <1>5 DEF HandleConnected, HandleDataWritten, HandleSysAttrMissing,
       HandleAuthorizeWrite, HandleAuthorizeRead, HandleConfirmation, HandleDataSent,
       sdVars, linkVars
  <2>2. heard' = heard
    <3>1. CASE HandleConnected(ev)
      <4>1. m_connectionHandle = FALSE
        BY <1>1, <1>2, <3>1 DEF HandleConnected, BaseInv, LinkInv, Protocol
      <4> QED
        BY <3>1, <4>1 DEF HandleConnected, BaseInv, LinkInv
    <3>2. CASE ~HandleConnected(ev)
      BY <1>2, <1>5, <3>2 DEF HandleDataWritten, HandleSysAttrMissing,
         HandleAuthorizeWrite, HandleAuthorizeRead, HandleConfirmation, HandleDataSent
    <3> QED
      BY <3>1, <3>2
  <2>3. Attributes("cccd")' = Attributes("cccd")
    BY <2>1 DEF Attributes
  <2>4. ASSUME NEW k \in Attributes("cccd"), link = "connected"
        PROVE  Known(queue', heard, k, cccd[k], Properties[table[k].char])
    <3>1. Known(queue, heard, k, cccd[k], Properties[table[k].char])
      BY <2>4 DEF HeardInv
    <3>2. CCCDIndex(k) # 0
      BY <1>1, CCCDFollows
    <3>3. ~ (ev.type = "write" /\ ev.handle = k)
      BY <1>2, <1>5, <3>2 DEF HandleConnected, HandleDataWritten, HandleSysAttrMissing,
         HandleAuthorizeWrite, HandleAuthorizeRead, HandleConfirmation, HandleDataSent
    <3> QED
      BY <1>1, <1>2, <3>1, <3>3, KnownPop
  <2> QED
    BY <2>1, <2>2, <2>3, <2>4 DEF HeardInv
<1> QED
  BY <1>3, <1>4, <1>5

\* Every step keeps what the application knows.
LEMMA HeardStep ==
  ASSUME GattServerAssumption, BaseInv, HeardInv, [Next]_vars
  PROVE  HeardInv'
<1>1. CASE AddService
  <2>1. /\ link' # "connected" /\ heard' = heard /\ queue = <<>> /\ link = "off"
    BY <1>1 DEF AddService, linkVars, historyVars
  <2>2. heard = {}
    BY <2>1 DEF BaseInv, LinkInv, Protocol
  <2> QED
    BY <2>1, <2>2, HeardOff
<1>2. CASE Shutdown
  BY <1>2, HeardOff DEF Shutdown
<1>3. CASE StartAdvertising \/ LinkLost
  BY <1>3, HeardOff DEF StartAdvertising, LinkLost, sdVars, historyVars
<1>4. CASE Connect
  BY <1>4, HeardConnect
<1>5. CASE hwCallback
  BY <1>5, HeardEvent
<1>6. CASE \/ UNCHANGED vars
           \/ \E c \in Characteristics, v \in Values, localOnly \in BOOLEAN : Write(c, v, localOnly)
  BY <1>6, HeardSame DEF vars, Write, sdVars, linkVars, historyVars
<1>7. CASE \/ CentralConfirms \/ SoftDeviceResumes \/ \E n \in 1 .. TxBuffers : RadioSends(n)
           \/ \E h \in Handles, v \in Values : CentralWrites(h, v) \/ CentralAsks(h, v)
           \/ \E h \in Handles, bits \in CCCDValues : CentralSubscribes(h, bits)
  BY <1>7, HeardCentral
<1> QED
  BY <1>1, <1>2, <1>3, <1>4, <1>5, <1>6, <1>7 DEF Next

\* When no write waits to be handled, the application knows exactly which
\* updates the central has enabled, whatever was enabled on earlier connections
\* and however the request that found the system attributes missing was taken up
\* (nRF5xGattServer.cpp:372-393, 411-413).
THEOREM SubscriptionsAreKnown == Spec => []SubscriptionsKnown
<1>1. GattServerAssumption
  BY GattServerAssumption
<1>2. Init => BaseInv /\ HeardInv
  BY <1>1, BaseInit DEF Init, HeardInv
<1>3. BaseInv /\ HeardInv /\ [Next]_vars => BaseInv' /\ HeardInv'
  BY <1>1, BaseStep, HeardStep
<1>4. BaseInv /\ HeardInv => SubscriptionsKnown
  BY <1>1, HeardTells
<1> QED
  BY <1>2, <1>3, <1>4, PTL DEF Spec
=============================================================================
