----------------------------- MODULE GattServer -----------------------------
(***************************************************************************)
(* The Gatt server of the BLE port (nRF5xGattServer.cpp) between its       *)
(* application and the SoftDevice: services are added to the attribute     *)
(* table, values written and notified, and the events of the SoftDevice    *)
(* turned into callbacks.  The application restarts advertising when the   *)
(* events of the last connection have been handled, as main.cpp does.      *)
(***************************************************************************)
EXTENDS Integers, Sequences, SequencesExt, FiniteSets

CONSTANTS
  Characteristics, NoChar,   \* NoChar: the NULL of p_characteristics
  Properties,        \* of each: see GattServerAssumption
  Descriptors,       \* of each: how many descriptors the application gives it
  Services,          \* [base, chars]: the base of its UUIDs and its characteristics
  ShortUUID,         \* the base of the 16-bit UUIDs
  Values, InitialValue,
  CCCDValues,        \* what the central writes into a CCCD: sets of enabled updates
  BLE_TOTAL_CHARACTERISTICS, BLE_TOTAL_DESCRIPTORS, UUID_TABLE_MAX_ENTRIES,
  TxBuffers,         \* notifications the SoftDevice can hold
  MaxAttributes,     \* attributes the SoftDevice has room for
  MaxEvents          \* bound: events in the queue beyond which the central waits

ASSUME GattServerAssumption ==
  /\ Properties \in [Characteristics ->
                      SUBSET {"notify", "indicate", "write", "authorizeWrite",
                              "authorizeRead", "incomplete"}]
  /\ NoChar \notin Characteristics
  \* A characteristic is an object of the application's, in one service: it is
  \* where the driver keeps the handle of its value.
  /\ \A s \in Services : s.chars \in Seq(Characteristics)
  /\ \A s, t \in Services : \A i \in DOMAIN s.chars, j \in DOMAIN t.chars :
       s.chars[i] = t.chars[j] => s = t /\ i = j
  /\ Descriptors \in [Characteristics -> Nat]
  /\ InitialValue \in Values
  /\ CCCDValues \subseteq SUBSET {"notify", "indicate"}
  /\ BLE_TOTAL_CHARACTERISTICS \in Nat /\ BLE_TOTAL_DESCRIPTORS \in Nat
  /\ UUID_TABLE_MAX_ENTRIES \in Nat /\ TxBuffers \in Nat /\ MaxAttributes \in Nat
  /\ MaxEvents \in Nat

VARIABLES
  server,      \* the driver: see Server
  table,       \* the SoftDevice's attributes, in the order of their handles
  vsBases,     \* the 128-bit bases it knows, in the order of their types
  value,       \* the values of the attributes
  cccd,        \* the subscriptions of the connected central
  link,        \* "off", "advertising" or "connected"
  sysAttrs,    \* have the system attributes of the connection been set?
  pending,     \* the request of the central that waits for the application
  tx,          \* notifications not sent yet
  indicated,   \* the handle of the indication not confirmed yet, or 0
  queue,       \* events of the SoftDevice
  m_connectionHandle,  \* is Gap's handle that of a connection?
  last,        \* history: what the application and the central last wrote
  owed,        \* history: writes of the central the application was not told of
  heard,       \* history: the subscriptions the application was told of
  unsent       \* history: notifications accepted that were not reported as sent

sdVars == <<table, vsBases, value, cccd>>
linkVars == <<link, sysAttrs, pending, tx, indicated, m_connectionHandle>>
historyVars == <<last, owed, heard, unsent>>
vars == <<server, sdVars, linkVars, queue, historyVars>>

Handles == 1 .. MaxAttributes
\* A request of the central; refused: has the SoftDevice refused the driver's
\* answer?  The driver does not look at that and does not answer again.
Request(kind, h, d) == [kind |-> kind, handle |-> h, data |-> d, refused |-> FALSE]
NoRequest == Request("none", 0, InitialValue)
Event(type, handle, data) == [type |-> type, handle |-> handle, data |-> data]

HasCCCD(c) == Properties[c] \cap {"notify", "indicate"} # {}
Subscriptions == {"notify", "indicate"}

(***************************************************************************)
(* Adding services.  The converted UUIDs are kept in a table of their own, *)
(* which no reset of the driver clears.                                    *)
(***************************************************************************)
Server == [serviceCount |-> 0, characteristicCount |-> 0, descriptorCount |-> 0,
           p_characteristics |-> [i \in 1 .. BLE_TOTAL_CHARACTERISTICS |-> NoChar],
           nrfCharacteristicHandles |->
             [i \in 1 .. BLE_TOTAL_CHARACTERISTICS |-> [value |-> 0, cccd |-> 0]],
           valueHandle |-> [c \in Characteristics |-> 0],
           convertedUUIDTable |-> <<>>,
           offered |-> {}]     \* the services added since the last reset

BLE_UUID_TYPE_UNKNOWN == 0
BLE_UUID_TYPE_BLE == 1
Base(type, vs) == IF type = BLE_UUID_TYPE_BLE THEN ShortUUID ELSE vs[type - 1]

\* custom_convert_to_nordic_uuid: the type of a base, and the tables after it.
Converted(x) ==
  LET base == x.base
      known == {i \in DOMAIN x.cache : x.cache[i].base = base}
      refused == base \in Range(x.vs)
      type == IF refused THEN BLE_UUID_TYPE_UNKNOWN ELSE 2 + Len(x.vs)
  IN IF base = ShortUUID THEN [x EXCEPT !.type = BLE_UUID_TYPE_BLE]
     ELSE IF known # {} THEN [x EXCEPT !.type = x.cache[CHOOSE i \in known : TRUE].type]
     ELSE [x EXCEPT !.type = type,
                    !.vs = IF refused THEN @ ELSE Append(@, base),
                    !.cache = IF Len(@) = UUID_TABLE_MAX_ENTRIES THEN @
                              ELSE Append(@, [base |-> base, type |-> type])]

\* The SoftDevice takes an attribute of a known type, while there is room.
Room(x, n) == x.type - 1 \in 0 .. Len(x.vs) /\ Len(x.table) + n <= MaxAttributes
Attribute(c, kind, base) == [char |-> c, kind |-> kind, base |-> base]

\* A plausible fault: the driver's table has no limit.
DescriptorsAddedUnbounded(x, c, n) ==
  Min({Descriptors[c], MaxAttributes - Len(x.table) - n})
\* The descriptors of c that are added after its n first attributes: all up to
\* the first that the driver or the SoftDevice has no room for.
DescriptorsAdded(x, c, n) ==
  Min({Descriptors[c], BLE_TOTAL_DESCRIPTORS - x.g.descriptorCount,
           MaxAttributes - Len(x.table) - n})

\* The attributes of a characteristic: its value, its CCCD, its descriptors.
WithAttributes(t, c, base, extra) ==
  LET own == IF HasCCCD(c) THEN <<"cccd">> ELSE <<>>
  IN t \o <<Attribute(c, "value", base)>>
       \o [k \in DOMAIN own |-> Attribute(c, own[k], ShortUUID)]
       \o [k \in 1 .. extra |-> Attribute(c, "descriptor", ShortUUID)]

\* What the driver keeps of a characteristic whose value has the handle h.
Register(g, c, h, extra) ==
  LET i == g.characteristicCount + 1
  IN [g EXCEPT !.characteristicCount = i,
               !.descriptorCount = @ + extra,
               !.p_characteristics[i] = c,
               !.nrfCharacteristicHandles[i] =
                  [value |-> h, cccd |-> IF HasCCCD(c) THEN h + 1 ELSE 0],
               !.valueHandle[c] = h]

\* One round of the loop of addService: the characteristic, then the
\* descriptors up to the first that the driver or the SoftDevice refuses.
AddCharacteristic(x, c) ==
  LET y == Converted(x)
      own == IF HasCCCD(c) THEN 2 ELSE 1
      extra == DescriptorsAdded(x, c, own)
  IN IF x.err THEN x
     ELSE IF x.g.characteristicCount >= BLE_TOTAL_CHARACTERISTICS THEN [x EXCEPT !.err = TRUE]
     ELSE IF "incomplete" \in Properties[c] THEN x
     ELSE IF ~Room(y, own) THEN [y EXCEPT !.err = TRUE]
     ELSE [y EXCEPT !.g = Register(@, c, Len(y.table) + 1, extra),
                    !.table = WithAttributes(@, c, Base(y.type, y.vs), extra),
                    !.err = extra < Descriptors[c]]

\* A service that fails half-way keeps what was added; the application goes on.
AddService ==
  /\ link = "off" /\ queue = <<>>
  /\ \E s \in Services \ server.offered :
       LET start == [g |-> server, table |-> table, vs |-> vsBases, type |-> 0, err |-> FALSE,
                     cache |-> server.convertedUUIDTable, base |-> s.base]
           x == Converted(start)
           known == Room(x, 0)
           y == FoldLeft(AddCharacteristic, x, s.chars)
           end == IF known THEN y ELSE x
       IN /\ server' = [end.g EXCEPT !.serviceCount = IF known /\ ~end.err THEN @ + 1 ELSE @,
                                     !.convertedUUIDTable = end.cache,
                                     !.offered = @ \cup {s}]
          /\ table' = end.table
          /\ vsBases' = end.vs
  /\ UNCHANGED <<value, cccd, linkVars, queue, historyVars>>

\* resolveValueHandleToCharIndex, resolveCCCDHandleToCharIndex: 0 for none.
Resolve(h, field) ==
  LET found == {i \in 1 .. server.characteristicCount :
                  server.nrfCharacteristicHandles[i][field] = h}
  IN IF found = {} THEN 0 ELSE CHOOSE i \in found : \A j \in found : i <= j
ValueIndex(h) == Resolve(h, "value")
CCCDIndex(h) == Resolve(h, "cccd")
Char(i) == server.p_characteristics[i]

(***************************************************************************)
(* The application writes a value.                                         *)
(***************************************************************************)
Stored(h, v) == value' = [value EXCEPT ![h] = v]

\* The connection sd_ble_gatts_hvx is called with is still there.
Live == m_connectionHandle /\ link = "connected"

\* sd_ble_gatts_hvx on a live connection stores the value whether or not the
\* packet can be queued.
Hvx(h, v, type) ==
  LET subscribed == sysAttrs /\ type \in cccd[h + 1]
  IN /\ Live
     /\ Stored(h, v)
     /\ \/ type = "notify" /\ subscribed /\ tx < TxBuffers
           /\ tx' = tx + 1 /\ unsent' = unsent + 1
           /\ UNCHANGED indicated
        \/ type = "indicate" /\ subscribed /\ indicated = 0
           /\ indicated' = h
           /\ UNCHANGED <<tx, unsent>>
        \/ \/ ~subscribed
           \/ type = "notify" /\ tx = TxBuffers
           \/ type = "indicate" /\ indicated # 0
           /\ UNCHANGED <<tx, unsent, indicated>>
     /\ last' = [last EXCEPT ![h] = v]

\* A plausible fault: the default branch does not store.
HvxRefusedAndForgotten(h, v) ==
  /\ ~Live
  /\ last' = [last EXCEPT ![h] = v]
  /\ UNCHANGED <<value, tx, unsent, indicated>>
\* The default branch of write(): the value is stored without an update; with
\* the handle of a lost connection the SoftDevice may refuse that too, and the
\* application is told so.
HvxRefused(h, v) ==
  /\ ~Live
  /\ \/ Stored(h, v) /\ last' = [last EXCEPT ![h] = v]
     \/ m_connectionHandle /\ UNCHANGED <<value, last>>
  /\ UNCHANGED <<tx, unsent, indicated>>

Write(c, v, localOnly) ==
  LET h == server.valueHandle[c]
      i == ValueIndex(h)
      type == IF "notify" \in Properties[Char(i)] THEN "notify" ELSE "indicate"
  IN /\ c \in {Char(j) : j \in 1 .. server.characteristicCount}
     /\ IF ~localOnly /\ i # 0 /\ HasCCCD(Char(i))
        THEN Hvx(h, v, type) \/ HvxRefused(h, v)
        ELSE /\ Stored(h, v) /\ last' = [last EXCEPT ![h] = v]
             /\ UNCHANGED <<tx, unsent, indicated>>
     /\ UNCHANGED <<server, table, vsBases, cccd, link, sysAttrs, pending,
                    m_connectionHandle, queue, owed, heard>>

(***************************************************************************)
(* The central and the SoftDevice.  A central has one request under way.   *)
(***************************************************************************)
Attributes(kind) == {h \in 1 .. Len(table) : table[h].kind = kind}
\* Descriptors are added with an open permission to write.
Writable == {h \in Attributes("value") : "write" \in Properties[table[h].char]}
              \cup Attributes("descriptor")
Authorized(property) == {h \in Attributes("value") : property \in Properties[table[h].char]}

Push(e) == Len(queue) < MaxEvents /\ queue' = Append(queue, e)
Requests(request) == pending.kind = "none" /\ link = "connected" /\ pending' = request

Connect ==
  /\ link = "advertising"
  /\ link' = "connected"
  /\ sysAttrs' = FALSE
  /\ cccd' = [h \in Handles |-> {}]
  /\ Push(Event("connected", 0, InitialValue))
  /\ UNCHANGED <<server, table, vsBases, value, pending, tx, indicated, m_connectionHandle,
                 historyVars>>

CentralWrites(h, v) ==
  /\ link = "connected" /\ pending.kind = "none"
  /\ Push(Event("write", h, v))
  /\ h \in Writable \ Authorized("authorizeWrite")
  /\ Stored(h, v)
  /\ last' = [last EXCEPT ![h] = v]
  /\ owed' = IF table[h].kind = "value" THEN Append(owed, <<h, v>>) ELSE owed
  /\ UNCHANGED <<server, table, vsBases, cccd, linkVars, heard, unsent>>

CentralAsks(h, v) ==
  /\ \/ /\ Requests(Request("write", h, v))
        /\ Push(Event("authorize_write", h, v))
        /\ h \in Writable \cap Authorized("authorizeWrite")
     \/ /\ Requests(Request("read", h, v))
        /\ Push(Event("authorize_read", h, v))
        /\ h \in Authorized("authorizeRead") /\ v = InitialValue
  /\ UNCHANGED <<server, sdVars, link, sysAttrs, tx, indicated, m_connectionHandle,
                 historyVars>>

CentralSubscribes(h, bits) ==
  /\ h \in Attributes("cccd")
  /\ IF sysAttrs
     THEN /\ link = "connected" /\ pending.kind = "none"
          /\ cccd' = [cccd EXCEPT ![h] = bits]
          /\ Push(Event("write", h, bits))
          /\ UNCHANGED pending
     ELSE /\ Requests(Request("cccd", h, bits))
          /\ Push(Event("sys_attr_missing", 0, InitialValue))
          /\ UNCHANGED cccd
  /\ UNCHANGED <<server, table, vsBases, value, link, sysAttrs, tx, indicated,
                 m_connectionHandle, historyVars>>

\* Once it has the system attributes, the SoftDevice goes on with the request.
SoftDeviceResumes ==
  /\ pending.kind = "cccd" /\ sysAttrs
  /\ cccd' = [cccd EXCEPT ![pending.handle] = pending.data]
  /\ pending' = NoRequest
  /\ Push(Event("write", pending.handle, pending.data))
  /\ UNCHANGED <<server, table, vsBases, value, link, sysAttrs, tx, indicated,
                 m_connectionHandle, historyVars>>

RadioSends(n) ==
  /\ link = "connected" /\ n \in 1 .. tx
  /\ tx' = tx - n
  /\ Push(Event("tx_complete", 0, n))
  /\ UNCHANGED <<server, sdVars, link, sysAttrs, pending, indicated, m_connectionHandle,
                 historyVars>>

CentralConfirms ==
  /\ link = "connected" /\ indicated # 0
  /\ indicated' = 0
  /\ Push(Event("hvc", indicated, InitialValue))
  /\ UNCHANGED <<server, sdVars, link, sysAttrs, pending, tx, m_connectionHandle,
                 historyVars>>

LinkLost ==
  /\ link = "connected"
  /\ link' = "off"
  /\ queue' = Append(queue, Event("disconnected", 0, InitialValue))
  /\ tx' = 0 /\ indicated' = 0 /\ pending' = NoRequest
  /\ unsent' = unsent - tx
  /\ UNCHANGED <<server, sdVars, sysAttrs, m_connectionHandle, last, owed, heard>>

(***************************************************************************)
(* The events reach the driver one at a time (btle_handler, hwCallback).   *)
(***************************************************************************)
HandleConnected(e) ==
  /\ e.type = "connected"
  /\ m_connectionHandle' = TRUE
  /\ heard' = {}
  /\ UNCHANGED <<sdVars, link, sysAttrs, pending, owed, last>>

\* The application's callback starts advertising again.
HandleDisconnected(e) ==
  /\ e.type = "disconnected"
  /\ m_connectionHandle' = FALSE
  /\ heard' = {}
  /\ link' = "advertising"
  /\ UNCHANGED <<sdVars, sysAttrs, pending, owed, last>>

\* A plausible fault: the properties are not consulted.
HandleSubscriptionAnyBit(e) ==
  LET i == CCCDIndex(e.handle)
      h == server.valueHandle[Char(i)]
  IN /\ e.type = "write" /\ i # 0
     /\ heard' = IF e.data # {} THEN heard \cup {h} ELSE heard \ {h}
     /\ UNCHANGED <<sdVars, linkVars, owed, last>>
HandleSubscription(e) ==
  LET i == CCCDIndex(e.handle)
      h == server.valueHandle[Char(i)]
  IN /\ e.type = "write" /\ i # 0
     /\ heard' = IF e.data \cap Properties[Char(i)] # {} THEN heard \cup {h} ELSE heard \ {h}
     /\ UNCHANGED <<sdVars, linkVars, owed, last>>

\* What the application was not told of, when handleDataWrittenEvent has told it
\* of the data of e; the writes are to be told in their order.
Informed(o, e) == IF o # <<>> /\ Head(o) = <<e.handle, e.data>> THEN Tail(o) ELSE o

\* A plausible fault: the value of a characteristic with a CCCD is taken for it.
HandleDataWrittenOfPlain(e) ==
  /\ e.type = "write" /\ CCCDIndex(e.handle) = 0
  /\ owed' = IF ValueIndex(e.handle) = 0 \/ HasCCCD(Char(ValueIndex(e.handle)))
             THEN owed ELSE Informed(owed, e)
  /\ UNCHANGED <<sdVars, linkVars, heard, last>>
\* The application is not told of the write of a descriptor.
HandleDataWritten(e) ==
  /\ e.type = "write" /\ CCCDIndex(e.handle) = 0
  /\ owed' = IF ValueIndex(e.handle) = 0 THEN owed ELSE Informed(owed, e)
  /\ UNCHANGED <<sdVars, linkVars, heard, last>>

\* The request after an answer of the driver to one of this kind that the
\* SoftDevice refused: it is busy or without memory, or the link is lost.
Unanswered(kind) == IF pending.kind = kind THEN [pending EXCEPT !.refused = TRUE] ELSE pending

\* A plausible fault: the event falls to the default case.
HandleSysAttrMissingIgnored(e) ==
  /\ e.type = "sys_attr_missing"
  /\ UNCHANGED <<sdVars, linkVars, owed, heard, last>>
HandleSysAttrMissing(e) ==
  /\ e.type = "sys_attr_missing"
  /\ \/ sysAttrs' = (sysAttrs \/ link = "connected") /\ UNCHANGED pending
     \/ pending' = Unanswered("cccd") /\ UNCHANGED sysAttrs
  /\ UNCHANGED <<sdVars, link, m_connectionHandle, owed, heard, last>>

\* The application allows the write or does not.  The SoftDevice makes it if it
\* takes the reply; the driver reports what was allowed as written either way.
HandleAuthorizeWrite(e) ==
  /\ e.type = "authorize_write"
  /\ \/ ValueIndex(e.handle) = 0 /\ UNCHANGED <<pending, value, last, owed>>
     \/ /\ ValueIndex(e.handle) # 0
        /\ \E allowed \in BOOLEAN, taken \in {FALSE, pending.kind = "write"} :
             LET made == allowed /\ taken
                 due == IF made THEN Append(owed, <<e.handle, e.data>>) ELSE owed
             IN /\ pending' = IF taken THEN NoRequest ELSE Unanswered("write")
                /\ value' = IF made THEN [value EXCEPT ![e.handle] = e.data] ELSE value
                /\ last' = IF made THEN [last EXCEPT ![e.handle] = e.data] ELSE last
                /\ owed' = IF allowed THEN Informed(due, e) ELSE due
  /\ UNCHANGED <<table, vsBases, cccd, link, sysAttrs, tx, indicated, m_connectionHandle,
                 heard>>

HandleAuthorizeRead(e) ==
  /\ e.type = "authorize_read"
  /\ \/ ValueIndex(e.handle) # 0 /\ pending.kind = "read" /\ pending' = NoRequest
     \/ ValueIndex(e.handle) # 0 /\ pending' = Unanswered("read")
     \/ ValueIndex(e.handle) = 0 /\ UNCHANGED pending
  /\ UNCHANGED <<sdVars, link, sysAttrs, m_connectionHandle, owed, heard, last>>

\* The callbacks of a confirmation and of sent data change nothing here but
\* what the application knows.
HandleConfirmation(e) ==
  /\ e.type = "hvc"
  /\ UNCHANGED <<sdVars, linkVars, owed, heard, last>>

\* A plausible fault: the count is lost.
ReportedOne(e) == IF e.type = "tx_complete" THEN 1 ELSE 0
Reported(e) == IF e.type = "tx_complete" THEN e.data ELSE 0
HandleDataSent(e) ==
  /\ e.type = "tx_complete"
  /\ UNCHANGED <<sdVars, linkVars, owed, heard, last>>

hwCallback ==
  /\ queue # <<>>
  /\ queue' = Tail(queue)
  /\ LET e == Head(queue)
     IN /\ \/ HandleConnected(e) \/ HandleDisconnected(e)
           \/ HandleSubscription(e) \/ HandleDataWritten(e)
           \/ HandleSysAttrMissing(e) \/ HandleAuthorizeWrite(e)
           \/ HandleAuthorizeRead(e) \/ HandleConfirmation(e) \/ HandleDataSent(e)
        /\ unsent' = unsent - Reported(e)
  /\ UNCHANGED <<server, tx, indicated>>

(***************************************************************************)
(* shutdown() of the BLE API: the SoftDevice forgets everything, the       *)
(* driver what its reset() clears.                                         *)
(***************************************************************************)
\* A plausible fault: characteristicCount survives.
ResetKeepingCount(g) ==
  [g EXCEPT !.serviceCount = 0, !.descriptorCount = 0,
            !.p_characteristics = Server.p_characteristics, !.offered = {}]
Reset(g) ==
  [g EXCEPT !.serviceCount = 0, !.characteristicCount = 0, !.descriptorCount = 0,
            !.p_characteristics = Server.p_characteristics,
            !.nrfCharacteristicHandles =
               [i \in DOMAIN @ |-> IF i = 1 THEN [value |-> 0, cccd |-> 0] ELSE @[i]],
            !.offered = {}]

Shutdown ==
  /\ server.offered # {}
  /\ server' = Reset(server)
  /\ table' = <<>> /\ vsBases' = <<>>
  /\ value' = [h \in Handles |-> InitialValue] /\ last' = value'
  /\ cccd' = [h \in Handles |-> {}]
  /\ link' = "off" /\ sysAttrs' = FALSE /\ pending' = NoRequest
  /\ tx' = 0 /\ indicated' = 0 /\ m_connectionHandle' = FALSE
  /\ queue' = <<>> /\ owed' = <<>> /\ heard' = {} /\ unsent' = 0

\* Once all services are there, the application starts advertising.
StartAdvertising ==
  /\ link = "off" /\ queue = <<>> /\ server.offered = Services
  /\ link' = "advertising"
  /\ UNCHANGED <<server, sdVars, sysAttrs, pending, tx, indicated, m_connectionHandle,
                 queue, historyVars>>

Init ==
  /\ server = Server
  /\ table = <<>> /\ vsBases = <<>>
  /\ value = [h \in Handles |-> InitialValue] /\ last = value
  /\ cccd = [h \in Handles |-> {}]
  /\ link = "off" /\ sysAttrs = FALSE /\ pending = NoRequest
  /\ tx = 0 /\ indicated = 0 /\ m_connectionHandle = FALSE
  /\ queue = <<>> /\ owed = <<>> /\ heard = {} /\ unsent = 0

Next ==
  \/ AddService \/ StartAdvertising \/ Connect \/ SoftDeviceResumes
  \/ CentralConfirms \/ LinkLost \/ hwCallback \/ Shutdown
  \/ \E c \in Characteristics, v \in Values, localOnly \in BOOLEAN : Write(c, v, localOnly)
  \/ \E h \in Handles, v \in Values : CentralWrites(h, v) \/ CentralAsks(h, v)
  \/ \E h \in Handles, bits \in CCCDValues : CentralSubscribes(h, bits)
  \/ \E n \in 1 .. TxBuffers : RadioSends(n)

Fairness == WF_vars(hwCallback) /\ WF_vars(SoftDeviceResumes)
Spec == Init /\ [][Next]_vars /\ Fairness

-----------------------------------------------------------------------------
TypeOK ==
  /\ server.characteristicCount \in 0 .. BLE_TOTAL_CHARACTERISTICS
  /\ server.descriptorCount \in 0 .. BLE_TOTAL_DESCRIPTORS
  /\ Len(server.convertedUUIDTable) <= UUID_TABLE_MAX_ENTRIES
  /\ Len(table) <= MaxAttributes
  /\ value \in [Handles -> Values] /\ last \in [Handles -> Values]
  /\ cccd \in [Handles -> SUBSET Subscriptions]
  /\ link \in {"off", "advertising", "connected"}
  /\ sysAttrs \in BOOLEAN /\ m_connectionHandle \in BOOLEAN
  /\ tx \in 0 .. TxBuffers /\ indicated \in 0 .. MaxAttributes
  /\ Len(queue) <= MaxEvents + 1
  /\ heard \subseteq Handles /\ unsent \in 0 .. TxBuffers + MaxEvents * TxBuffers

\* Every value and every CCCD of the table resolves to the characteristic it
\* was added for, and no other handle to any, whatever a failed addService or
\* the reset of an earlier configuration left in nrfCharacteristicHandles.
HandlesResolve ==
  \A h \in 1 .. Len(table) :
    /\ ValueIndex(h) # 0 => Char(ValueIndex(h)) = table[h].char
    /\ CCCDIndex(h) # 0 => Char(CCCDIndex(h)) = table[h].char
    /\ (ValueIndex(h) # 0) = (table[h].kind = "value")
    /\ (CCCDIndex(h) # 0) = (table[h].kind = "cccd")

\* A write() that does not report an error of its parameters leaves its value
\* in the attribute, also when no notification can be sent.
ValueIsLastWritten == value = last

Joined(a, b) == a \o b
Unheard(e) == IF e.type = "write" /\ table[e.handle].kind = "value"
              THEN << <<e.handle, e.data>> >> ELSE <<>>
\* The application is told of every write of a central to the value of a
\* characteristic, authorized by it or not, in order: what it was not told of is
\* still in the queue.  Not so of a descriptor, whose writes no index is found for.
ToldOfWrites == owed = FoldLeft(Joined, <<>>, [i \in DOMAIN queue |-> Unheard(queue[i])])

\* When no event about them waits, the application knows which updates the
\* central of its connection has enabled.
SubscriptionsKnown ==
  (/\ link = "connected" /\ m_connectionHandle
   /\ \A i \in DOMAIN queue : queue[i].type # "write")
  => heard = {h \in Attributes("value") :
                HasCCCD(table[h].char) /\ cccd[h + 1] \cap Properties[table[h].char] # {}}

Added(m, n) == m + n
\* The counts of onDataSent add up to the notifications write() queued.
DataSentExact == unsent = FoldLeft(Added, tx, [i \in DOMAIN queue |-> Reported(queue[i])])

\* A request that waits for the application or for the system attributes is
\* answered, unless the SoftDevice refused the one answer the driver gave: its
\* result is dropped, and the request then waits until the link is lost.
RequestsAnswered ==
  pending.kind # "none" ~> pending.kind = "none" \/ pending.refused

\* BLE.h:141-145: after a shutdown, the database can be populated again; every
\* attribute then has the UUID base its service was declared with.
PublishedAsAsked ==
  \A h \in Attributes("value") : \E s \in Services :
    table[h].char \in Range(s.chars) /\ table[h].base = s.base

=============================================================================
