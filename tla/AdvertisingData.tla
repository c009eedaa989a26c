--------------------------- MODULE AdvertisingData ---------------------------
(***************************************************************************)
(* GapAdvertisingData.h, the byte buffer in which the fields of an         *)
(* advertisement are added, extended, replaced and moved, and the calls of *)
(* Gap.h that change a copy of it, offer the copy to the SoftDevice and    *)
(* keep it if it is taken.  The buffer's array of bytes is followed in     *)
(* memory by its length.  The scan response, a second such buffer, is left *)
(* out; so is the appearance, which the firmware never changes.            *)
(***************************************************************************)
EXTENDS Integers, Sequences

CONSTANTS
  MAX_PAYLOAD,  \* 31
  Types,        \* DataType_t
  ListTypes,    \* those whose values are collected
  Datas         \* bound: the values that are passed, sequences of bytes

ASSUME AdvertisingAssumption ==
  /\ MAX_PAYLOAD \in 2..255
  /\ Types \subseteq 1..255 /\ ListTypes \subseteq Types
  /\ \A data \in Datas : data \in Seq(0..255) /\ Len(data) <= 255

Offsets == 0..(MAX_PAYLOAD - 1)

VARIABLES
  _advPayload,  \* bytes: the array, len: _payloadLen
  onAir,        \* what the SoftDevice advertises
  rc            \* the result of the last call, or of the SoftDevice inside it

vars == <<_advPayload, onAir, rc>>

Empty == [bytes |-> [o \in Offsets |-> 0], len |-> 0]

Init == _advPayload = Empty /\ onAir = <<>> /\ rc = "NONE"

-----------------------------------------------------------------------------
(*************************** GapAdvertisingData ****************************)

Done(d) == [rc |-> "NONE", d |-> d]
Overflow(d) == [rc |-> "BUFFER_OVERFLOW", d |-> d]

\* The array with s written at offset o.
Written(bytes, o, s) ==
  [p \in Offsets |-> IF p - o + 1 \in DOMAIN s THEN s[p - o + 1] ELSE bytes[p]]

AppendField(d, t, data) ==
  IF d.len + Len(data) + 2 > MAX_PAYLOAD
    THEN Overflow(d)
    ELSE Done([bytes |-> Written(d.bytes, d.len, <<Len(data) + 1, t>> \o data),
               len |-> d.len + Len(data) + 2])

NotFound == -1

\* The offset of the field of type t.
FindField(d, t) ==
  LET find[idx \in Nat] ==
        IF idx >= d.len THEN NotFound
        ELSE IF d.bytes[idx + 1] = t THEN idx
        ELSE find[idx + d.bytes[idx] + 1]
  IN find[0]

\* (Bug) The bytes behind the field are moved by one too few.
UpdateFieldKeepByte(d, t, data, field) ==
  LET dataLength == d.bytes[field] - 1
      removed == [p \in Offsets |->
                    IF p >= field /\ p + dataLength + 1 < d.len
                      THEN d.bytes[p + dataLength + 1] ELSE d.bytes[p]]
  IN IF Len(data) = dataLength
       THEN Done([d EXCEPT !.bytes = Written(@, field + 2, data)])
     ELSE IF d.len - dataLength + Len(data) <= MAX_PAYLOAD
       THEN AppendField([bytes |-> removed, len |-> d.len - (dataLength + 2)], t, data)
     ELSE Overflow(d)

\* Same length: in place.  Another length: close the gap, append anew.
UpdateField(d, t, data, field) ==
  LET dataLength == d.bytes[field] - 1
      removed == [p \in Offsets |->
                    IF p >= field /\ p + dataLength + 2 < d.len
                      THEN d.bytes[p + dataLength + 2] ELSE d.bytes[p]]
  IN IF Len(data) = dataLength
       THEN Done([d EXCEPT !.bytes = Written(@, field + 2, data)])
     ELSE IF d.len - dataLength + Len(data) <= MAX_PAYLOAD
       THEN AppendField([bytes |-> removed, len |-> d.len - (dataLength + 2)], t, data)
     ELSE Overflow(d)

\* (Bug) The bytes are moved from the front: the first of them are moved over the next.
ExtendedFromFront(d, data, field) ==
  [p \in Offsets |->
     IF p = field THEN d.bytes[p] + Len(data)
     ELSE IF p - field - 1 \in DOMAIN data THEN data[p - field - 1]
     ELSE IF data # <<>> /\ p > field + 1 + Len(data) /\ p <= d.len + Len(data)
       THEN d.bytes[field + 2 + ((p - field - 2) % Len(data))]
     ELSE d.bytes[p]]

\* The bytes from behind the type of the field up to and including offset
\* d.len, one past the last, move right to make room for data.
Extended(d, data, field) ==
  [p \in Offsets |->
     IF p = field THEN d.bytes[p] + Len(data)
     ELSE IF p - field - 1 \in DOMAIN data THEN data[p - field - 1]
     ELSE IF p > field + 1 + Len(data) /\ p <= d.len + Len(data) THEN d.bytes[p - Len(data)]
     ELSE d.bytes[p]]

\* Does that one byte too many land behind the array, on the length?
HitsLength(d, data) == data # <<>> /\ d.len + Len(data) = MAX_PAYLOAD

\* The length is then incremented from that byte, unless the compiler had it in
\* a register.
ExtendField(d, data, field) ==
  IF d.len + Len(data) > MAX_PAYLOAD
    THEN {Overflow(d)}
    ELSE {Done([bytes |-> Extended(d, data, field), len |-> n]) :
            n \in {d.len + Len(data)} \cup
                  IF HitsLength(d, data) THEN {(d.bytes[d.len] + Len(data)) % 256} ELSE {}}

AddData(d, t, data) ==
  LET field == FindField(d, t)
  IN IF field = NotFound THEN {AppendField(d, t, data)}
     ELSE IF t \in ListTypes THEN ExtendField(d, data, field)
     ELSE {UpdateField(d, t, data, field)}

UpdateData(d, t, data) ==
  LET field == FindField(d, t)
  IN IF field = NotFound THEN [rc |-> "UNSPECIFIED", d |-> d]
     ELSE UpdateField(d, t, data, field)

-----------------------------------------------------------------------------
(*********************************** Gap ***********************************)

Content(d) == [k \in 1..d.len |-> d.bytes[k - 1]]

\* setAdvertisingData: the SoftDevice checks the format and may refuse.
Refused(d) ==
  IF d.len > MAX_PAYLOAD THEN {"BUFFER_OVERFLOW"} ELSE {"PARAM_OUT_OF_RANGE"}

SetAdvertisingData(d) ==
  \/ /\ d.len \in 1..MAX_PAYLOAD
     /\ onAir' = Content(d)
     /\ rc' = "NONE"
  \/ /\ rc' \in Refused(d)
     /\ UNCHANGED onAir

\* (Bug) The buffer itself is changed before the SoftDevice is asked.
OfferInPlace(result) ==
  /\ _advPayload' = result.d
  /\ \/ result.rc = "NONE" /\ SetAdvertisingData(result.d)
     \/ result.rc # "NONE" /\ rc' = result.rc /\ UNCHANGED onAir

\* What the calls do with the changed copy.
Offer(result) ==
  \/ /\ result.rc = "NONE"
     /\ SetAdvertisingData(result.d)
     /\ _advPayload' = IF rc' = "NONE" THEN result.d ELSE _advPayload
  \/ /\ result.rc # "NONE"
     /\ rc' = result.rc
     /\ UNCHANGED <<_advPayload, onAir>>

AccumulateAdvertisingPayload ==
  \E t \in Types, data \in Datas :
    \E result \in AddData(_advPayload, t, data) : Offer(result)

UpdateAdvertisingPayload ==
  \E t \in Types, data \in Datas : Offer(UpdateData(_advPayload, t, data))

\* A payload the caller made, here of one field.
SetAdvertisingPayload ==
  \E t \in Types, data \in Datas :
    LET made == AppendField(Empty, t, data)
    IN made.rc = "NONE" /\ Offer(made)

\* Nobody looks at what setAdvertisingData says to an empty payload.
ClearAdvertisingPayload ==
  /\ _advPayload' = Empty
  /\ SetAdvertisingData(Empty)

Next ==
  \/ AccumulateAdvertisingPayload \/ UpdateAdvertisingPayload
  \/ SetAdvertisingPayload \/ ClearAdvertisingPayload

Spec == Init /\ [][Next]_vars

\* Behaviours without the byte that ExtendField writes behind the array.  Such a
\* step extends a list up to the very last byte of it.
Overruns ==
  \E t \in ListTypes, data \in Datas :
    LET field == FindField(_advPayload, t)
    IN /\ field # NotFound
       /\ HitsLength(_advPayload, data)
       /\ _advPayload'.bytes = Extended(_advPayload, data, field)

InsideSpec == Init /\ [][Next /\ ~Overruns]_vars

-----------------------------------------------------------------------------
(******************************** properties *******************************)

\* The fields that a reader of the payload finds.
Fields(d) ==
  LET read[idx \in Nat] ==
        IF idx >= d.len THEN <<>>
        ELSE <<[type |-> d.bytes[idx + 1],
                data |-> [k \in 1..(d.bytes[idx] - 1) |-> d.bytes[idx + 1 + k]]]>>
             \o read[idx + d.bytes[idx] + 1]
  IN read[0]

\* Where the last field ends.
End(d) ==
  LET end[idx \in Nat] == IF idx >= d.len THEN idx ELSE end[idx + d.bytes[idx] + 1]
  IN end[0]

\* GapAdvertisingData.h:557, "The length of the data added to the advertising
\* buffer": the fields, each as long as its first byte says, fill the payload up
\* to its length exactly, however they were added, extended and moved.
LengthIsOfData == _advPayload.len <= MAX_PAYLOAD /\ End(_advPayload) = _advPayload.len

\* A call that is refused, by the buffer or by the SoftDevice, changes neither: the
\* payload that getAdvertisingPayload() returns and later calls build on is the one on
\* the air.  Not so an empty one: clearAdvertisingPayload() (Gap.h:955) drops the
\* buffer's fields and not, if the SoftDevice refuses, those on the air.
OnAirIsPayload == _advPayload # Empty => onAir = Content(_advPayload)

Abstract == INSTANCE AdvertisingFields WITH fields <- Fields(_advPayload)

\* Whatever bytes are moved, the payload is the list of fields it stands for: no byte
\* of a field is lost, doubled or mixed with another field's, and a value that joins a
\* list leaves the others whole.  It is not about the order within a list, where code
\* and comments differ: GapAdvertisingData.h:228-229, 446, 456 and Gap.h:1061 say that
\* the new value is appended, while 474-482 put it in front of the others.
KeepsFields == Abstract!Spec
=============================================================================
