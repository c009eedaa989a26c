-------------------------- MODULE AdvertisingFields --------------------------
(***************************************************************************)
(* What an advertising payload is to its users: a list of fields, at most  *)
(* one of each type, that together fit into MAX_PAYLOAD bytes.             *)
(***************************************************************************)
EXTENDS Integers, SequencesExt

CONSTANTS MAX_PAYLOAD,  \* bytes on the air
          Types,        \* the field types
          ListTypes,    \* those whose values are collected
          Datas         \* the values, sequences of bytes

VARIABLE fields

\* A byte for the length and one for the type come with each value.
WithField(n, f) == n + 2 + Len(f.data)
Size(fs) == FoldLeft(WithField, 0, fs)

Fits(fs) == Size(fs) <= MAX_PAYLOAD

\* Another value for field k: in place if it is as long, else at the end.
Replaced(k, data) ==
  IF Len(data) = Len(fields[k].data)
    THEN [fields EXCEPT ![k].data = data]
    ELSE Append(RemoveAt(fields, k), [type |-> fields[k].type, data |-> data])

\* A value joins the others of a list, all of them in one piece; on which side of them
\* is left open.
Joined(k, data) ==
  {[fields EXCEPT ![k].data = joined] :
     joined \in {data \o fields[k].data, fields[k].data \o data}}

Index(t) == {k \in DOMAIN fields : fields[k].type = t}

AfterAdd(t, data) ==
  IF Index(t) = {} THEN {Append(fields, [type |-> t, data |-> data])}
  ELSE IF t \in ListTypes THEN UNION {Joined(k, data) : k \in Index(t)}
  ELSE {Replaced(k, data) : k \in Index(t)}

Init == fields = <<>>

Add ==
  \E t \in Types, data \in Datas :
    /\ fields' \in AfterAdd(t, data)
    /\ Fits(fields')

Update ==
  \E k \in DOMAIN fields, data \in Datas :
    /\ fields' = Replaced(k, data)
    /\ Fits(fields')

Set ==
  \E t \in Types, data \in Datas :
    fields' = <<[type |-> t, data |-> data]>> /\ Fits(fields')

Clear == fields' = <<>>

Next == Add \/ Update \/ Set \/ Clear

Spec == Init /\ [][Next]_fields
=============================================================================
