------------------------ MODULE GattDiscovery_proofs ------------------------
(***************************************************************************)
(* Service discovery, proved for every table a peer may have, every size   *)
(* of the caches and any number of launches: a discovery ends once for the *)
(* application (DiscoveryEndsOnce), the answer to a UUID read is entered   *)
(* where it was asked for (AnswersMeetTheIndex), and what is reported is   *)
(* what the filter asks for, in order and complete (ReportsAreComplete).   *)
(*                                                                         *)
(* The argument is about what is awaited: an answer that would set the     *)
(* state of the discovery finds it in the state it was asked for in,       *)
(* because nothing that is handled before the answer moves the discovery.  *)
(* So it is handled at the place in the peer's table that it was asked at, *)
(* and the reports have come as far as that place.                         *)
(***************************************************************************)
EXTENDS GattDiscovery, TLAPS

Fields == {"state", "serviceIndex", "numServices", "numCharacteristics", "services",
           "characteristics", "discoveredCharacteristic", "serviceUUIDDiscoveryQueue",
           "charUUIDDiscoveryQueue", "filter", "request", "told", "stopped", "cut"}

Sequence(q) == \E S : q \in Seq(S)
IsDisc(d) == d = [n \in Fields |-> d[n]] /\ Sequence(d.told)

\* What the application was told.
Silent(s) == \A k \in 1 .. Len(s) : s[k] # End
Ends(s) == Len(s) > 0 /\ s[Len(s)] = End /\ \A k \in 1 .. Len(s) - 1 : s[k] # End

Open(d) == IsDisc(d) /\ isActive(d) /\ Silent(d.told)
Ended(d) == IsDisc(d) /\ ~isActive(d) /\ Ends(d.told)
Fresh(d) == IsDisc(d) /\ ~isActive(d) /\ d.told = <<>>

Reading == {"DISCOVER_SERVICE_UUIDS", "DISCOVER_CHARACTERISTIC_UUIDS"}

\* What the handling of an answer may do to a discovery that goes on.
GoesOn(d, x) ==
  /\ Open(x)
  /\ \/ x.request = d.request
     \/ Accepts(d) /\ x.request.kind = "uuid" /\ x.state \in Reading

\* What a callback may do.
Reported(d, x) ==
  /\ x.request = d.request
  /\ \/ x.state = d.state /\ Open(x)
     \/ x.state = "INACTIVE" /\ Ended(x)

-----------------------------------------------------------------------------

LEMMA AppendReports ==
  ASSUME NEW s, Sequence(s), Silent(s), NEW r
  PROVE  /\ Sequence(Append(s, r))
         /\ r # End => Silent(Append(s, r))
         /\ r = End => Ends(Append(s, r))
<1>1. PICK S : s \in Seq(S)
  BY DEF Sequence
<1>2. s \in Seq(S \cup {r})
  BY <1>1
<1>3. /\ Append(s, r) \in Seq(S \cup {r})
      /\ Len(s) \in Nat
      /\ Len(Append(s, r)) = Len(s) + 1
      /\ \A k \in 1 .. Len(s) : Append(s, r)[k] = s[k]
      /\ Append(s, r)[Len(s) + 1] = r
  BY <1>2
<1> HIDE DEF End
<1>4. Sequence(Append(s, r))
  BY <1>3 DEF Sequence
<1>5. r # End => Silent(Append(s, r))
  BY <1>3 DEF Silent
<1>6. r = End => Ends(Append(s, r))
  BY <1>3 DEF Silent, Ends
<1> QED
  BY <1>4, <1>5, <1>6

LEMMA TerminateEnds ==
  ASSUME NEW d, IsDisc(d), NEW x \in {terminateServiceDiscovery(d), Stopped(d)}
  PROVE  /\ IsDisc(x) /\ x.state = "INACTIVE" /\ x.request = d.request
         /\ Open(d) => Ended(x)
         /\ Ended(d) => Ended(x)
         /\ Fresh(d) => Fresh(x)
<1>1. /\ x = [n \in Fields |-> x[n]]
      /\ x.state = "INACTIVE" /\ x.request = d.request
      /\ x.told = IF isActive(d) THEN Append(d.told, End) ELSE d.told
  BY DEF terminateServiceDiscovery, Stopped, IsDisc, Fields
<1>2. CASE isActive(d) /\ Silent(d.told)
  <2>1. Sequence(d.told)
    BY DEF IsDisc
  <2>2. Sequence(x.told) /\ Ends(x.told)
    BY <1>1, <1>2, <2>1, AppendReports
  <2> QED
    BY <1>1, <1>2, <2>2 DEF IsDisc, isActive, Ended, Fresh
<1>3. CASE ~isActive(d)
  BY <1>1, <1>3 DEF IsDisc, isActive, Open, Ended, Fresh
<1>4. CASE isActive(d) /\ ~Silent(d.told)
  <2>1. Sequence(x.told)
    <3>1. PICK S : d.told \in Seq(S)
      BY DEF IsDisc, Sequence
    <3>2. Append(d.told, End) \in Seq(S \cup {End})
      <4>1. d.told \in Seq(S \cup {End})
        BY <3>1
      <4> HIDE DEF End
      <4> QED
        BY <4>1
    <3> QED
      BY <1>1, <1>4, <3>2 DEF Sequence
  <2> QED
    BY <1>1, <1>4, <2>1 DEF IsDisc, isActive, Open, Ended, Fresh
<1> QED
  BY <1>2, <1>3, <1>4

LEMMA CallbackReports ==
  ASSUME NEW d, Open(d), NEW r, r # End, NEW mayStop \in BOOLEAN,
         NEW x \in Callback(d, r, mayStop)
  PROVE  Reported(d, x) /\ (~mayStop => Open(x))
<1> DEFINE t == [d EXCEPT !.told = Append(@, r)]
<1>1. /\ t = [n \in Fields |-> t[n]]
      /\ t.state = d.state /\ t.request = d.request /\ t.told = Append(d.told, r)
  BY DEF Open, IsDisc, Fields
<1>2. x = t \/ (mayStop /\ x = Stopped(t))
  BY DEF Callback
<1> HIDE DEF t
<1>3. Sequence(Append(d.told, r)) /\ Silent(Append(d.told, r))
  <2>1. Sequence(d.told) /\ Silent(d.told)
    BY DEF Open, IsDisc
  <2> QED
    BY <2>1, AppendReports
<1>4. Open(t)
  BY <1>1, <1>3 DEF Open, IsDisc, isActive
<1>5. Stopped(t).state = "INACTIVE" /\ Stopped(t).request = t.request /\ Ended(Stopped(t))
  BY <1>4, TerminateEnds DEF Open
<1> QED
  BY <1>1, <1>2, <1>4, <1>5 DEF Reported

LEMMA CharacteristicReports ==
  ASSUME NEW d, Open(d), NEW c, NEW mayStop \in BOOLEAN,
         NEW x \in CharacteristicCallback(d, c, mayStop)
  PROVE  Reported(d, x) /\ (~mayStop => Open(x))
<1>1. Characteristic(c) # End
  BY DEF Characteristic, End
<1>2. x = d \/ x \in Callback(d, Characteristic(c), mayStop)
  BY DEF CharacteristicCallback
<1>3. CASE x = d
  BY <1>3 DEF Reported
<1> QED
  BY <1>1, <1>2, <1>3, CallbackReports

LEMMA ServiceGoesOn ==
  ASSUME "last" \notin Trouble,
         NEW d, Open(d), NEW complete, NEW x \in terminateCharacteristicDiscovery(d, complete)
  PROVE  /\ Open(x) /\ x.request = d.request
         /\ d.state = "CHARACTERISTIC_DISCOVERY_ACTIVE" => x.state = "SERVICE_DISCOVERY_ACTIVE"
<1>1. CASE d.state # "CHARACTERISTIC_DISCOVERY_ACTIVE"
  <2>1. x = [d EXCEPT !.serviceIndex = @ + 1]
    BY <1>1 DEF terminateCharacteristicDiscovery
  <2>2. /\ x = [n \in Fields |-> x[n]]
        /\ x.state = d.state /\ x.request = d.request /\ x.told = d.told
    BY <2>1 DEF Open, IsDisc, Fields
  <2> QED
    BY <1>1, <2>2 DEF Open, IsDisc, isActive
<1>2. CASE d.state = "CHARACTERISTIC_DISCOVERY_ACTIVE"
  <2>1. PICK e : /\ \/ e = d
                    \/ \E c : e \in CharacteristicCallback(d, c, "last" \in Trouble)
                 /\ x = [e EXCEPT !.state = "SERVICE_DISCOVERY_ACTIVE", !.serviceIndex = @ + 1,
                                  !.discoveredCharacteristic = None]
    BY <1>2 DEF terminateCharacteristicDiscovery
  <2>2. Open(e) /\ e.request = d.request
    <3>1. CASE e = d
      BY <3>1
    <3>2. ASSUME NEW c, e \in CharacteristicCallback(d, c, "last" \in Trouble)
          PROVE  Open(e) /\ e.request = d.request
      <4>1. ("last" \in Trouble) \in BOOLEAN
        OBVIOUS
      <4>2. Reported(d, e) /\ Open(e)
        BY <3>2, <4>1, CharacteristicReports
      <4> QED
        BY <4>2 DEF Reported
    <3> QED
      BY <2>1, <3>1, <3>2
  <2>3. /\ x = [n \in Fields |-> x[n]]
        /\ x.state = "SERVICE_DISCOVERY_ACTIVE" /\ x.request = d.request /\ x.told = e.told
    BY <2>1, <2>2 DEF Open, IsDisc, Fields
  <2> QED
    BY <2>2, <2>3 DEF Open, IsDisc, isActive
<1> QED
  BY <1>1, <1>2

LEMMA TriggerGoesOn ==
  ASSUME NEW d, Open(d), NEW x \in {triggerFirstService(d), triggerFirstChar(d)}
  PROVE  GoesOn(d, x)
<1>1. /\ x = [n \in Fields |-> x[n]] /\ x.told = d.told /\ x.state # "INACTIVE"
      /\ \/ x.request = d.request
         \/ Accepts(d) /\ x.request.kind = "uuid" /\ x.state \in Reading
  <2>1. CASE x = triggerFirstService(d)
    BY <2>1 DEF triggerFirstService, ReadUUID, Reading, Open, IsDisc, isActive, Fields
  <2>2. CASE x = triggerFirstChar(d)
    BY <2>2 DEF triggerFirstChar, ReadUUID, Reading, Open, IsDisc, isActive, Fields
  <2> QED
    BY <2>1, <2>2
<1> QED
  BY <1>1 DEF GoesOn, Open, IsDisc, isActive

LEMMA SetupGoesOn ==
  ASSUME NEW d, Open(d), NEW found,
         NEW x \in {setupDiscoveredServices(d, found), setupDiscoveredCharacteristics(d, found)}
  PROVE  GoesOn(d, x)
<1>1. PICK t : /\ t = [n \in Fields |-> t[n]] /\ t.told = d.told /\ t.state = d.state
               /\ t.request = d.request
               /\ x \in {triggerFirstService(t), triggerFirstChar(t)}
  <2>1. CASE x = setupDiscoveredServices(d, found)
    <3>1. PICK n, s, q : x = triggerFirstService(
                               [d EXCEPT !.serviceIndex = 0, !.numServices = n, !.services = s,
                                         !.serviceUUIDDiscoveryQueue = q])
      BY <2>1 DEF setupDiscoveredServices
    <3> QED
      BY <3>1 DEF Open, IsDisc, Fields
  <2>2. CASE x = setupDiscoveredCharacteristics(d, found)
    <3>1. PICK n, c, q : x = triggerFirstChar(
                               [d EXCEPT !.numCharacteristics = n, !.characteristics = c,
                                         !.charUUIDDiscoveryQueue = q])
      BY <2>2 DEF setupDiscoveredCharacteristics
    <3> QED
      BY <3>1 DEF Open, IsDisc, Fields
  <2> QED
    BY <2>1, <2>2
<1>2. Open(t) /\ (Accepts(t) => Accepts(d))
  BY <1>1 DEF Open, IsDisc, isActive, Accepts
<1> QED
  BY <1>1, <1>2, TriggerGoesOn DEF GoesOn

LEMMA UUIDGoesOn ==
  ASSUME NEW d, Open(d), NEW e
  PROVE  /\ GoesOn(d, processDiscoverUUIDResponse(d, e))
         /\ d.state \notin Reading => processDiscoverUUIDResponse(d, e) = d
<1> DEFINE x == processDiscoverUUIDResponse(d, e)
<1>1. CASE d.state \notin Reading
  <2>1. x = d
    BY <1>1 DEF processDiscoverUUIDResponse, Reading
  <2> QED
    BY <1>1, <2>1 DEF GoesOn
<1>2. CASE d.state \in Reading
  <2>1. PICK t : /\ t = [n \in Fields |-> t[n]] /\ t.told = d.told /\ t.state = d.state
                 /\ t.request = d.request
                 /\ x \in {t, triggerFirstService(t), triggerFirstChar(t)}
    <3>1. CASE d.state = "DISCOVER_SERVICE_UUIDS"
      <4> DEFINE n == [d EXCEPT !.serviceUUIDDiscoveryQueue = Tail(@)]
                 r == [n EXCEPT !.services[Head(d.serviceUUIDDiscoveryQueue)].uuid = e.uuid]
      <4>1. x = n \/ x = triggerFirstService(r)
        BY <3>1 DEF processDiscoverUUIDResponse
      <4>2. /\ n = [f \in Fields |-> n[f]] /\ n.told = d.told /\ n.state = d.state
            /\ n.request = d.request
        BY DEF Open, IsDisc, Fields
      <4>3. /\ r = [f \in Fields |-> r[f]] /\ r.told = d.told /\ r.state = d.state
            /\ r.request = d.request
        BY DEF Open, IsDisc, Fields
      <4> HIDE DEF x, n, r
      <4> QED
        BY <4>1, <4>2, <4>3
    <3>2. CASE d.state = "DISCOVER_CHARACTERISTIC_UUIDS"
      <4> DEFINE n == [d EXCEPT !.charUUIDDiscoveryQueue = Tail(@)]
                 r == [n EXCEPT !.characteristics[Head(d.charUUIDDiscoveryQueue)].uuid = e.uuid]
      <4>1. x = n \/ x = triggerFirstChar(r)
        BY <3>2 DEF processDiscoverUUIDResponse
      <4>2. /\ n = [f \in Fields |-> n[f]] /\ n.told = d.told /\ n.state = d.state
            /\ n.request = d.request
        BY DEF Open, IsDisc, Fields
      <4>3. /\ r = [f \in Fields |-> r[f]] /\ r.told = d.told /\ r.state = d.state
            /\ r.request = d.request
        BY DEF Open, IsDisc, Fields
      <4> HIDE DEF x, n, r
      <4> QED
        BY <4>1, <4>2, <4>3
    <3> QED
      BY <1>2, <3>1, <3>2 DEF Reading
  <2>2. Open(t) /\ (Accepts(t) => Accepts(d))
    BY <2>1 DEF Open, IsDisc, isActive, Accepts
  <2>3. GoesOn(t, x)
    BY <2>1, <2>2, TriggerGoesOn DEF GoesOn
  <2> QED
    BY <1>2, <2>1, <2>2, <2>3 DEF GoesOn
<1> QED
  BY <1>1, <1>2

LEMMA LaunchGoesOn ==
  ASSUME "last" \notin Trouble,
         NEW d, Open(d), NEW x \in launchCharacteristicDiscovery(d)
  PROVE  /\ Open(x)
         /\ \/ x.request = d.request /\ x.state = "SERVICE_DISCOVERY_ACTIVE"
            \/ /\ Accepts(d) /\ x.request.kind = "characteristics"
               /\ x.state = "CHARACTERISTIC_DISCOVERY_ACTIVE"
<1> DEFINE t == [d EXCEPT !.state = "CHARACTERISTIC_DISCOVERY_ACTIVE", !.numCharacteristics = 0]
<1>1. /\ t = [n \in Fields |-> t[n]] /\ t.told = d.told /\ t.request = d.request
      /\ t.state = "CHARACTERISTIC_DISCOVERY_ACTIVE"
  BY DEF Open, IsDisc, Fields
<1>2. \/ ~Accepts(d) /\ x \in terminateCharacteristicDiscovery(t, FALSE)
      \/ Accepts(d) /\ \E r : r.kind = "characteristics" /\ x = [t EXCEPT !.request = r]
  BY DEF launchCharacteristicDiscovery
<1> HIDE DEF t
<1>3. Open(t)
  BY <1>1 DEF Open, IsDisc, isActive
<1>4. CASE x \in terminateCharacteristicDiscovery(t, FALSE)
  BY <1>1, <1>3, <1>4, ServiceGoesOn
<1>5. CASE Accepts(d) /\ \E r : r.kind = "characteristics" /\ x = [t EXCEPT !.request = r]
  <2>1. PICK r : r.kind = "characteristics" /\ x = [t EXCEPT !.request = r]
    BY <1>5
  <2>2. /\ x = [n \in Fields |-> x[n]] /\ x.told = t.told /\ x.request = r
        /\ x.state = t.state
    BY <1>1, <2>1 DEF Fields
  <2> QED
    BY <1>1, <1>3, <1>5, <2>1, <2>2 DEF Open, IsDisc, isActive
<1> QED
  BY <1>2, <1>4, <1>5

-----------------------------------------------------------------------------
(***************************************************************************)
(* The inductive invariant.  Told is EndsOnce; the rest says of every      *)
(* answer ahead that it will find the discovery as it was asked from.      *)
(***************************************************************************)
\* What is ahead of the discovery: the events not looked at yet.
Kinds == {"other", "uuid", "services", "characteristics", "disconnected"}
Rank(kind) == CASE kind = "other" -> 1 [] kind = "uuid" -> 2 [] kind = "services" -> 3
                [] kind = "characteristics" -> 3 [] kind = "disconnected" -> 4

Rest == (IF pc = "idle" THEN 1 ELSE 2) .. Len(events)
IsAhead(kind) == \E k \in Rest : events[k].kind = kind
Awaited(kind) == disc.request.kind = kind \/ IsAhead(kind)

\* No step of the handler would move the discovery.
NothingToDo(d) ==
  ~(d.serviceIndex < d.numServices) /\ ~(d.numServices > 0 /\ d.serviceIndex > 0)
Quiet(d) == /\ d.state # "CHARACTERISTIC_DISCOVERY_ACTIVE"
            /\ d.state = "SERVICE_DISCOVERY_ACTIVE" => NothingToDo(d)

Told ==
  launches \in Nat /\ IF launches = 0 THEN Fresh(disc) ELSE Open(disc) \/ Ended(disc)

Asked ==
  \/ disc.request = NoRequest
  \/ /\ disc.request.kind \in {"services", "characteristics", "uuid"} /\ link
     /\ \A k \in Rest : Rank(events[k].kind) < Rank(disc.request.kind)

Queued ==
  /\ Sequence(events)
  /\ pc \in {"idle", "progressCharacteristicDiscovery", "characteristics",
             "moreCharacteristics", "progressServiceDiscovery"}
  /\ pc # "idle" => events # <<>>
  /\ \A k \in 1 .. Len(events) :
       events[k].kind \in Kinds /\ (events[k].kind = "disconnected" => ~link)
  /\ \A j, k \in Rest : j < k => Rank(events[j].kind) < Rank(events[k].kind)
  /\ (pc # "idle" /\ Head(events).kind = "disconnected") => Len(events) = 1

Calm ==
  /\ (IsAhead("other") \/ IsAhead("uuid") \/ (pc # "idle" /\ Head(events).kind = "other"))
       => Quiet(disc)
  /\ (pc = "idle" /\ disc.state = "SERVICE_DISCOVERY_ACTIVE") => NothingToDo(disc)
  /\ disc.request.kind = "uuid" =>
       disc.state \notin {"SERVICE_DISCOVERY_ACTIVE", "CHARACTERISTIC_DISCOVERY_ACTIVE"}

Expecting ==
  /\ Awaited("services") => disc.state = "SERVICE_DISCOVERY_ACTIVE" /\ NothingToDo(disc)
  /\ Awaited("characteristics") =>
       /\ disc.state = "CHARACTERISTIC_DISCOVERY_ACTIVE"
       /\ pc \in {"idle", "progressServiceDiscovery"}
  /\ pc \in {"characteristics", "moreCharacteristics"} =>
       /\ disc.request = NoRequest /\ Head(events).kind # "other"
       /\ \A k \in Rest : events[k].kind = "disconnected"

DiscoveryInv == Told /\ Asked /\ Queued /\ Calm /\ Expecting

LEMMA Known ==
  ASSUME DiscoveryInv
  PROVE  /\ IsDisc(disc)
         /\ isActive(disc) => Open(disc) /\ launches > 0
         /\ ~isActive(disc) => Ended(disc) \/ Fresh(disc)
         /\ disc.request # NoRequest => \A k \in Rest : events[k].kind # "disconnected"
         /\ disc.request.kind # "none" => disc.request # NoRequest
         /\ Len(events) \in Nat
<1>1. Len(events) \in Nat
  BY DEF DiscoveryInv, Queued, Sequence
<1>2. \A k \in Rest : k \in 1 .. Len(events)
  BY <1>1 DEF Rest
<1> QED
  BY <1>1, <1>2 DEF DiscoveryInv, Told, Asked, Queued, Open, Ended, Fresh, NoRequest

\* A step of the handler behind which at most one request is under way.
LEMMA MovesOn ==
  ASSUME DiscoveryInv, pc # "idle", disc.request = NoRequest, Head(events).kind # "other",
         \A k \in Rest : events[k].kind = "disconnected",
         UNCHANGED <<events, link, launches>>, Told',
         pc' \in {"progressCharacteristicDiscovery", "characteristics",
                  "moreCharacteristics", "progressServiceDiscovery"},
         \/ disc'.request = NoRequest
         \/ /\ link /\ disc'.request.kind = "characteristics"
            /\ disc'.state = "CHARACTERISTIC_DISCOVERY_ACTIVE"
            /\ pc' = "progressServiceDiscovery"
  PROVE  DiscoveryInv'
<1>1. Rest' = Rest /\ events' = events /\ link' = link
  BY DEF Rest
<1>2. Len(events) \in Nat /\ \A k \in Rest : k \in 1 .. Len(events)
  BY Known DEF Rest
<1>3. link => Rest = {}
  BY <1>2 DEF DiscoveryInv, Queued
<1>4. Asked'
  BY <1>1, <1>3 DEF Asked
<1>5. Queued'
  BY <1>1 DEF DiscoveryInv, Queued
<1>6. \A kind \in {"other", "uuid", "services", "characteristics"} : ~IsAhead(kind)'
  BY <1>1 DEF IsAhead
<1>7. Calm'
  BY <1>1, <1>6 DEF Calm, NoRequest
<1>8. Expecting'
  BY <1>1, <1>3, <1>6 DEF Expecting, Awaited, NoRequest
<1> QED
  BY <1>4, <1>5, <1>7, <1>8 DEF DiscoveryInv

\* Within the handler, nothing is under way while the discovery can move.
LEMMA Undisturbed ==
  ASSUME DiscoveryInv, pc # "idle",
         \/ pc \in {"characteristics", "moreCharacteristics"}
         \/ pc = "progressCharacteristicDiscovery" /\ Discovering
         \/ disc.state = "SERVICE_DISCOVERY_ACTIVE" /\ ~NothingToDo(disc)
  PROVE  /\ disc.request = NoRequest /\ Head(events).kind # "other"
         /\ \A k \in Rest : events[k].kind = "disconnected"
<1>1. CASE pc \in {"characteristics", "moreCharacteristics"}
  BY <1>1 DEF DiscoveryInv, Expecting
<1>2. CASE \/ pc = "progressCharacteristicDiscovery" /\ Discovering
           \/ disc.state = "SERVICE_DISCOVERY_ACTIVE" /\ ~NothingToDo(disc)
  <2>1. ~Quiet(disc)
    BY <1>2 DEF Quiet, Discovering
  <2>2. ~IsAhead("other") /\ ~IsAhead("uuid") /\ Head(events).kind # "other"
    BY <2>1 DEF DiscoveryInv, Calm
  <2>3. ~Awaited("services") /\ ~Awaited("characteristics")
    BY <1>2 DEF DiscoveryInv, Expecting, Discovering
  <2>4. disc.request.kind # "uuid"
    BY <1>2 DEF DiscoveryInv, Calm, Discovering
  <2>5. disc.request = NoRequest
    BY <2>3, <2>4 DEF DiscoveryInv, Asked, Awaited
  <2>6. \A k \in Rest : k \in 1 .. Len(events)
    BY Known DEF Rest
  <2>7. \A k \in Rest : events[k].kind = "disconnected"
    BY <2>2, <2>3, <2>6 DEF DiscoveryInv, Queued, Kinds, IsAhead, Awaited
  <2> QED
    BY <2>2, <2>5, <2>7
<1> QED
  BY <1>1, <1>2

LEMMA ReportedIsTold ==
  ASSUME DiscoveryInv, isActive(disc), UNCHANGED launches, Reported(disc, disc') \/ Open(disc')
  PROVE  Told'
BY Known DEF DiscoveryInv, Told, Reported

LEMMA FirstCharacteristicKeeps ==
  ASSUME DiscoveryInv, FirstCharacteristic
  PROVE  DiscoveryInv'
<1>1. pc = "progressCharacteristicDiscovery" /\ UNCHANGED <<events, link, launches>>
  BY DEF FirstCharacteristic, Goto
<1>2. CASE ~Discovering
  <2>1. pc' = "progressServiceDiscovery" /\ disc' = disc
    BY <1>2 DEF FirstCharacteristic, Goto
  <2>2. Rest' = Rest
    BY <1>1, <2>1 DEF Rest
  <2>3. Told' /\ Asked' /\ Queued'
    BY <1>1, <2>1, <2>2 DEF DiscoveryInv, Told, Asked, Queued
  <2>4. Calm' /\ Expecting'
    BY <1>1, <2>1, <2>2 DEF DiscoveryInv, Calm, Expecting, IsAhead, Awaited
  <2> QED
    BY <2>3, <2>4 DEF DiscoveryInv
<1>3. CASE Discovering
  <2>1. /\ disc.request = NoRequest /\ Head(events).kind # "other"
        /\ \A k \in Rest : events[k].kind = "disconnected"
    BY <1>1, <1>3, Undisturbed
  <2>2. Open(disc)
    BY <1>3, Known DEF Discovering, isActive
  <2>3. pc' = "characteristics" /\ Reported(disc, disc')
    <3>1. CASE disc' = disc
      BY <1>3, <2>2, <3>1 DEF FirstCharacteristic, Goto, Reported
    <3>2. CASE \E c : disc' \in CharacteristicCallback(
                                [disc EXCEPT !.discoveredCharacteristic = c], c, TRUE)
      <4>1. PICK c : disc' \in CharacteristicCallback(
                                [disc EXCEPT !.discoveredCharacteristic = c], c, TRUE)
        BY <3>2
      <4> DEFINE t == [disc EXCEPT !.discoveredCharacteristic = c]
      <4>2. /\ t = [n \in Fields |-> t[n]]
            /\ t.state = disc.state /\ t.request = disc.request /\ t.told = disc.told
        BY <2>2 DEF Open, IsDisc, Fields
      <4>3. disc' \in CharacteristicCallback(t, c, TRUE)
        BY <4>1
      <4> HIDE DEF t
      <4>4. Open(t)
        BY <2>2, <4>2 DEF Open, IsDisc, isActive
      <4>5. Reported(t, disc')
        BY <4>3, <4>4, CharacteristicReports
      <4> QED
        BY <1>3, <4>2, <4>5 DEF FirstCharacteristic, Goto, Reported
    <3> QED
      BY <1>3, <3>1, <3>2 DEF FirstCharacteristic
  <2>4. Told'
    BY <1>1, <2>2, <2>3, ReportedIsTold DEF Open
  <2> QED
    BY <1>1, <2>1, <2>3, <2>4, MovesOn DEF Reported
<1> QED
  BY <1>2, <1>3

LEMMA NextCharacteristicKeeps ==
  ASSUME DiscoveryInv, NextCharacteristic
  PROVE  DiscoveryInv'
<1>1. pc = "characteristics" /\ UNCHANGED <<events, link, launches>>
  BY DEF NextCharacteristic, Goto
<1>2. /\ disc.request = NoRequest /\ Head(events).kind # "other"
      /\ \A k \in Rest : events[k].kind = "disconnected"
  BY <1>1, Undisturbed
<1>3. pc' \in {"characteristics", "moreCharacteristics", "progressServiceDiscovery"}
  BY DEF NextCharacteristic, Goto
<1>4. Told' /\ disc'.request = disc.request
  <2>1. CASE disc' = disc
    BY <1>1, <2>1 DEF DiscoveryInv, Told
  <2>2. CASE Discovering /\ \E c : disc' = [disc EXCEPT !.discoveredCharacteristic = c]
    <3>1. Open(disc)
      BY <2>2, Known DEF Discovering, isActive
    <3>2. PICK c : disc' = [disc EXCEPT !.discoveredCharacteristic = c]
      BY <2>2
    <3>3. /\ disc' = [n \in Fields |-> disc'[n]]
          /\ disc'.state = disc.state /\ disc'.request = disc.request /\ disc'.told = disc.told
      BY <3>1, <3>2 DEF Open, IsDisc, Fields
    <3>4. Open(disc')
      BY <3>1, <3>3 DEF Open, IsDisc, isActive
    <3> QED
      BY <1>1, <3>1, <3>3, <3>4, ReportedIsTold DEF Open
  <2>3. CASE /\ Discovering
             /\ \E c : disc' \in CharacteristicCallback([disc EXCEPT !.characteristics[i] = c],
                                                     c, TRUE)
    <3>1. Open(disc)
      BY <2>3, Known DEF Discovering, isActive
    <3>2. PICK c : disc' \in CharacteristicCallback([disc EXCEPT !.characteristics[i] = c],
                                                   c, TRUE)
      BY <2>3
    <3> DEFINE t == [disc EXCEPT !.characteristics[i] = c]
    <3>3. /\ t = [n \in Fields |-> t[n]]
          /\ t.state = disc.state /\ t.request = disc.request /\ t.told = disc.told
      BY <3>1 DEF Open, IsDisc, Fields
    <3>4. disc' \in CharacteristicCallback(t, c, TRUE)
      BY <3>2
    <3> HIDE DEF t
    <3>5. Open(t)
      BY <3>1, <3>3 DEF Open, IsDisc, isActive
    <3>6. Reported(disc, disc')
      BY <3>3, <3>4, <3>5, CharacteristicReports DEF Reported
    <3> QED
      BY <1>1, <3>1, <3>6, ReportedIsTold DEF Open, Reported
  <2> QED
    BY <2>1, <2>2, <2>3 DEF NextCharacteristic
<1> QED
  BY <1>1, <1>2, <1>3, <1>4, MovesOn

LEMMA NoCharacteristicsKeeps ==
  ASSUME DiscoveryInv, NoCharacteristics
  PROVE  DiscoveryInv'
<1>1. /\ pc = "characteristics" /\ pc' = "moreCharacteristics"
      /\ UNCHANGED <<disc, events, link, launches>>
  BY DEF NoCharacteristics, Goto
<1>2. /\ disc.request = NoRequest /\ Head(events).kind # "other"
      /\ \A k \in Rest : events[k].kind = "disconnected"
  BY <1>1, Undisturbed
<1>3. Told'
  BY <1>1 DEF DiscoveryInv, Told
<1> QED
  BY <1>1, <1>2, <1>3, MovesOn

LEMMA MoreCharacteristicsKeeps ==
  ASSUME "last" \notin Trouble, DiscoveryInv, MoreCharacteristics
  PROVE  DiscoveryInv'
<1>1. /\ pc = "moreCharacteristics" /\ pc' = "progressServiceDiscovery"
      /\ UNCHANGED <<events, link, launches>>
  BY DEF MoreCharacteristics, Goto
<1>2. /\ disc.request = NoRequest /\ Head(events).kind # "other"
      /\ \A k \in Rest : events[k].kind = "disconnected"
  BY <1>1, Undisturbed
<1>3. CASE ~Discovering
  <2>1. disc' = disc
    BY <1>3 DEF MoreCharacteristics
  <2>2. Told'
    BY <1>1, <2>1 DEF DiscoveryInv, Told
  <2> QED
    BY <1>1, <1>2, <2>1, <2>2, MovesOn
<1>4. CASE Discovering
  <2> DEFINE d == [disc EXCEPT !.numCharacteristics = 0]
  <2>1. Open(disc)
    BY <1>4, Known DEF Discovering, isActive
  <2>2. /\ d = [n \in Fields |-> d[n]]
        /\ d.state = disc.state /\ d.request = disc.request /\ d.told = disc.told
    BY <2>1 DEF Open, IsDisc, Fields
  <2>3. \/ disc' \in terminateCharacteristicDiscovery(d, TRUE)
        \/ disc' \in terminateCharacteristicDiscovery(d, FALSE)
        \/ /\ Accepts(d)
           /\ \E from, to : disc' = [d EXCEPT !.request = [kind |-> "characteristics",
                                                        from |-> from, to |-> to]]
    BY <1>4 DEF MoreCharacteristics
  <2> HIDE DEF d
  <2>4. Open(d)
    BY <2>1, <2>2 DEF Open, IsDisc, isActive
  <2>5. CASE \/ disc' \in terminateCharacteristicDiscovery(d, TRUE)
             \/ disc' \in terminateCharacteristicDiscovery(d, FALSE)
    <3>1. Open(disc') /\ disc'.request = disc.request
      BY <2>2, <2>4, <2>5, ServiceGoesOn
    <3>2. Told'
      BY <1>1, <2>1, <3>1, ReportedIsTold DEF Open
    <3> QED
      BY <1>1, <1>2, <3>1, <3>2, MovesOn
  <2>6. CASE /\ Accepts(d)
             /\ \E from, to : disc' = [d EXCEPT !.request = [kind |-> "characteristics",
                                                          from |-> from, to |-> to]]
    <3>1. PICK from, to : disc' = [d EXCEPT !.request = [kind |-> "characteristics",
                                                       from |-> from, to |-> to]]
      BY <2>6
    <3>2. /\ disc' = [n \in Fields |-> disc'[n]] /\ disc'.told = d.told
          /\ disc'.state = d.state /\ disc'.request.kind = "characteristics"
      BY <2>2, <3>1 DEF Fields
    <3>3. Open(disc')
      BY <2>4, <3>2 DEF Open, IsDisc, isActive
    <3>4. Told'
      BY <1>1, <2>1, <3>3, ReportedIsTold DEF Open
    <3> QED
      BY <1>1, <1>2, <1>4, <2>2, <2>6, <3>2, <3>4, MovesOn DEF Accepts, Discovering
  <2> QED
    BY <2>3, <2>5, <2>6
<1> QED
  BY <1>3, <1>4

LEMMA NextServiceKeeps ==
  ASSUME "last" \notin Trouble, DiscoveryInv, NextService
  PROVE  DiscoveryInv'
<1>1. /\ pc = "progressServiceDiscovery" /\ pc' = "progressServiceDiscovery"
      /\ UNCHANGED <<events, link, launches>>
      /\ disc.state = "SERVICE_DISCOVERY_ACTIVE" /\ ~NothingToDo(disc)
  BY DEF NextService, Goto, NothingToDo
<1>2. /\ disc.request = NoRequest /\ Head(events).kind # "other"
      /\ \A k \in Rest : events[k].kind = "disconnected"
  BY <1>1, Undisturbed
<1>3. Open(disc)
  BY <1>1, Known DEF isActive
<1>4. PICK d, s : /\ d = disc \/ d \in Callback(disc, Service(s), TRUE)
                  /\ \/ disc' = [d EXCEPT !.serviceIndex = @ + 1]
                     \/ isActive(d) /\ disc' \in launchCharacteristicDiscovery(d)
  <2> DEFINE s == disc.services[disc.serviceIndex]
             reported == IF disc.filter.characteristic = ANY
                         THEN Callback(disc, Service(s), TRUE) ELSE {disc}
             Skip(d) == {[d EXCEPT !.serviceIndex = @ + 1]}
  <2>1. \/ disc' \in Skip(disc)
        \/ \E d \in reported : disc' \in IF isActive(d) /\ d.filter.wanted
                                       THEN launchCharacteristicDiscovery(d) ELSE Skip(d)
    BY DEF NextService
  <2> HIDE DEF s
  <2>2. \A d \in reported : d = disc \/ d \in Callback(disc, Service(s), TRUE)
    OBVIOUS
  <2> HIDE DEF reported
  <2> QED
    BY <2>1, <2>2
<1>5. Reported(disc, d)
  <2>1. Service(s) # End
    BY DEF Service, End
  <2>2. CASE d = disc
    BY <1>3, <2>2 DEF Reported
  <2>3. CASE d \in Callback(disc, Service(s), TRUE)
    BY <1>3, <2>1, <2>3, CallbackReports
  <2> QED
    BY <1>4, <2>2, <2>3
<1>6. CASE disc' = [d EXCEPT !.serviceIndex = @ + 1]
  <2>1. /\ disc' = [n \in Fields |-> disc'[n]]
        /\ disc'.state = d.state /\ disc'.request = d.request /\ disc'.told = d.told
    BY <1>5, <1>6 DEF Reported, Open, Ended, IsDisc, Fields
  <2>2. Reported(disc, disc')
    BY <1>5, <2>1 DEF Reported, Open, Ended, IsDisc, isActive
  <2>3. Told'
    BY <1>1, <1>3, <2>2, ReportedIsTold DEF Open
  <2> QED
    BY <1>1, <1>2, <2>2, <2>3, MovesOn DEF Reported
<1>7. CASE isActive(d) /\ disc' \in launchCharacteristicDiscovery(d)
  <2>1. Open(d) /\ d.request = disc.request
    BY <1>5, <1>7 DEF Reported, isActive
  <2>2. /\ Open(disc')
        /\ \/ disc'.request = d.request
           \/ /\ Accepts(d) /\ disc'.request.kind = "characteristics"
              /\ disc'.state = "CHARACTERISTIC_DISCOVERY_ACTIVE"
    BY <1>7, <2>1, LaunchGoesOn
  <2>3. Told'
    BY <1>1, <1>3, <2>2, ReportedIsTold DEF Open
  <2> QED
    BY <1>1, <1>2, <2>1, <2>2, <2>3, MovesOn DEF Accepts
<1> QED
  BY <1>4, <1>6, <1>7

\* The handler takes an event: what lies behind it is of higher rank.
LEMMA Taken ==
  ASSUME DiscoveryInv, bleGattcEventHandler
  PROVE  /\ pc = "idle" /\ pc' = "progressCharacteristicDiscovery"
         /\ UNCHANGED <<events, link, launches>>
         /\ Head(events).kind \in Kinds /\ IsAhead(Head(events).kind)
         /\ Rest' \subseteq Rest /\ Rest' \subseteq 1 .. Len(events)
         /\ \A k \in Rest' : Rank(Head(events).kind) < Rank(events[k].kind)
         /\ disc.request # NoRequest => Rank(Head(events).kind) < Rank(disc.request.kind)
         /\ Head(events).kind = "disconnected" => disc.request = NoRequest /\ Len(events) = 1
         /\ Sequence(events) /\ events # <<>>
<1>1. /\ pc = "idle" /\ pc' = "progressCharacteristicDiscovery" /\ events # <<>>
      /\ UNCHANGED <<events, link, launches>>
  BY DEF bleGattcEventHandler
<1>2. Sequence(events)
  BY DEF DiscoveryInv, Queued
<1>3. Len(events) \in Nat /\ Len(events) > 0 /\ Head(events) = events[1]
  BY <1>1, <1>2 DEF Sequence
<1>4. Rest = 1 .. Len(events) /\ Rest' = 2 .. Len(events)
  BY <1>1 DEF Rest
<1>5. 1 \in Rest
  BY <1>3, <1>4
<1>6. Head(events).kind \in Kinds /\ IsAhead(Head(events).kind)
  BY <1>3, <1>4, <1>5 DEF DiscoveryInv, Queued, IsAhead
<1>7. \A k \in Rest' : k \in Rest /\ 1 < k
  BY <1>3, <1>4
<1>8. \A k \in Rest' : Rank(Head(events).kind) < Rank(events[k].kind)
  BY <1>3, <1>5, <1>7 DEF DiscoveryInv, Queued
<1>9. disc.request # NoRequest => Rank(Head(events).kind) < Rank(disc.request.kind)
  BY <1>3, <1>5 DEF DiscoveryInv, Asked
<1>10. Head(events).kind = "disconnected" => disc.request = NoRequest /\ Len(events) = 1
  <2> SUFFICES ASSUME Head(events).kind = "disconnected"
               PROVE  disc.request = NoRequest /\ Len(events) = 1
    OBVIOUS
  <2>1. disc.request = NoRequest
    BY <1>3, <1>5, Known
  <2>2. \A k \in Rest' : events[k].kind \in Kinds
    BY <1>4, <1>7 DEF DiscoveryInv, Queued
  <2>3. \A k \in Rest' : FALSE
    BY <1>8, <2>2 DEF Rank, Kinds
  <2>4. Len(events) = 1
    BY <1>3, <1>4, <2>3
  <2> QED
    BY <2>1, <2>4
<1> QED
  BY <1>1, <1>2, <1>4, <1>6, <1>7, <1>8, <1>9, <1>10

LEMMA EventHandlerKeeps ==
  ASSUME "last" \notin Trouble, DiscoveryInv, bleGattcEventHandler
  PROVE  DiscoveryInv'
<1> DEFINE e == Head(events)
<1>1. disc' \in Handled(disc, e)
  BY DEF bleGattcEventHandler
<1>2. Queued'
  BY Taken DEF DiscoveryInv, Queued
<1>3. ASSUME NEW kind, IsAhead(kind)'
      PROVE  IsAhead(kind) /\ Rank(e.kind) < Rank(kind)
  BY <1>3, Taken DEF IsAhead
<1> HIDE DEF e
\* The event is not looked at, or a stale UUID.
<1>4. ASSUME disc' = disc, e.kind \in {"other", "uuid", "disconnected"}
      PROVE  DiscoveryInv'
  <2>1. Told' /\ Asked'
    BY <1>4, Taken DEF DiscoveryInv, Told, Asked
  <2>2. ~Awaited("characteristics")'
    <3>1. CASE e.kind = "disconnected"
      <4>1. disc.request = NoRequest /\ ~IsAhead("characteristics")'
        BY <1>3, <3>1, Taken DEF e, Rank
      <4> QED
        BY <1>4, <4>1 DEF Awaited, NoRequest
    <3>2. CASE e.kind \in {"other", "uuid"}
      <4>1. Quiet(disc)
        BY <3>2, Taken DEF e, DiscoveryInv, Calm
      <4>2. ~Awaited("characteristics")
        BY <4>1 DEF DiscoveryInv, Expecting, Quiet
      <4> QED
        BY <1>3, <1>4, <4>2 DEF Awaited
    <3> QED
      BY <1>4, <3>1, <3>2
  <2>3. Awaited("services")' => Awaited("services")
    BY <1>3, <1>4 DEF Awaited
  <2>4. Expecting'
    BY <1>4, <2>2, <2>3, Taken DEF DiscoveryInv, Expecting
  <2>5. e.kind = "other" => Quiet(disc)
    BY Taken DEF e, DiscoveryInv, Calm
  <2>6. Calm'
    BY <1>3, <1>4, <2>5, Taken DEF DiscoveryInv, Calm, e
  <2> QED
    BY <1>2, <2>1, <2>4, <2>6 DEF DiscoveryInv
\* It leads on: at most one UUID is asked for.
<1>5. ASSUME Told', e.kind \in {"uuid", "services", "characteristics"},
             \A k \in Rest' : events[k].kind = "disconnected",
             \/ disc'.request = NoRequest
             \/ link /\ disc'.request.kind = "uuid" /\ disc'.state \in Reading
      PROVE  DiscoveryInv'
  <2>1. link => Rest' = {}
    BY <1>5, Taken DEF DiscoveryInv, Queued
  <2>2. Asked'
    BY <1>5, <2>1, Taken DEF Asked
  <2>3. \A kind \in {"other", "uuid", "services", "characteristics"} : ~IsAhead(kind)'
    BY <1>5, Taken DEF IsAhead
  <2>4. Calm'
    BY <1>5, <2>3, Taken DEF Calm, NoRequest, Reading, e
  <2>5. Expecting'
    BY <1>5, <2>3, Taken DEF Expecting, Awaited, NoRequest
  <2> QED
    BY <1>2, <1>5, <2>2, <2>4, <2>5 DEF DiscoveryInv
<1>6. ASSUME Open(disc), disc.request = NoRequest, GoesOn(disc, disc')
      PROVE  /\ Told'
             /\ \/ disc'.request = NoRequest
                \/ link /\ disc'.request.kind = "uuid" /\ disc'.state \in Reading
  <2>1. Told'
    BY <1>6, Taken, ReportedIsTold DEF GoesOn, Open
  <2> QED
    BY <1>6, <2>1 DEF GoesOn, Accepts
<1>7. CASE e.kind \in {"services", "characteristics"}
  <2>1. \A k \in Rest' : events[k].kind = "disconnected"
    <3>1. \A k \in Rest' : events[k].kind \in Kinds
      BY Taken DEF DiscoveryInv, Queued
    <3> QED
      BY <1>7, <3>1, Taken DEF e, Rank, Kinds
  <2>2. disc.request = NoRequest
    <3>1. Rank(e.kind) = 3
      BY <1>7 DEF Rank
    <3>2. \A kind \in {"services", "characteristics", "uuid"} : ~(3 < Rank(kind))
      BY DEF Rank
    <3>3. disc.request # NoRequest => disc.request.kind \in {"services", "characteristics", "uuid"}
      BY DEF DiscoveryInv, Asked
    <3> QED
      BY <3>1, <3>2, <3>3, Taken DEF e
  <2>3. CASE e.kind = "services"
    <3>1. disc.state = "SERVICE_DISCOVERY_ACTIVE"
      BY <2>3, Taken DEF e, DiscoveryInv, Expecting, Awaited
    <3>2. Open(disc)
      BY <3>1, Known DEF isActive
    <3>3. CASE disc' = setupDiscoveredServices(disc, e.found)
      <4>1. GoesOn(disc, disc')
        BY <3>2, <3>3, SetupGoesOn
      <4> QED
        BY <1>5, <1>6, <2>1, <2>2, <2>3, <3>2, <4>1
    <3>4. CASE disc' = terminateServiceDiscovery(disc)
      <4>1. Ended(disc') /\ disc'.request = NoRequest
        BY <2>2, <3>2, <3>4, TerminateEnds DEF Open
      <4>2. Told'
        BY <3>2, <4>1, Taken, Known DEF Told, DiscoveryInv, Open
      <4> QED
        BY <1>5, <2>1, <2>3, <4>1, <4>2
    <3> QED
      BY <1>1, <2>3, <3>3, <3>4 DEF Handled
  <2>4. CASE e.kind = "characteristics"
    <3>1. disc.state = "CHARACTERISTIC_DISCOVERY_ACTIVE"
      BY <2>4, Taken DEF e, DiscoveryInv, Expecting, Awaited
    <3>2. Open(disc)
      BY <3>1, Known DEF isActive
    <3>3. GoesOn(disc, disc')
      <4>1. CASE disc' = setupDiscoveredCharacteristics(disc, e.found)
        BY <3>2, <4>1, SetupGoesOn
      <4>2. CASE disc' \in terminateCharacteristicDiscovery(disc, TRUE)
        BY <3>2, <4>2, ServiceGoesOn DEF GoesOn
      <4> QED
        BY <1>1, <2>4, <4>1, <4>2 DEF Handled
    <3> QED
      BY <1>5, <1>6, <2>1, <2>2, <2>4, <3>2, <3>3
  <2> QED
    BY <1>7, <2>3, <2>4
<1>8. CASE e.kind = "uuid"
  <2>1. CASE disc.state \notin Reading
    <3>1. disc' = disc
      <4>1. CASE isActive(disc)
        BY <1>1, <1>8, <2>1, <4>1, Known, UUIDGoesOn DEF Handled
      <4>2. CASE ~isActive(disc)
        BY <1>1, <1>8, <4>2 DEF Handled
      <4> QED
        BY <4>1, <4>2
    <3> QED
      BY <1>4, <1>8, <3>1
  <2>2. CASE disc.state \in Reading
    <3>1. isActive(disc) /\ Open(disc)
      BY <2>2, Known DEF Reading, isActive
    <3>2. GoesOn(disc, disc')
      BY <1>1, <1>8, <3>1, UUIDGoesOn DEF Handled
    <3>3. ~Awaited("services") /\ ~Awaited("characteristics")
      BY <2>2 DEF Reading, DiscoveryInv, Expecting
    <3>4. disc.request = NoRequest
      <4>1. disc.request # NoRequest => disc.request.kind = "uuid"
        BY <3>3 DEF DiscoveryInv, Asked, Awaited
      <4> QED
        BY <1>8, <4>1, Taken DEF e, Rank
    <3>5. \A k \in Rest' : events[k].kind = "disconnected"
      <4>1. \A k \in Rest' : events[k].kind \in Kinds
        BY Taken DEF DiscoveryInv, Queued
      <4>2. ~IsAhead("services")' /\ ~IsAhead("characteristics")'
        BY <1>3, <3>3 DEF Awaited
      <4> QED
        BY <1>8, <4>1, <4>2, Taken DEF e, Rank, Kinds, IsAhead
    <3> QED
      BY <1>5, <1>6, <1>8, <3>1, <3>2, <3>4, <3>5
  <2> QED
    BY <2>1, <2>2
<1>9. CASE e.kind \in {"other", "disconnected"}
  <2>1. disc' = disc
    BY <1>1, <1>9 DEF Handled
  <2> QED
    BY <1>4, <1>9, <2>1
<1> QED
  BY <1>7, <1>8, <1>9, Taken DEF Kinds, e

\* The handler ends: what was behind the event is ahead now.
LEMMA Passed ==
  ASSUME DiscoveryInv, pc # "idle", pc' = "idle", events' = Tail(events), UNCHANGED link
  PROVE  /\ Sequence(events)' /\ Len(events') \in Nat
         /\ \A k \in Rest' : k + 1 \in Rest /\ events'[k] = events[k + 1]
         /\ \A k \in Rest : k - 1 \in Rest'
         /\ \A kind : IsAhead(kind)' => IsAhead(kind)
         /\ Queued'
<1>1. PICK S : events \in Seq(S) /\ events # <<>>
  BY DEF DiscoveryInv, Queued, Sequence
<1>2. /\ Tail(events) \in Seq(S) /\ Len(events) \in Nat /\ Len(events) > 0
      /\ Len(Tail(events)) = Len(events) - 1
      /\ \A k \in 1 .. Len(events) - 1 : Tail(events)[k] = events[k + 1]
  BY <1>1
<1>3. Rest = 2 .. Len(events) /\ Rest' = 1 .. Len(events) - 1
  BY <1>2 DEF Rest
<1>4. Sequence(events)'
  BY <1>2 DEF Sequence
<1>5. \A k \in Rest' : k + 1 \in Rest /\ events'[k] = events[k + 1]
  BY <1>2, <1>3
<1>6. \A k \in Rest : k - 1 \in Rest'
  BY <1>2, <1>3
<1>7. \A kind : IsAhead(kind)' => IsAhead(kind)
  BY <1>5 DEF IsAhead
<1>8. Queued'
  <2>1. \A k \in 1 .. Len(events') :
          events'[k].kind \in Kinds /\ (events'[k].kind = "disconnected" => ~link)
    <3>1. \A k \in 1 .. Len(events') :
            k + 1 \in 1 .. Len(events) /\ events'[k] = events[k + 1]
      BY <1>2
    <3> QED
      BY <3>1 DEF DiscoveryInv, Queued
  <2>2. \A j, k \in Rest' : j < k => Rank(events'[j].kind) < Rank(events'[k].kind)
    <3>1. \A j, k \in Rest' : j < k => j + 1 < k + 1
      BY <1>3
    <3> QED
      BY <1>5, <3>1 DEF DiscoveryInv, Queued
  <2> QED
    BY <1>4, <2>1, <2>2 DEF Queued
<1>9. Len(events') \in Nat
  BY <1>2
<1> QED
  BY <1>4, <1>5, <1>6, <1>7, <1>8, <1>9

LEMMA MoreServicesKeeps ==
  ASSUME DiscoveryInv, MoreServices
  PROVE  DiscoveryInv'
<1> DEFINE end == disc.services[disc.serviceIndex - 1].end
           more == /\ disc.state = "SERVICE_DISCOVERY_ACTIVE" /\ disc.numServices > 0
                   /\ disc.serviceIndex > 0
           d == [disc EXCEPT !.numServices = 0, !.serviceIndex = 0]
           asking == [d EXCEPT !.request = [kind |-> "services", from |-> end]]
           next == IF ~more THEN disc
                   ELSE IF end # SRV_DISC_END_HANDLE /\ Accepts(d) THEN asking
                   ELSE terminateServiceDiscovery(d)
           e == Head(events)
<1>1. /\ pc = "progressServiceDiscovery" /\ pc' = "idle" /\ events' = Tail(events)
      /\ UNCHANGED <<link, launches>> /\ disc' = Closed(next, e)
      /\ ~(disc.state = "SERVICE_DISCOVERY_ACTIVE" /\ disc.serviceIndex < disc.numServices)
  BY DEF MoreServices
<1>2. next = disc \/ (next = asking /\ Accepts(d)) \/ next = terminateServiceDiscovery(d)
  OBVIOUS
<1>3. more \/ next = disc
  OBVIOUS
<1>4. disc' = next \/ disc' = terminateServiceDiscovery(next)
  BY <1>1 DEF Closed
<1>5. e.kind # "disconnected" => disc' = next
  BY <1>1 DEF Closed
<1>6. more => disc.state = "SERVICE_DISCOVERY_ACTIVE" /\ ~NothingToDo(disc)
  BY DEF NothingToDo
<1>7. ~more => (disc.state = "SERVICE_DISCOVERY_ACTIVE" => NothingToDo(disc))
  BY <1>1 DEF NothingToDo
<1>8. IsDisc(disc)
  BY Known
<1>9. /\ d = [n \in Fields |-> d[n]] /\ d.told = disc.told /\ d.state = disc.state
      /\ d.request = disc.request /\ d.numServices = 0 /\ d.serviceIndex = 0
  BY <1>8 DEF IsDisc, Fields
<1> HIDE DEF d
<1>10. /\ asking = [n \in Fields |-> asking[n]] /\ asking.told = disc.told
       /\ asking.state = disc.state /\ asking.request.kind = "services"
       /\ asking.numServices = 0 /\ asking.serviceIndex = 0
  BY <1>9 DEF Fields
<1>11. IsDisc(d) /\ IsDisc(asking)
  BY <1>8, <1>9, <1>10 DEF IsDisc
<1> HIDE DEF asking, end
<1>12. /\ Sequence(events)' /\ Len(events') \in Nat
       /\ \A k \in Rest' : k + 1 \in Rest /\ events'[k] = events[k + 1]
       /\ \A k \in Rest : k - 1 \in Rest'
       /\ \A kind : IsAhead(kind)' => IsAhead(kind)
       /\ Queued'
  BY <1>1, Passed
<1> HIDE DEF next
<1>13. CASE more
  <2>1. /\ disc.request = NoRequest /\ e.kind # "other"
        /\ \A k \in Rest : events[k].kind = "disconnected"
    BY <1>1, <1>6, <1>13, Undisturbed
  <2>2. Open(disc)
    BY <1>13, Known DEF isActive
  <2>3. \A kind \in {"other", "uuid", "services", "characteristics"} : ~IsAhead(kind)'
    BY <1>12, <2>1 DEF IsAhead
  <2>4. CASE /\ disc'.request = NoRequest /\ disc'.state = "INACTIVE" /\ Ended(disc')
    <3>1. Told'
      BY <1>1, <2>2, <2>4, Known DEF DiscoveryInv, Told, Open
    <3>2. Asked'
      BY <2>4 DEF Asked
    <3>3. Calm' /\ Expecting'
      BY <1>1, <2>3, <2>4 DEF Calm, Expecting, Awaited, NoRequest, Quiet
    <3> QED
      BY <1>12, <3>1, <3>2, <3>3 DEF DiscoveryInv
  <2>5. CASE disc' = asking /\ Accepts(d)
    <3>1. Open(disc')
      BY <1>10, <1>11, <2>2, <2>5 DEF Open, isActive
    <3>2. Told'
      BY <1>1, <2>2, <3>1, ReportedIsTold DEF Open
    <3>3. link /\ Rest' = {}
      <4>1. link
        BY <2>5 DEF Accepts
      <4>2. \A k \in Rest' : k + 1 \in 1 .. Len(events)
        BY <1>1, <1>12, Known DEF Rest
      <4> QED
        BY <1>12, <2>1, <4>1, <4>2 DEF DiscoveryInv, Queued
    <3>4. Asked'
      BY <1>1, <1>10, <2>5, <3>3 DEF Asked
    <3>5. NothingToDo(disc')
      BY <1>10, <2>5 DEF NothingToDo
    <3>6. Calm' /\ Expecting'
      BY <1>1, <1>10, <1>13, <2>3, <2>5, <3>5 DEF Calm, Expecting, Awaited, Quiet
    <3> QED
      BY <1>12, <3>2, <3>4, <3>6 DEF DiscoveryInv
  <2>6. next = terminateServiceDiscovery(d) \/ (next = asking /\ Accepts(d))
    BY <1>13 DEF next
  <2>7. CASE next = terminateServiceDiscovery(d)
    <3>1. Open(d) /\ d.request = NoRequest
      BY <1>9, <1>11, <2>1, <2>2 DEF Open, isActive
    <3>2. IsDisc(next) /\ Ended(next) /\ next.request = NoRequest /\ next.state = "INACTIVE"
      BY <1>11, <2>7, <3>1, TerminateEnds
    <3>3. disc'.request = NoRequest /\ disc'.state = "INACTIVE" /\ Ended(disc')
      <4>1. CASE disc' = next
        BY <3>2, <4>1
      <4>2. CASE disc' = terminateServiceDiscovery(next)
        BY <3>2, <4>2, TerminateEnds
      <4> QED
        BY <1>4, <4>1, <4>2
    <3> QED
      BY <2>4, <3>3
  <2>8. CASE next = asking /\ Accepts(d)
    <3>1. e.kind # "disconnected"
      <4>1. 1 \in 1 .. Len(events) /\ e = events[1]
        BY <1>1 DEF DiscoveryInv, Queued, Sequence
      <4> QED
        BY <2>8, <4>1 DEF Accepts, DiscoveryInv, Queued
    <3> QED
      BY <1>5, <2>5, <2>8, <3>1
  <2> QED
    BY <2>6, <2>7, <2>8
<1>14. CASE ~more
  <2>1. next = disc
    BY <1>3, <1>14
  <2>2. CASE disc' = disc
    <3>1. Told'
      BY <1>1, <2>2 DEF DiscoveryInv, Told
    <3>2. Asked'
      BY <1>1, <1>12, <2>2 DEF DiscoveryInv, Asked
    <3>3. Calm'
      BY <1>1, <1>7, <1>12, <1>14, <2>2 DEF DiscoveryInv, Calm
    <3>4. \A kind : Awaited(kind)' => Awaited(kind)
      BY <1>12, <2>2 DEF Awaited
    <3>5. Expecting'
      BY <1>1, <2>2, <3>4 DEF DiscoveryInv, Expecting
    <3> QED
      BY <1>12, <3>1, <3>2, <3>3, <3>5 DEF DiscoveryInv
  <2>3. CASE e.kind = "disconnected" /\ disc' = terminateServiceDiscovery(disc)
    <3>1. /\ IsDisc(disc') /\ disc'.state = "INACTIVE" /\ disc'.request = disc.request
          /\ Open(disc) => Ended(disc')
          /\ Ended(disc) => Ended(disc')
          /\ Fresh(disc) => Fresh(disc')
      BY <1>8, <2>3, TerminateEnds
    <3>2. Told'
      BY <1>1, <3>1 DEF DiscoveryInv, Told
    <3>3. Len(events) = 1 /\ e = events[1]
      BY <1>1, <2>3 DEF DiscoveryInv, Queued
    <3>4. ~link
      BY <2>3, <3>3 DEF DiscoveryInv, Queued
    <3>5. disc'.request = NoRequest
      BY <3>1, <3>4 DEF DiscoveryInv, Asked
    <3>6. \A kind : ~IsAhead(kind)'
      <4>1. \A k \in Rest' : FALSE
        BY <1>1, <1>12, <3>3 DEF Rest
      <4> QED
        BY <4>1 DEF IsAhead
    <3>7. Asked' /\ Calm' /\ Expecting'
      BY <1>1, <3>1, <3>5, <3>6 DEF Asked, Calm, Expecting, Awaited, NoRequest
    <3> QED
      BY <1>12, <3>2, <3>7 DEF DiscoveryInv
  <2> QED
    BY <1>4, <1>5, <2>1, <2>2, <2>3
<1> QED
  BY <1>13, <1>14

LEMMA LaunchKeeps ==
  ASSUME DiscoveryInv, Launch
  PROVE  DiscoveryInv'
<1>1. /\ pc = "idle" /\ launches' = launches + 1 /\ UNCHANGED <<pc, events, link>>
  BY DEF Launch
<1>2. Rest' = Rest /\ launches' > 0 /\ launches' \in Nat
  BY <1>1 DEF Rest, DiscoveryInv, Told
<1>3. Queued'
  BY <1>1, <1>2 DEF DiscoveryInv, Queued
<1>4. CASE isActive(disc)
  <2>1. disc' = disc
    BY <1>4 DEF Launch
  <2>2. Told' /\ Asked'
    BY <1>1, <1>2, <1>4, <2>1, Known DEF DiscoveryInv, Told, Asked
  <2>3. Calm' /\ Expecting'
    BY <1>1, <1>2, <2>1 DEF DiscoveryInv, Calm, Expecting, IsAhead, Awaited
  <2> QED
    BY <1>3, <2>2, <2>3 DEF DiscoveryInv
<1>5. CASE ~isActive(disc)
  <2>1. PICK f \in Filters :
          LET d == [disc EXCEPT !.filter = f, !.numServices = 0, !.serviceIndex = 0,
                                !.state = "SERVICE_DISCOVERY_ACTIVE",
                                !.told = <<>>, !.stopped = FALSE, !.cut = ~link]
          IN disc' = IF Accepts(d)
                     THEN [d EXCEPT !.request = [kind |-> "services", from |-> 1]]
                     ELSE Stopped(d)
    BY <1>5 DEF Launch
  <2> DEFINE d == [disc EXCEPT !.filter = f, !.numServices = 0, !.serviceIndex = 0,
                               !.state = "SERVICE_DISCOVERY_ACTIVE",
                               !.told = <<>>, !.stopped = FALSE, !.cut = ~link]
  <2>2. \/ Accepts(d) /\ disc' = [d EXCEPT !.request = [kind |-> "services", from |-> 1]]
        \/ ~Accepts(d) /\ disc' = Stopped(d)
    BY <2>1
  <2>3. IsDisc(disc)
    BY Known
  <2>4. /\ d = [n \in Fields |-> d[n]] /\ d.told = <<>> /\ d.request = disc.request
        /\ d.state = "SERVICE_DISCOVERY_ACTIVE" /\ d.numServices = 0 /\ d.serviceIndex = 0
    BY <2>3 DEF IsDisc, Fields
  <2> HIDE DEF d
  <2>5. Open(d)
    <3>1. Sequence(d.told)
      <4>1. <<>> \in Seq({End})
        OBVIOUS
      <4>2. d.told \in Seq({End})
        BY <2>4, <4>1
      <4> QED
        BY <4>2 DEF Sequence
    <3> QED
      BY <2>4, <3>1 DEF Open, IsDisc, isActive, Silent
  <2>6. ~Awaited("services") /\ ~Awaited("characteristics")
    BY <1>5 DEF DiscoveryInv, Expecting, isActive
  <2>7. \A kind : IsAhead(kind)' = IsAhead(kind)
    BY <1>1, <1>2 DEF IsAhead
  <2>8. CASE Accepts(d) /\ disc' = [d EXCEPT !.request = [kind |-> "services", from |-> 1]]
    <3>1. /\ disc' = [n \in Fields |-> disc'[n]] /\ disc'.told = d.told
          /\ disc'.state = d.state /\ disc'.request.kind = "services"
          /\ disc'.numServices = 0 /\ disc'.serviceIndex = 0
      BY <2>4, <2>8 DEF Fields
    <3>2. Open(disc') /\ NothingToDo(disc')
      BY <2>5, <3>1 DEF Open, IsDisc, isActive, NothingToDo
    <3>3. Told'
      BY <1>2, <3>2 DEF Told
    <3>4. link /\ disc.request = NoRequest
      BY <2>4, <2>8 DEF Accepts
    <3>5. \A k \in Rest : Rank(events[k].kind) < 3
      <4>1. \A k \in Rest : k \in 1 .. Len(events)
        BY Known DEF Rest
      <4>2. \A k \in Rest : events[k].kind \in {"other", "uuid"}
        BY <2>6, <3>4, <4>1 DEF DiscoveryInv, Queued, Kinds, Awaited, IsAhead
      <4> QED
        BY <4>2 DEF Rank
    <3>6. Asked'
      <4>1. Rank(disc'.request.kind) = 3
        BY <3>1 DEF Rank
      <4> QED
        BY <1>1, <1>2, <3>1, <3>4, <3>5, <4>1 DEF Asked
    <3>7. Calm' /\ Expecting'
      BY <1>1, <2>4, <2>6, <2>7, <3>1, <3>2 DEF Calm, Expecting, Awaited, Quiet
    <3> QED
      BY <1>3, <3>3, <3>6, <3>7 DEF DiscoveryInv
  <2>9. CASE disc' = Stopped(d)
    <3>1. Ended(disc') /\ disc'.state = "INACTIVE" /\ disc'.request = disc.request
      BY <2>4, <2>5, <2>9, TerminateEnds DEF Open
    <3>2. Told'
      BY <1>2, <3>1 DEF Told
    <3>3. Asked'
      BY <1>1, <1>2, <3>1 DEF DiscoveryInv, Asked
    <3>4. Calm' /\ Expecting'
      BY <1>1, <2>6, <2>7, <3>1 DEF Calm, Expecting, Awaited, Quiet
    <3> QED
      BY <1>3, <3>2, <3>3, <3>4 DEF DiscoveryInv
  <2> QED
    BY <2>2, <2>8, <2>9
<1> QED
  BY <1>4, <1>5

LEMMA TerminateKeeps ==
  ASSUME "terminate" \notin Trouble, DiscoveryInv, Terminate
  PROVE  DiscoveryInv'
<1>1. /\ pc = "idle" /\ isActive(disc) /\ disc' = Stopped(disc)
      /\ disc.state \in Reading /\ UNCHANGED <<pc, events, link, launches>>
  BY DEF Terminate, Reading
<1>2. Rest' = Rest /\ \A kind : IsAhead(kind)' = IsAhead(kind)
  BY <1>1 DEF Rest, IsAhead
<1>3. Open(disc) /\ launches > 0
  BY <1>1, Known
<1>4. Ended(disc') /\ disc'.state = "INACTIVE" /\ disc'.request = disc.request
  BY <1>1, <1>3, TerminateEnds DEF Open
<1>5. Told'
  BY <1>1, <1>3, <1>4 DEF DiscoveryInv, Told
<1>6. Asked' /\ Queued'
  BY <1>1, <1>2, <1>4 DEF DiscoveryInv, Asked, Queued
<1>7. ~Awaited("services") /\ ~Awaited("characteristics")
  BY <1>1 DEF DiscoveryInv, Expecting, Reading
<1>8. Calm' /\ Expecting'
  BY <1>1, <1>2, <1>4, <1>7 DEF Calm, Expecting, Awaited, Quiet
<1> QED
  BY <1>5, <1>6, <1>8 DEF DiscoveryInv

\* An event of the SoftDevice joins those ahead, behind them all.
LEMMA Joined ==
  ASSUME DiscoveryInv, NEW e, events' = Append(events, e), pc' = pc, link' => link,
         e.kind \in Kinds, e.kind = "disconnected" => ~link',
         \A k \in Rest : Rank(events[k].kind) < Rank(e.kind),
         pc # "idle" => link
  PROVE  /\ Queued'
         /\ \A k \in Rest' : k \in Rest \/ k = Len(events) + 1
         /\ \A k \in Rest : k \in Rest' /\ events'[k] = events[k]
         /\ events'[Len(events) + 1] = e
         /\ \A kind : IsAhead(kind)' => IsAhead(kind) \/ kind = e.kind
         /\ pc # "idle" => Head(events') = Head(events)
<1>1. PICK S : events \in Seq(S)
  BY DEF DiscoveryInv, Queued, Sequence
<1>2. events \in Seq(S \cup {e})
  BY <1>1
<1>3. /\ events' \in Seq(S \cup {e}) /\ Len(events) \in Nat
      /\ Len(events') = Len(events) + 1 /\ events' # <<>>
      /\ \A k \in 1 .. Len(events) : events'[k] = events[k]
      /\ events'[Len(events) + 1] = e
  BY <1>2
<1>4. events # <<>> => Len(events) > 0 /\ Head(events) = events[1] /\ Head(events') = events'[1]
  BY <1>2, <1>3
<1>5. pc # "idle" => Len(events) > 0 /\ Head(events') = Head(events) /\ Head(events) = events[1]
  BY <1>3, <1>4 DEF DiscoveryInv, Queued
<1>6. /\ \A k \in Rest' : k \in Rest \/ k = Len(events) + 1
      /\ \A k \in Rest : k \in Rest' /\ k \in 1 .. Len(events) /\ k < Len(events) + 1
      /\ \A k \in Rest' : ~(Len(events) + 1 < k)
  BY <1>3 DEF Rest
<1>7. \A k \in Rest : events'[k] = events[k]
  BY <1>3, <1>6
<1>8. \A kind : IsAhead(kind)' => IsAhead(kind) \/ kind = e.kind
  BY <1>3, <1>6, <1>7 DEF IsAhead
<1>9. Queued'
  <2>1. Sequence(events)'
    BY <1>3 DEF Sequence
  <2>2. \A k \in 1 .. Len(events') :
          events'[k].kind \in Kinds /\ (events'[k].kind = "disconnected" => ~link')
    <3>1. \A k \in 1 .. Len(events') : k \in 1 .. Len(events) \/ k = Len(events) + 1
      BY <1>3
    <3> QED
      BY <1>3, <3>1 DEF DiscoveryInv, Queued
  <2>3. \A j, k \in Rest' : j < k => Rank(events'[j].kind) < Rank(events'[k].kind)
    <3> SUFFICES ASSUME NEW j \in Rest', NEW k \in Rest', j < k
                 PROVE  Rank(events'[j].kind) < Rank(events'[k].kind)
      OBVIOUS
    <3>1. j # Len(events) + 1
      BY <1>6
    <3>2. j \in Rest
      BY <1>6, <3>1
    <3>3. CASE k \in Rest
      BY <1>7, <3>2, <3>3 DEF DiscoveryInv, Queued
    <3>4. CASE k = Len(events) + 1
      BY <1>3, <1>7, <3>2, <3>4
    <3> QED
      BY <1>6, <3>3, <3>4
  <2>4. pc # "idle" => Head(events').kind # "disconnected"
    <3>1. pc # "idle" => 1 \in 1 .. Len(events)
      BY <1>3, <1>5
    <3> QED
      BY <1>5, <3>1 DEF DiscoveryInv, Queued
  <2>5. pc \in {"idle", "progressCharacteristicDiscovery", "characteristics",
                "moreCharacteristics", "progressServiceDiscovery"}
    BY DEF DiscoveryInv, Queued
  <2> QED
    BY <1>3, <2>1, <2>2, <2>3, <2>4, <2>5 DEF Queued
<1> QED
  BY <1>3, <1>5, <1>6, <1>7, <1>8, <1>9

LEMMA PeerAnswersKeeps ==
  ASSUME DiscoveryInv, PeerAnswers \/ PeerRefuses
  PROVE  DiscoveryInv'
<1>1. /\ disc.request # NoRequest
      /\ \/ disc' = [disc EXCEPT !.request = NoRequest]
         \/ disc' = [disc EXCEPT !.request = NoRequest, !.cut = TRUE]
      /\ UNCHANGED <<pc, link, launches>>
  BY DEF PeerAnswers, PeerRefuses, NoRequest
<1>2. /\ disc.request.kind \in {"services", "characteristics", "uuid"} /\ link
      /\ \A k \in Rest : Rank(events[k].kind) < Rank(disc.request.kind)
  BY <1>1 DEF DiscoveryInv, Asked
<1>3. PICK e : events' = Append(events, e) /\ e.kind = disc.request.kind
  <2>1. CASE PeerAnswers
    <3>1. PICK e \in Answers(disc.request) : events' = Append(events, e)
      BY <2>1 DEF PeerAnswers
    <3>2. CASE disc.request.kind = "uuid"
      <4>1. \E of, handle, ok, uuid : e = [kind |-> "uuid", of |-> of, handle |-> handle,
                                           ok |-> ok, uuid |-> uuid]
        BY <3>2 DEF Answers
      <4> QED
        BY <3>1, <3>2, <4>1
    <3>3. CASE disc.request.kind \in {"services", "characteristics"}
      <4>1. \E list : e \in Found(disc.request.kind, list)
        BY <3>3 DEF Answers
      <4> QED
        BY <3>1, <4>1 DEF Found
    <3> QED
      BY <1>2, <3>2, <3>3
  <2>2. CASE PeerRefuses
    BY <2>2 DEF PeerRefuses
  <2> QED
    BY <2>1, <2>2
<1>4. IsDisc(disc)
  BY Known
<1>5. /\ disc' = [n \in Fields |-> disc'[n]] /\ disc'.told = disc.told
      /\ disc'.state = disc.state /\ disc'.request = NoRequest
      /\ disc'.numServices = disc.numServices /\ disc'.serviceIndex = disc.serviceIndex
  BY <1>1, <1>4 DEF IsDisc, Fields
<1>6. /\ Queued'
      /\ \A kind : IsAhead(kind)' => IsAhead(kind) \/ kind = e.kind
      /\ pc # "idle" => Head(events') = Head(events)
  BY <1>1, <1>2, <1>3, Joined DEF Kinds
<1>7. Told'
  BY <1>1, <1>5 DEF DiscoveryInv, Told, Open, Ended, Fresh, IsDisc, isActive
<1>8. Asked'
  BY <1>5 DEF Asked
<1>9. \A kind : kind # "none" /\ Awaited(kind)' => Awaited(kind)
  BY <1>3, <1>5, <1>6 DEF Awaited, NoRequest
<1>10. pc \notin {"characteristics", "moreCharacteristics"}
  BY <1>1 DEF DiscoveryInv, Expecting
<1>11. Expecting'
  <2>1. NothingToDo(disc)' = NothingToDo(disc)
    BY <1>5 DEF NothingToDo
  <2> QED
    BY <1>1, <1>5, <1>9, <1>10, <2>1 DEF DiscoveryInv, Expecting
<1>12. Calm'
  <2>1. NothingToDo(disc)' = NothingToDo(disc) /\ Quiet(disc)' = Quiet(disc)
    BY <1>5 DEF NothingToDo, Quiet
  <2>2. disc.request.kind = "uuid" => Quiet(disc)
    BY DEF DiscoveryInv, Calm, Quiet
  <2>3. IsAhead("other")' => IsAhead("other")
    BY <1>2, <1>3, <1>6
  <2>4. IsAhead("uuid")' => IsAhead("uuid") \/ disc.request.kind = "uuid"
    BY <1>3, <1>6
  <2> QED
    BY <1>1, <1>5, <1>6, <2>1, <2>2, <2>3, <2>4 DEF DiscoveryInv, Calm, NoRequest
<1> QED
  BY <1>6, <1>7, <1>8, <1>11, <1>12 DEF DiscoveryInv

LEMMA OtherEventKeeps ==
  ASSUME "event" \notin Trouble, DiscoveryInv, OtherEvent
  PROVE  DiscoveryInv'
<1>1. /\ link /\ events = <<>> /\ ~Discovering /\ events' = <<Event("other")>>
      /\ UNCHANGED <<disc, pc, link, launches>> /\ pc = "idle"
  BY DEF OtherEvent, DiscoveryInv, Queued
<1>2. events' = Append(events, Event("other")) /\ Rest = {} /\ Event("other").kind = "other"
  BY <1>1 DEF Rest, Event
<1>3. /\ Queued'
      /\ \A k \in Rest' : k = Len(events) + 1
      /\ events'[Len(events) + 1] = Event("other")
      /\ \A kind : IsAhead(kind)' => IsAhead(kind) \/ kind = "other"
  BY <1>1, <1>2, Joined DEF Kinds
<1>4. Told'
  BY <1>1 DEF DiscoveryInv, Told
<1>5. Asked'
  <2>1. disc.request.kind \in {"services", "characteristics", "uuid"} =>
          Rank("other") < Rank(disc.request.kind)
    BY DEF Rank
  <2> QED
    BY <1>1, <1>2, <1>3, <2>1 DEF DiscoveryInv, Asked
<1>6. Calm'
  BY <1>1 DEF DiscoveryInv, Calm, Quiet, Discovering
<1>7. \A kind : kind # "other" /\ Awaited(kind)' => Awaited(kind)
  BY <1>1, <1>3 DEF Awaited
<1>8. Expecting'
  BY <1>1, <1>7 DEF DiscoveryInv, Expecting
<1> QED
  BY <1>3, <1>4, <1>5, <1>6, <1>8 DEF DiscoveryInv

LEMMA LinkLostKeeps ==
  ASSUME DiscoveryInv, LinkLost
  PROVE  DiscoveryInv'
<1>1. /\ link /\ ~link' /\ events' = Append(events, Event("disconnected"))
      /\ disc' = [disc EXCEPT !.request = NoRequest, !.cut = TRUE]
      /\ UNCHANGED <<pc, launches>> /\ Event("disconnected").kind = "disconnected"
  BY DEF LinkLost, Event
<1>2. IsDisc(disc)
  BY Known
<1>3. /\ disc' = [n \in Fields |-> disc'[n]] /\ disc'.told = disc.told
      /\ disc'.state = disc.state /\ disc'.request = NoRequest
      /\ disc'.numServices = disc.numServices /\ disc'.serviceIndex = disc.serviceIndex
  BY <1>1, <1>2 DEF IsDisc, Fields
<1>4. \A k \in Rest : Rank(events[k].kind) < Rank("disconnected")
  <2>1. \A k \in Rest : k \in 1 .. Len(events)
    BY Known DEF Rest
  <2>2. \A k \in Rest : events[k].kind \in Kinds \ {"disconnected"}
    BY <1>1, <2>1 DEF DiscoveryInv, Queued
  <2> QED
    BY <2>2 DEF Kinds, Rank
<1>5. /\ Queued'
      /\ \A k \in Rest' : k \in Rest \/ k = Len(events) + 1
      /\ \A k \in Rest : events'[k] = events[k]
      /\ events'[Len(events) + 1] = Event("disconnected")
      /\ \A kind : IsAhead(kind)' => IsAhead(kind) \/ kind = "disconnected"
      /\ pc # "idle" => Head(events') = Head(events)
  BY <1>1, <1>4, Joined DEF Kinds
<1>6. Told'
  BY <1>1, <1>3 DEF DiscoveryInv, Told, Open, Ended, Fresh, IsDisc, isActive
<1>7. Asked'
  BY <1>3 DEF Asked
<1>8. NothingToDo(disc)' = NothingToDo(disc) /\ Quiet(disc)' = Quiet(disc)
  BY <1>3 DEF NothingToDo, Quiet
<1>9. Calm'
  BY <1>1, <1>3, <1>5, <1>8 DEF DiscoveryInv, Calm, NoRequest
<1>10. \A kind : kind \notin {"none", "disconnected"} /\ Awaited(kind)' => Awaited(kind)
  BY <1>3, <1>5 DEF Awaited, NoRequest
<1>11. Expecting'
  BY <1>1, <1>3, <1>5, <1>8, <1>10 DEF DiscoveryInv, Expecting
<1> QED
  BY <1>5, <1>6, <1>7, <1>9, <1>11 DEF DiscoveryInv

LEMMA ConnectKeeps ==
  ASSUME DiscoveryInv, Connect
  PROVE  DiscoveryInv'
<1>1. events = <<>> /\ link' /\ ~link /\ UNCHANGED <<disc, pc, events, launches>> /\ pc = "idle"
  BY DEF Connect, DiscoveryInv, Queued
<1>2. Rest' = Rest /\ Rest = {}
  BY <1>1 DEF Rest
<1>3. Told' /\ Asked' /\ Queued'
  BY <1>1, <1>2 DEF DiscoveryInv, Told, Asked, Queued
<1>4. Calm' /\ Expecting'
  BY <1>1, <1>2 DEF DiscoveryInv, Calm, Expecting, IsAhead, Awaited
<1> QED
  BY <1>3, <1>4 DEF DiscoveryInv

-----------------------------------------------------------------------------

LEMMA InitDiscoveryInv == Init => DiscoveryInv
<1> SUFFICES ASSUME Init PROVE DiscoveryInv
  OBVIOUS
<1>1. disc = Discovery /\ pc = "idle" /\ events = <<>> /\ launches = 0
  BY DEF Init
<1>2. <<>> \in Seq({End})
  OBVIOUS
<1>3. /\ disc = [n \in Fields |-> disc[n]] /\ disc.told = <<>> /\ disc.request = NoRequest
      /\ disc.state = "INACTIVE"
  BY <1>1 DEF Discovery, Fields
<1>4. Told
  BY <1>1, <1>2, <1>3 DEF Told, Fresh, IsDisc, Sequence, isActive
<1>5. Rest = {}
  BY <1>1 DEF Rest
<1>6. Asked /\ Queued
  BY <1>1, <1>2, <1>3, <1>5 DEF Asked, Queued, Sequence
<1>7. Calm /\ Expecting
  BY <1>1, <1>3, <1>5 DEF Calm, Expecting, IsAhead, Awaited, NoRequest
<1> QED
  BY <1>4, <1>6, <1>7 DEF DiscoveryInv

LEMMA DiscoveryInvIsEndsOnce == DiscoveryInv => EndsOnce
<1> SUFFICES ASSUME DiscoveryInv PROVE EndsOnce
  OBVIOUS
<1>1. Sequence(disc.told)
  BY Known DEF IsDisc
<1>2. PICK S : disc.told \in Seq(S)
  BY <1>1 DEF Sequence
<1>3. Len(disc.told) \in Nat /\ (disc.told # <<>> <=> Len(disc.told) > 0)
  BY <1>2
<1>4. Last(disc.told) = disc.told[Len(disc.told)]
  BY DEF Last
<1>5. CASE Fresh(disc) /\ launches = 0
  BY <1>3, <1>5 DEF Fresh, EndsOnce
<1>6. CASE Open(disc)
  <2>1. \A k \in 1 .. Len(disc.told) : disc.told[k] # End
    BY <1>6 DEF Open, Silent
  <2>2. disc.told # <<>> => disc.told[Len(disc.told)] # End
    BY <1>3, <2>1
  <2>3. \A k \in 1 .. Len(disc.told) - 1 : k \in 1 .. Len(disc.told)
    BY <1>3
  <2> HIDE DEF End
  <2> QED
    BY <1>4, <1>6, <2>1, <2>2, <2>3 DEF Open, EndsOnce, isActive
<1>7. CASE Ended(disc)
  <2>1. /\ ~isActive(disc) /\ disc.told # <<>> /\ disc.told[Len(disc.told)] = End
        /\ \A k \in 1 .. Len(disc.told) - 1 : disc.told[k] # End
    BY <1>3, <1>7 DEF Ended, Ends
  <2> HIDE DEF End
  <2> QED
    BY <1>4, <2>1 DEF EndsOnce, isActive
<1> QED
  BY <1>5, <1>6, <1>7 DEF DiscoveryInv, Told

LEMMA StepKeeps ==
  ASSUME Trouble \subseteq {"uuid"}, DiscoveryInv, [Next]_vars
  PROVE  DiscoveryInv'
<1>1. "last" \notin Trouble /\ "terminate" \notin Trouble /\ "event" \notin Trouble
  OBVIOUS
<1>2. CASE Handler
  BY <1>1, <1>2, EventHandlerKeeps, FirstCharacteristicKeeps, NextCharacteristicKeeps,
     NoCharacteristicsKeeps, MoreCharacteristicsKeeps, NextServiceKeeps, MoreServicesKeeps
     DEF Handler
<1>3. CASE Launch \/ Terminate
  BY <1>1, <1>3, LaunchKeeps, TerminateKeeps
<1>4. CASE PeerAnswers \/ PeerRefuses \/ OtherEvent \/ LinkLost \/ Connect
  BY <1>1, <1>4, PeerAnswersKeeps, OtherEventKeeps, LinkLostKeeps, ConnectKeeps
<1>5. CASE UNCHANGED vars
  <2>1. Rest' = Rest
    BY <1>5 DEF vars, Rest
  <2>2. Told' /\ Asked' /\ Queued'
    BY <1>5, <2>1 DEF vars, DiscoveryInv, Told, Asked, Queued
  <2>3. Calm' /\ Expecting'
    BY <1>5, <2>1 DEF vars, DiscoveryInv, Calm, Expecting, IsAhead, Awaited
  <2> QED
    BY <2>2, <2>3 DEF DiscoveryInv
<1> QED
  BY <1>2, <1>3, <1>4, <1>5 DEF Next

\* For every peer and every size of the caches: the application is told the end of
\* a discovery once and nothing behind it, provided it does not call terminate() in
\* the callback of a service's last characteristic, nor outside the callbacks while
\* anything but a UUID is awaited (progressServiceDiscovery,
\* terminateServiceDiscovery and the event handler that calls them).
THEOREM DiscoveryEndsOnce ==
  ASSUME Trouble \subseteq {"uuid"}
  PROVE  Spec => []EndsOnce
<1>1. DiscoveryInv /\ [Next]_vars => DiscoveryInv'
  BY StepKeeps
<1> QED
  BY <1>1, InitDiscoveryInv, DiscoveryInvIsEndsOnce, PTL DEF Spec

-----------------------------------------------------------------------------
(***************************************************************************)
(* A UUID that is awaited is the one of the index at the head of the queue *)
(* of the state; characteristics are those of a service in the cache.      *)
(***************************************************************************)
MeetsIndex(d, handle) ==
  /\ d.state = "DISCOVER_SERVICE_UUIDS" =>
       /\ d.serviceUUIDDiscoveryQueue # <<>>
       /\ d.services[Head(d.serviceUUIDDiscoveryQueue)].handle = handle
  /\ d.state = "DISCOVER_CHARACTERISTIC_UUIDS" =>
       /\ d.charUUIDDiscoveryQueue # <<>>
       /\ d.characteristics[Head(d.charUUIDDiscoveryQueue)].handle = handle

OfService == {"CHARACTERISTIC_DISCOVERY_ACTIVE", "DISCOVER_CHARACTERISTIC_UUIDS"}
InCache(d) == d.state \in OfService => d.serviceIndex < d.numServices
AsksRight(d) == d.request.kind = "uuid" => MeetsIndex(d, d.request.handle)

IndexInv ==
  /\ AsksRight(disc)
  /\ \A k \in Rest : events[k].kind = "uuid" => MeetsIndex(disc, events[k].handle)
  /\ InCache(disc)

\* The indices stay.
SamePlace(d, x) == x.serviceIndex = d.serviceIndex /\ x.numServices = d.numServices

LEMMA CallbackStays ==
  ASSUME NEW d, Open(d), NEW r, NEW c, NEW mayStop \in BOOLEAN,
         NEW x, x \in Callback(d, r, mayStop) \/ x \in CharacteristicCallback(d, c, mayStop)
  PROVE  SamePlace(d, x)
<1>1. ASSUME NEW q, x \in Callback(d, q, mayStop)
      PROVE  SamePlace(d, x)
  <2> DEFINE t == [d EXCEPT !.told = Append(@, q)]
  <2>1. t = [n \in Fields |-> t[n]] /\ SamePlace(d, t)
    BY DEF Open, IsDisc, Fields, SamePlace
  <2>2. x = t \/ x = Stopped(t)
    BY <1>1 DEF Callback
  <2> HIDE DEF t
  <2>3. SamePlace(t, Stopped(t))
    BY <2>1 DEF Stopped, terminateServiceDiscovery, SamePlace, Fields
  <2> QED
    BY <2>1, <2>2, <2>3 DEF SamePlace
<1>2. x \in CharacteristicCallback(d, c, mayStop) =>
        x = d \/ x \in Callback(d, Characteristic(c), mayStop)
  BY DEF CharacteristicCallback
<1> QED
  BY <1>1, <1>2 DEF SamePlace

LEMMA TriggerAsksRight ==
  ASSUME NEW d, IsDisc(d), d.request = NoRequest,
         NEW x, \/ x = triggerFirstService(d) /\ d.state \notin OfService
                \/ x = triggerFirstChar(d)
  PROVE  /\ AsksRight(x) /\ SamePlace(d, x)
         /\ x.state \in OfService => d.state \in OfService
              \/ (x = triggerFirstChar(d) /\ d.charUUIDDiscoveryQueue # <<>>)
<1>1. CASE x = triggerFirstService(d) /\ d.state \notin OfService
  <2>1. SamePlace(d, x) /\ x.state \notin OfService
    BY <1>1 DEF triggerFirstService, IsDisc, Fields, SamePlace, OfService
  <2>2. AsksRight(x)
    BY <1>1 DEF triggerFirstService, IsDisc, Fields, AsksRight, MeetsIndex, ReadUUID, NoRequest
  <2> QED
    BY <2>1, <2>2
<1>2. CASE x = triggerFirstChar(d)
  <2>1. /\ SamePlace(d, x)
        /\ x.state \in OfService => d.state \in OfService \/ d.charUUIDDiscoveryQueue # <<>>
    BY <1>2 DEF triggerFirstChar, IsDisc, Fields, SamePlace, OfService
  <2>2. AsksRight(x)
    BY <1>2 DEF triggerFirstChar, IsDisc, Fields, AsksRight, MeetsIndex, ReadUUID, NoRequest
  <2> QED
    BY <1>2, <2>1, <2>2
<1> QED
  BY <1>1, <1>2

\* Services, characteristics and UUIDs are taken over for the state they were asked in.
LEMMA SetupAsksRight ==
  ASSUME NEW d, IsDisc(d), d.request = NoRequest, InCache(d), NEW found,
         NEW x, \/ /\ x = setupDiscoveredServices(d, found)
                   /\ d.state = "SERVICE_DISCOVERY_ACTIVE"
                \/ /\ x = setupDiscoveredCharacteristics(d, found)
                   /\ d.state = "CHARACTERISTIC_DISCOVERY_ACTIVE"
  PROVE  AsksRight(x) /\ InCache(x)
<1>1. CASE x = setupDiscoveredServices(d, found) /\ d.state = "SERVICE_DISCOVERY_ACTIVE"
  <2>1. PICK n, s, q : x = triggerFirstService(
                             [d EXCEPT !.serviceIndex = 0, !.numServices = n, !.services = s,
                                       !.serviceUUIDDiscoveryQueue = q])
    BY <1>1 DEF setupDiscoveredServices
  <2> DEFINE t == [d EXCEPT !.serviceIndex = 0, !.numServices = n, !.services = s,
                            !.serviceUUIDDiscoveryQueue = q]
  <2>2. /\ t = [f \in Fields |-> t[f]] /\ t.request = NoRequest /\ t.told = d.told
        /\ t.state = "SERVICE_DISCOVERY_ACTIVE"
    BY <1>1 DEF IsDisc, Fields
  <2>3. x = triggerFirstService(t)
    BY <2>1
  <2> HIDE DEF t
  <2>4. IsDisc(t) /\ t.state \notin OfService
    BY <2>2 DEF IsDisc, OfService
  <2>5. AsksRight(x)
    BY <2>2, <2>3, <2>4, TriggerAsksRight
  <2>6. x.state \notin OfService
    BY <2>2, <2>3, <2>4 DEF triggerFirstService, IsDisc, Fields, OfService
  <2> QED
    BY <2>5, <2>6 DEF InCache
<1>2. CASE /\ x = setupDiscoveredCharacteristics(d, found)
           /\ d.state = "CHARACTERISTIC_DISCOVERY_ACTIVE"
  <2>1. PICK n, c, q : x = triggerFirstChar(
                             [d EXCEPT !.numCharacteristics = n, !.characteristics = c,
                                       !.charUUIDDiscoveryQueue = q])
    BY <1>2 DEF setupDiscoveredCharacteristics
  <2> DEFINE t == [d EXCEPT !.numCharacteristics = n, !.characteristics = c,
                            !.charUUIDDiscoveryQueue = q]
  <2>2. /\ t = [f \in Fields |-> t[f]] /\ t.request = NoRequest /\ t.told = d.told
        /\ SamePlace(d, t)
    BY DEF IsDisc, Fields, SamePlace
  <2>3. x = triggerFirstChar(t)
    BY <2>1
  <2> HIDE DEF t
  <2>4. IsDisc(t)
    BY <2>2 DEF IsDisc
  <2>5. AsksRight(x) /\ SamePlace(t, x)
    BY <2>2, <2>3, <2>4, TriggerAsksRight
  <2> QED
    BY <1>2, <2>2, <2>5 DEF InCache, SamePlace, OfService
<1> QED
  BY <1>1, <1>2

LEMMA UUIDAsksRight ==
  ASSUME NEW d, IsDisc(d), d.request = NoRequest \/ d.request.kind # "uuid", InCache(d),
         d.state \in Reading => d.request = NoRequest, NEW e
  PROVE  LET x == processDiscoverUUIDResponse(d, e) IN AsksRight(x) /\ InCache(x)
<1> DEFINE x == processDiscoverUUIDResponse(d, e)
<1> SUFFICES AsksRight(x) /\ InCache(x)
  OBVIOUS
<1>1. CASE d.state = "DISCOVER_SERVICE_UUIDS"
  <2> DEFINE n == [d EXCEPT !.serviceUUIDDiscoveryQueue = Tail(@)]
             r == [n EXCEPT !.services[Head(d.serviceUUIDDiscoveryQueue)].uuid = e.uuid]
  <2>1. x = n \/ x = triggerFirstService(r)
    BY <1>1 DEF processDiscoverUUIDResponse
  <2>2. /\ n = [f \in Fields |-> n[f]] /\ n.told = d.told /\ n.state = d.state
        /\ n.request = d.request
    BY DEF IsDisc, Fields
  <2>3. /\ r = [f \in Fields |-> r[f]] /\ r.told = d.told /\ r.state = d.state
        /\ r.request = d.request
    BY DEF IsDisc, Fields
  <2> HIDE DEF x, n, r
  <2>4. d.request = NoRequest /\ d.state \notin OfService
    BY <1>1 DEF Reading, OfService
  <2>5. CASE x = n
    BY <2>2, <2>4, <2>5 DEF AsksRight, InCache, NoRequest
  <2>6. CASE x = triggerFirstService(r)
    <3>1. IsDisc(r)
      BY <2>3 DEF IsDisc
    <3>2. AsksRight(x)
      BY <2>3, <2>4, <2>6, <3>1, TriggerAsksRight
    <3>3. x.state \notin OfService
      BY <2>3, <2>4, <2>6, <3>1 DEF triggerFirstService, IsDisc, Fields, OfService
    <3> QED
      BY <3>2, <3>3 DEF InCache
  <2> QED
    BY <2>1, <2>5, <2>6
<1>2. CASE d.state = "DISCOVER_CHARACTERISTIC_UUIDS"
  <2> DEFINE n == [d EXCEPT !.charUUIDDiscoveryQueue = Tail(@)]
             r == [n EXCEPT !.characteristics[Head(d.charUUIDDiscoveryQueue)].uuid = e.uuid]
  <2>1. x = n \/ x = triggerFirstChar(r)
    BY <1>2 DEF processDiscoverUUIDResponse
  <2>2. /\ n = [f \in Fields |-> n[f]] /\ n.told = d.told /\ n.state = d.state
        /\ n.request = d.request /\ SamePlace(d, n)
    BY DEF IsDisc, Fields, SamePlace
  <2>3. /\ r = [f \in Fields |-> r[f]] /\ r.told = d.told /\ r.state = d.state
        /\ r.request = d.request /\ SamePlace(d, r)
    BY DEF IsDisc, Fields, SamePlace
  <2> HIDE DEF x, n, r
  <2>4. d.request = NoRequest /\ d.serviceIndex < d.numServices
    BY <1>2 DEF Reading, InCache, OfService
  <2>5. CASE x = n
    BY <2>2, <2>4, <2>5 DEF AsksRight, InCache, NoRequest, SamePlace
  <2>6. CASE x = triggerFirstChar(r)
    <3>1. IsDisc(r)
      BY <2>3 DEF IsDisc
    <3>2. AsksRight(x) /\ SamePlace(r, x)
      BY <2>3, <2>4, <2>6, <3>1, TriggerAsksRight
    <3> QED
      BY <2>3, <2>4, <3>2 DEF InCache, SamePlace
  <2> QED
    BY <2>1, <2>5, <2>6
<1>3. CASE d.state \notin Reading
  <2>1. x = d
    BY <1>3 DEF processDiscoverUUIDResponse, Reading
  <2>2. AsksRight(d)
    BY DEF AsksRight, NoRequest
  <2> QED
    BY <2>1, <2>2
<1> QED
  BY <1>1, <1>2, <1>3 DEF Reading

\* The end of a service: the discovery of services goes on, with the next.
LEMMA ServiceEnds ==
  ASSUME NEW d, Open(d), d.state = "CHARACTERISTIC_DISCOVERY_ACTIVE", "last" \notin Trouble,
         NEW complete, NEW x \in terminateCharacteristicDiscovery(d, complete)
  PROVE  x.state = "SERVICE_DISCOVERY_ACTIVE" /\ x.request = d.request
BY ServiceGoesOn

-----------------------------------------------------------------------------

\* No UUID is awaited behind a step, and the place is kept.
LEMMA NoneAwaited ==
  ASSUME InCache(disc)', disc'.request.kind # "uuid",
         \A k \in Rest' : events'[k].kind # "uuid"
  PROVE  IndexInv'
BY DEF IndexInv, AsksRight

\* Nothing is asked for anew.
LEMMA StillAwaited ==
  ASSUME IndexInv, disc' = disc, \A k \in Rest' : \E j \in Rest : events'[k] = events[j]
  PROVE  IndexInv'
BY DEF IndexInv

LEMMA EventHandlerIndex ==
  ASSUME "last" \notin Trouble, DiscoveryInv, IndexInv, bleGattcEventHandler
  PROVE  IndexInv'
<1> DEFINE e == Head(events)
<1>1. disc' \in Handled(disc, e)
  BY DEF bleGattcEventHandler
<1>2. e.kind \in Kinds /\ IsDisc(disc) /\ InCache(disc) /\ events' = events
  BY Taken, Known DEF IndexInv
<1>3. \A k \in Rest' : k \in Rest
  BY Taken
<1> HIDE DEF e
<1>4. ASSUME disc' = disc
      PROVE  IndexInv'
  BY <1>2, <1>3, <1>4, StillAwaited
<1>5. ASSUME e.kind \in {"uuid", "services", "characteristics"}, AsksRight(disc)', InCache(disc)'
      PROVE  IndexInv'
  <2>1. \A k \in Rest' : Rank(events'[k].kind) > 2
    <3>1. \A k \in Rest' : Rank(e.kind) < Rank(events[k].kind)
      BY Taken DEF e
    <3>2. Rank(e.kind) \in {2, 3} /\ \A k \in Rest' : events[k].kind \in Kinds
      BY <1>5, Taken DEF Rank, DiscoveryInv, Queued
    <3>3. \A k \in Rest' : Rank(events[k].kind) \in 1 .. 4
      BY <3>2 DEF Rank, Kinds
    <3> QED
      BY <1>2, <3>1, <3>2, <3>3
  <2>2. \A k \in Rest' : events'[k].kind # "uuid"
    BY <2>1 DEF Rank
  <2> QED
    BY <1>5, <2>2 DEF IndexInv
<1>6. CASE e.kind \in {"services", "characteristics"}
  <2>1. disc.request = NoRequest
    <3>1. disc.request # NoRequest => Rank(e.kind) < Rank(disc.request.kind)
      BY Taken DEF e
    <3>2. disc.request # NoRequest => Rank(disc.request.kind) \in {2, 3}
      BY DEF DiscoveryInv, Asked, Rank
    <3>3. Rank(e.kind) = 3
      BY <1>6 DEF Rank
    <3> QED
      BY <3>1, <3>2, <3>3
  <2>2. /\ e.kind = "services" => disc.state = "SERVICE_DISCOVERY_ACTIVE"
        /\ e.kind = "characteristics" => disc.state = "CHARACTERISTIC_DISCOVERY_ACTIVE"
    BY Taken DEF DiscoveryInv, Expecting, Awaited, e
  <2>3. CASE e.ok
    <3>1. \/ e.kind = "services" /\ disc' = setupDiscoveredServices(disc, e.found)
          \/ e.kind = "characteristics" /\ disc' = setupDiscoveredCharacteristics(disc, e.found)
      BY <1>1, <1>6, <2>3 DEF Handled
    <3>2. AsksRight(disc)' /\ InCache(disc)'
      BY <1>2, <2>1, <2>2, <3>1, SetupAsksRight
    <3> QED
      BY <1>5, <1>6, <3>2
  <2>4. CASE ~e.ok
    <3>1. disc'.request = NoRequest /\ disc'.state \notin OfService
      <4>1. CASE e.kind = "services"
        <5>1. disc' = terminateServiceDiscovery(disc)
          BY <1>1, <2>4, <4>1 DEF Handled
        <5> QED
          BY <1>2, <2>1, <5>1, TerminateEnds DEF OfService
      <4>2. CASE e.kind = "characteristics"
        <5>1. disc' \in terminateCharacteristicDiscovery(disc, TRUE)
          BY <1>1, <2>4, <4>2 DEF Handled
        <5>2. Open(disc)
          BY <2>2, <4>2, Known DEF isActive
        <5> QED
          BY <2>1, <2>2, <4>2, <5>1, <5>2, ServiceEnds DEF OfService
      <4> QED
        BY <1>6, <4>1, <4>2
    <3>2. AsksRight(disc)' /\ InCache(disc)'
      BY <3>1 DEF AsksRight, InCache, NoRequest
    <3> QED
      BY <1>5, <1>6, <3>2
  <2> QED
    BY <2>3, <2>4
<1>7. CASE e.kind = "uuid"
  <2>1. disc' = disc \/ disc' = processDiscoverUUIDResponse(disc, e)
    BY <1>1, <1>7 DEF Handled
  <2>2. disc.request = NoRequest \/ disc.request.kind # "uuid"
    <3>1. disc.request # NoRequest => Rank(e.kind) < Rank(disc.request.kind)
      BY Taken DEF e
    <3> QED
      BY <1>7, <3>1 DEF Rank
  <2>3. disc.state \in Reading => disc.request = NoRequest
    BY <2>2 DEF DiscoveryInv, Asked, Expecting, Awaited, Reading
  <2>4. CASE disc' = processDiscoverUUIDResponse(disc, e)
    <3>1. AsksRight(disc)' /\ InCache(disc)'
      BY <1>2, <2>2, <2>3, <2>4, UUIDAsksRight
    <3> QED
      BY <1>5, <1>7, <3>1
  <2> QED
    BY <1>4, <2>1, <2>4
<1>8. CASE e.kind \in {"other", "disconnected"}
  BY <1>1, <1>4, <1>8 DEF Handled
<1> QED
  BY <1>2, <1>6, <1>7, <1>8 DEF Kinds

\* The steps of the handler between two callbacks.
LEMMA WalkIndex ==
  ASSUME "last" \notin Trouble, DiscoveryInv, IndexInv,
         \/ FirstCharacteristic \/ NextCharacteristic \/ NoCharacteristics
         \/ MoreCharacteristics \/ NextService
  PROVE  IndexInv'
<1>1. pc # "idle" /\ pc' # "idle" /\ events' = events
  BY DEF FirstCharacteristic, NextCharacteristic, NoCharacteristics, MoreCharacteristics,
         NextService, Goto
<1>2. Rest' = Rest
  BY <1>1 DEF Rest
<1>3. CASE disc' = disc
  BY <1>1, <1>2, <1>3, StillAwaited
<1>4. ASSUME disc.request = NoRequest, \A k \in Rest : events[k].kind = "disconnected",
             InCache(disc)', disc'.request.kind # "uuid"
      PROVE  IndexInv'
  BY <1>1, <1>2, <1>4, NoneAwaited
<1>5. InCache(disc)
  BY DEF IndexInv
<1>6. CASE FirstCharacteristic \/ NextCharacteristic
  <2>1. CASE ~Discovering
    BY <1>3, <1>6, <2>1 DEF FirstCharacteristic, NextCharacteristic
  <2>2. CASE Discovering
    <3>1. disc.request = NoRequest /\ \A k \in Rest : events[k].kind = "disconnected"
      BY <1>1, <1>6, <2>2, Undisturbed DEF FirstCharacteristic, NextCharacteristic
    <3>2. Open(disc)
      BY <2>2, Known DEF Discovering, isActive
    <3>3. PICK t, c : /\ t = [n \in Fields |-> t[n]] /\ t.state = disc.state
                      /\ t.request = disc.request /\ t.told = disc.told /\ SamePlace(disc, t)
                      /\ disc' = t \/ disc' \in CharacteristicCallback(t, c, TRUE)
      <4>1. CASE disc' = disc
        BY <3>2, <4>1 DEF Open, IsDisc, SamePlace
      <4>2. CASE \E c : disc' = [disc EXCEPT !.discoveredCharacteristic = c]
        <5>1. PICK c : disc' = [disc EXCEPT !.discoveredCharacteristic = c]
          BY <4>2
        <5>2. /\ disc' = [n \in Fields |-> disc'[n]] /\ disc'.state = disc.state
              /\ disc'.request = disc.request /\ disc'.told = disc.told /\ SamePlace(disc, disc')
          BY <3>2, <5>1 DEF Open, IsDisc, Fields, SamePlace
        <5> QED
          BY <5>2
      <4>3. CASE \E c : disc' \in CharacteristicCallback(
                                  [disc EXCEPT !.discoveredCharacteristic = c], c, TRUE)
        <5>1. PICK c : disc' \in CharacteristicCallback(
                                  [disc EXCEPT !.discoveredCharacteristic = c], c, TRUE)
          BY <4>3
        <5> DEFINE t == [disc EXCEPT !.discoveredCharacteristic = c]
        <5>2. /\ t = [n \in Fields |-> t[n]] /\ t.state = disc.state
              /\ t.request = disc.request /\ t.told = disc.told /\ SamePlace(disc, t)
          BY <3>2 DEF Open, IsDisc, Fields, SamePlace
        <5>3. disc' \in CharacteristicCallback(t, c, TRUE)
          BY <5>1
        <5> HIDE DEF t
        <5> QED
          BY <5>2, <5>3
      <4>4. CASE \E c : disc' \in CharacteristicCallback([disc EXCEPT !.characteristics[i] = c],
                                                        c, TRUE)
        <5>1. PICK c : disc' \in CharacteristicCallback([disc EXCEPT !.characteristics[i] = c],
                                                        c, TRUE)
          BY <4>4
        <5> DEFINE t == [disc EXCEPT !.characteristics[i] = c]
        <5>2. /\ t = [n \in Fields |-> t[n]] /\ t.state = disc.state
              /\ t.request = disc.request /\ t.told = disc.told /\ SamePlace(disc, t)
          BY <3>2 DEF Open, IsDisc, Fields, SamePlace
        <5>3. disc' \in CharacteristicCallback(t, c, TRUE)
          BY <5>1
        <5> HIDE DEF t
        <5> QED
          BY <5>2, <5>3
      <4> QED
        BY <1>6, <2>2, <4>1, <4>2, <4>3, <4>4 DEF FirstCharacteristic, NextCharacteristic
    <3>4. Open(t)
      BY <3>2, <3>3 DEF Open, IsDisc, isActive
    <3>5. SamePlace(t, disc') /\ disc'.request = t.request
          /\ (disc'.state = t.state \/ disc'.state = "INACTIVE")
      <4>1. CASE disc' = t
        BY <4>1 DEF SamePlace
      <4>2. CASE disc' \in CharacteristicCallback(t, c, TRUE)
        <5>1. SamePlace(t, disc')
          BY <3>4, <4>2, CallbackStays
        <5>2. Reported(t, disc')
          BY <3>4, <4>2, CharacteristicReports
        <5> QED
          BY <5>1, <5>2 DEF Reported
      <4> QED
        BY <3>3, <4>1, <4>2
    <3>6. InCache(disc)' /\ disc'.request.kind # "uuid"
      BY <1>5, <3>1, <3>3, <3>5 DEF InCache, SamePlace, OfService, NoRequest
    <3> QED
      BY <1>4, <3>1, <3>6
  <2> QED
    BY <2>1, <2>2
<1>7. CASE NoCharacteristics
  BY <1>3, <1>7 DEF NoCharacteristics
<1>8. CASE MoreCharacteristics
  <2>1. CASE ~Discovering
    BY <1>3, <1>8, <2>1 DEF MoreCharacteristics
  <2>2. CASE Discovering
    <3> DEFINE d == [disc EXCEPT !.numCharacteristics = 0]
    <3>1. disc.request = NoRequest /\ \A k \in Rest : events[k].kind = "disconnected"
      BY <1>1, <1>8, <2>2, Undisturbed DEF MoreCharacteristics
    <3>2. Open(disc)
      BY <2>2, Known DEF Discovering, isActive
    <3>3. /\ d = [n \in Fields |-> d[n]] /\ SamePlace(disc, d)
          /\ d.state = disc.state /\ d.request = disc.request /\ d.told = disc.told
      BY <3>2 DEF Open, IsDisc, Fields, SamePlace
    <3>4. \/ disc' \in terminateCharacteristicDiscovery(d, TRUE)
          \/ disc' \in terminateCharacteristicDiscovery(d, FALSE)
          \/ \E from, to : disc' = [d EXCEPT !.request = [kind |-> "characteristics",
                                                       from |-> from, to |-> to]]
      BY <1>8, <2>2 DEF MoreCharacteristics
    <3> HIDE DEF d
    <3>5. Open(d)
      BY <3>2, <3>3 DEF Open, IsDisc, isActive
    <3>6. CASE \/ disc' \in terminateCharacteristicDiscovery(d, TRUE)
               \/ disc' \in terminateCharacteristicDiscovery(d, FALSE)
      <4>1. disc'.state = "SERVICE_DISCOVERY_ACTIVE" /\ disc'.request = NoRequest
        BY <2>2, <3>1, <3>3, <3>5, <3>6, ServiceEnds DEF Discovering
      <4>2. InCache(disc)' /\ disc'.request.kind # "uuid"
        BY <4>1 DEF InCache, OfService, NoRequest
      <4> QED
        BY <1>4, <3>1, <4>2
    <3>7. CASE \E from, to : disc' = [d EXCEPT !.request = [kind |-> "characteristics",
                                                         from |-> from, to |-> to]]
      <4>1. PICK from, to : disc' = [d EXCEPT !.request = [kind |-> "characteristics",
                                                         from |-> from, to |-> to]]
        BY <3>7
      <4>2. disc'.request.kind = "characteristics" /\ SamePlace(d, disc') /\ disc'.state = d.state
        BY <3>3, <4>1 DEF Fields, SamePlace
      <4>3. InCache(disc)' /\ disc'.request.kind # "uuid"
        BY <1>5, <3>3, <4>2 DEF InCache, SamePlace
      <4> QED
        BY <1>4, <3>1, <4>3
    <3> QED
      BY <3>4, <3>6, <3>7
  <2> QED
    BY <2>1, <2>2
<1>9. CASE NextService
  <2>1. /\ disc.state = "SERVICE_DISCOVERY_ACTIVE" /\ ~NothingToDo(disc)
        /\ disc.serviceIndex < disc.numServices
    BY <1>9 DEF NextService, NothingToDo
  <2>2. disc.request = NoRequest /\ \A k \in Rest : events[k].kind = "disconnected"
    BY <1>1, <2>1, Undisturbed
  <2>3. Open(disc)
    BY <2>1, Known DEF isActive
  <2>4. PICK d, s : /\ d = disc \/ d \in Callback(disc, Service(s), TRUE)
                    /\ \/ disc' = [d EXCEPT !.serviceIndex = @ + 1]
                       \/ isActive(d) /\ disc' \in launchCharacteristicDiscovery(d)
    <3> DEFINE s == disc.services[disc.serviceIndex]
               reported == IF disc.filter.characteristic = ANY
                           THEN Callback(disc, Service(s), TRUE) ELSE {disc}
               Skip(d) == {[d EXCEPT !.serviceIndex = @ + 1]}
    <3>1. \/ disc' \in Skip(disc)
          \/ \E d \in reported : disc' \in IF isActive(d) /\ d.filter.wanted
                                         THEN launchCharacteristicDiscovery(d) ELSE Skip(d)
      BY <1>9 DEF NextService
    <3> HIDE DEF s
    <3>2. \A d \in reported : d = disc \/ d \in Callback(disc, Service(s), TRUE)
      OBVIOUS
    <3> HIDE DEF reported
    <3> QED
      BY <3>1, <3>2
  <2>5. Reported(disc, d) /\ SamePlace(disc, d)
    <3>1. Service(s) # End
      BY DEF Service, End
    <3>2. CASE d = disc
      BY <2>3, <3>2 DEF Reported, SamePlace
    <3>3. CASE d \in Callback(disc, Service(s), TRUE)
      BY <2>3, <3>1, <3>3, CallbackReports, CallbackStays
    <3> QED
      BY <2>4, <3>2, <3>3
  <2>6. CASE disc' = [d EXCEPT !.serviceIndex = @ + 1]
    <3>1. disc'.state = d.state /\ disc'.request = d.request
      BY <2>5, <2>6 DEF Reported, Open, Ended, IsDisc, Fields
    <3>2. InCache(disc)' /\ disc'.request.kind # "uuid"
      BY <2>1, <2>2, <2>5, <3>1 DEF InCache, OfService, Reported, NoRequest
    <3> QED
      BY <1>4, <2>2, <3>2
  <2>7. CASE isActive(d) /\ disc' \in launchCharacteristicDiscovery(d)
    <3>1. Open(d) /\ d.request = NoRequest /\ d.serviceIndex < d.numServices
      BY <2>1, <2>2, <2>5, <2>7 DEF Reported, isActive, SamePlace
    <3> DEFINE t == [d EXCEPT !.state = "CHARACTERISTIC_DISCOVERY_ACTIVE",
                              !.numCharacteristics = 0]
    <3>2. /\ t = [n \in Fields |-> t[n]] /\ t.told = d.told /\ t.request = d.request
          /\ t.state = "CHARACTERISTIC_DISCOVERY_ACTIVE" /\ SamePlace(d, t)
      BY <3>1 DEF Open, IsDisc, Fields, SamePlace
    <3>3. \/ disc' \in terminateCharacteristicDiscovery(t, FALSE)
          \/ \E r : r.kind = "characteristics" /\ disc' = [t EXCEPT !.request = r]
      BY <2>7 DEF launchCharacteristicDiscovery
    <3> HIDE DEF t
    <3>4. Open(t)
      BY <3>1, <3>2 DEF Open, IsDisc, isActive
    <3>5. InCache(disc)' /\ disc'.request.kind # "uuid"
      <4>1. CASE disc' \in terminateCharacteristicDiscovery(t, FALSE)
        <5>1. disc'.state = "SERVICE_DISCOVERY_ACTIVE" /\ disc'.request = t.request
          BY <3>2, <3>4, <4>1, ServiceEnds
        <5> QED
          BY <3>1, <3>2, <5>1 DEF InCache, OfService, NoRequest
      <4>2. CASE \E r : r.kind = "characteristics" /\ disc' = [t EXCEPT !.request = r]
        <5>1. PICK r : r.kind = "characteristics" /\ disc' = [t EXCEPT !.request = r]
          BY <4>2
        <5>2. disc'.request.kind = "characteristics" /\ SamePlace(t, disc')
          BY <3>2, <5>1 DEF Fields, SamePlace
        <5> QED
          BY <3>1, <3>2, <5>2 DEF InCache, SamePlace
      <4> QED
        BY <3>3, <4>1, <4>2
    <3> QED
      BY <1>4, <2>2, <3>5
  <2> QED
    BY <2>4, <2>6, <2>7
<1> QED
  BY <1>6, <1>7, <1>8, <1>9

LEMMA MoreServicesIndex ==
  ASSUME DiscoveryInv, IndexInv, MoreServices
  PROVE  IndexInv'
<1>1. /\ pc = "progressServiceDiscovery" /\ pc' = "idle" /\ events' = Tail(events)
      /\ events # <<>> /\ Sequence(events) /\ IsDisc(disc)
  BY Known DEF MoreServices, DiscoveryInv, Queued
<1>2. \A k \in Rest' : k + 1 \in Rest /\ events'[k] = events[k + 1]
  <2>1. PICK S : events \in Seq(S)
    BY <1>1 DEF Sequence
  <2>2. /\ Len(Tail(events)) = Len(events) - 1 /\ Len(events) \in Nat
        /\ \A k \in 1 .. Len(events) - 1 : Tail(events)[k] = events[k + 1]
    BY <1>1, <2>1
  <2>3. Rest' = 1 .. Len(events) - 1 /\ Rest = 2 .. Len(events)
    BY <1>1, <2>2 DEF Rest
  <2>4. \A k \in 1 .. Len(events) - 1 : k + 1 \in 2 .. Len(events)
    BY <2>2
  <2> QED
    BY <1>1, <2>2, <2>3, <2>4
<1> DEFINE end == disc.services[disc.serviceIndex - 1].end
           d == [disc EXCEPT !.numServices = 0, !.serviceIndex = 0]
           moves == /\ disc.state = "SERVICE_DISCOVERY_ACTIVE" /\ disc.numServices > 0
                    /\ disc.serviceIndex > 0
           next == IF ~moves THEN disc
                   ELSE IF end # SRV_DISC_END_HANDLE /\ Accepts(d)
                   THEN [d EXCEPT !.request = [kind |-> "services", from |-> end]]
                   ELSE terminateServiceDiscovery(d)
<1>3. disc' = next \/ disc' = terminateServiceDiscovery(next)
  BY DEF MoreServices, Closed
<1>4. CASE ~moves
  <2>1. next = disc
    BY <1>4
  <2>2. CASE disc' = disc
    BY <1>2, <2>2, StillAwaited
  <2>3. CASE disc' = terminateServiceDiscovery(disc)
    <3>1. disc'.state = "INACTIVE"
      BY <1>1, <2>3, TerminateEnds
    <3> QED
      BY <3>1 DEF IndexInv, AsksRight, MeetsIndex, InCache, OfService
  <2> QED
    BY <1>3, <2>1, <2>2, <2>3
<1>5. CASE moves
  <2>1. disc.request = NoRequest /\ \A k \in Rest : events[k].kind = "disconnected"
    BY <1>1, <1>5, Undisturbed DEF NothingToDo
  <2>2. d = [n \in Fields |-> d[n]] /\ d.told = disc.told /\ d.request = NoRequest
        /\ d.state = "SERVICE_DISCOVERY_ACTIVE"
    BY <1>1, <1>5, <2>1 DEF IsDisc, Fields
  <2>3. IsDisc(d)
    BY <1>1, <2>2 DEF IsDisc
  <2>4. /\ IsDisc(next) /\ next.state \notin OfService /\ next.request.kind # "uuid"
    <3>1. CASE next = [d EXCEPT !.request = [kind |-> "services", from |-> end]]
      <4> HIDE DEF d, end
      <4>1. /\ next = [n \in Fields |-> next[n]] /\ next.told = d.told /\ next.state = d.state
            /\ next.request.kind = "services"
        BY <2>2, <3>1 DEF Fields
      <4> QED
        BY <2>2, <2>3, <4>1 DEF IsDisc, OfService
    <3>2. CASE next = terminateServiceDiscovery(d)
      <4> HIDE DEF d, next
      <4> QED
        BY <2>2, <2>3, <3>2, TerminateEnds DEF OfService, NoRequest
    <3> QED
      BY <1>5, <3>1, <3>2
  <2> HIDE DEF next, d
  <2>5. disc'.state \notin OfService /\ disc'.request.kind # "uuid"
    BY <1>3, <2>4, TerminateEnds DEF OfService
  <2> QED
    BY <1>2, <2>1, <2>5, NoneAwaited DEF InCache
<1> QED
  BY <1>4, <1>5

LEMMA ApplicationIndex ==
  ASSUME DiscoveryInv, IndexInv, Launch \/ Terminate
  PROVE  IndexInv'
<1>1. events' = events /\ pc' = pc /\ IsDisc(disc)
  BY Known DEF Launch, Terminate
<1>2. Rest' = Rest
  BY <1>1 DEF Rest
<1>3. CASE disc' = disc
  BY <1>1, <1>2, <1>3, StillAwaited
<1>4. ASSUME disc'.state \in {"INACTIVE", "SERVICE_DISCOVERY_ACTIVE"}
      PROVE  IndexInv'
  BY <1>4 DEF IndexInv, AsksRight, MeetsIndex, InCache, OfService
<1>5. CASE Terminate
  <2>1. disc' = Stopped(disc)
    BY <1>5 DEF Terminate
  <2> QED
    BY <1>1, <1>4, <2>1, TerminateEnds
<1>6. CASE Launch /\ disc' # disc
  <2>1. PICK f \in Filters :
         LET d == [disc EXCEPT !.filter = f, !.numServices = 0, !.serviceIndex = 0,
                               !.state = "SERVICE_DISCOVERY_ACTIVE",
                               !.told = <<>>, !.stopped = FALSE, !.cut = ~link]
         IN disc' = IF isActive(disc) THEN disc
                    ELSE IF Accepts(d)
                    THEN [d EXCEPT !.request = [kind |-> "services", from |-> 1]]
                    ELSE Stopped(d)
    BY <1>6 DEF Launch
  <2> DEFINE d == [disc EXCEPT !.filter = f, !.numServices = 0, !.serviceIndex = 0,
                               !.state = "SERVICE_DISCOVERY_ACTIVE",
                               !.told = <<>>, !.stopped = FALSE, !.cut = ~link]
  <2>2. /\ d = [n \in Fields |-> d[n]] /\ d.told = <<>>
        /\ d.state = "SERVICE_DISCOVERY_ACTIVE"
    BY <1>1 DEF IsDisc, Fields
  <2>3. \/ disc' = [d EXCEPT !.request = [kind |-> "services", from |-> 1]]
        \/ disc' = Stopped(d)
    BY <1>6, <2>1
  <2> HIDE DEF d
  <2>4. IsDisc(d)
    <3>1. <<>> \in Seq({End})
      OBVIOUS
    <3> QED
      BY <2>2, <3>1 DEF IsDisc, Sequence
  <2>5. disc'.state \in {"INACTIVE", "SERVICE_DISCOVERY_ACTIVE"}
    BY <2>2, <2>3, <2>4, TerminateEnds DEF Fields
  <2> QED
    BY <1>4, <2>5
<1> QED
  BY <1>3, <1>5, <1>6

LEMMA SurroundingsIndex ==
  ASSUME DiscoveryInv, IndexInv,
         PeerAnswers \/ PeerRefuses \/ OtherEvent \/ LinkLost \/ Connect
  PROVE  IndexInv'
<1>1. IsDisc(disc) /\ pc' = pc /\ Sequence(events)
  BY Known DEF PeerAnswers, PeerRefuses, OtherEvent, LinkLost, Connect, DiscoveryInv, Queued
<1>2. PICK S : events \in Seq(S)
  BY <1>1 DEF Sequence
<1>3. ASSUME NEW e, events' = Append(events, e), NEW k \in Rest'
      PROVE  (k \in Rest /\ events'[k] = events[k]) \/ events'[k] = e
  <2>1. events \in Seq(S \cup {e})
    BY <1>2
  <2>2. /\ Len(events') = Len(events) + 1 /\ Len(events) \in Nat
        /\ \A j \in 1 .. Len(events) : events'[j] = events[j]
        /\ events'[Len(events) + 1] = e
    BY <1>3, <2>1
  <2>3. (k \in Rest /\ k \in 1 .. Len(events)) \/ k = Len(events) + 1
    BY <1>1, <2>2 DEF Rest
  <2> QED
    BY <2>2, <2>3
<1>4. ASSUME disc'.services = disc.services, disc'.characteristics = disc.characteristics,
             disc'.serviceUUIDDiscoveryQueue = disc.serviceUUIDDiscoveryQueue,
             disc'.charUUIDDiscoveryQueue = disc.charUUIDDiscoveryQueue,
             disc'.state = disc.state, SamePlace(disc, disc'), AsksRight(disc)',
             \A k \in Rest' : \/ k \in Rest /\ events'[k] = events[k]
                              \/ events'[k].kind # "uuid"
                              \/ MeetsIndex(disc, events'[k].handle)
      PROVE  IndexInv'
  <2>1. \A h : MeetsIndex(disc', h) = MeetsIndex(disc, h)
    BY <1>4 DEF MeetsIndex
  <2>2. InCache(disc')
    BY <1>4 DEF InCache, SamePlace, IndexInv
  <2> QED
    BY <1>4, <2>1, <2>2 DEF IndexInv
<1>5. CASE PeerAnswers
  <2>1. PICK e \in Answers(disc.request) : events' = Append(events, e)
    BY <1>5 DEF PeerAnswers
  <2>2. disc' = [disc EXCEPT !.request = NoRequest] /\ disc.request # NoRequest
    BY <1>5 DEF PeerAnswers
  <2>3. disc.request.kind \in {"services", "characteristics", "uuid"}
    BY <2>2 DEF DiscoveryInv, Asked
  <2>4. e.kind = "uuid" => disc.request.kind = "uuid" /\ e.handle = disc.request.handle
    <3>1. CASE disc.request.kind = "uuid"
      <4>1. \E of, ok, uuid : e = [kind |-> "uuid", of |-> of, handle |-> disc.request.handle,
                                   ok |-> ok, uuid |-> uuid]
        BY <3>1 DEF Answers
      <4> QED
        BY <3>1, <4>1
    <3>2. CASE disc.request.kind \in {"services", "characteristics"}
      <4>1. \E list : e \in Found(disc.request.kind, list)
        BY <3>2 DEF Answers
      <4> QED
        BY <3>2, <4>1 DEF Found
    <3> QED
      BY <2>3, <3>1, <3>2
  <2>5. e.kind = "uuid" => MeetsIndex(disc, e.handle)
    BY <2>4 DEF IndexInv, AsksRight
  <2>6. /\ disc'.request = NoRequest /\ disc'.state = disc.state /\ SamePlace(disc, disc')
        /\ disc'.services = disc.services /\ disc'.characteristics = disc.characteristics
        /\ disc'.serviceUUIDDiscoveryQueue = disc.serviceUUIDDiscoveryQueue
        /\ disc'.charUUIDDiscoveryQueue = disc.charUUIDDiscoveryQueue
    BY <1>1, <2>2 DEF IsDisc, Fields, SamePlace
  <2>7. AsksRight(disc)'
    BY <2>6 DEF AsksRight, NoRequest
  <2> QED
    BY <1>3, <1>4, <2>1, <2>5, <2>6, <2>7
<1>6. CASE OtherEvent
  <2>1. disc' = disc /\ events' = <<Event("other")>> /\ events = <<>>
    BY <1>6 DEF OtherEvent
  <2>2. events' = Append(events, Event("other")) /\ Event("other").kind = "other"
    BY <2>1 DEF Event
  <2> QED
    BY <1>3, <1>4, <2>1, <2>2 DEF IndexInv, SamePlace
<1>7. CASE LinkLost \/ PeerRefuses
  <2>1. PICK e : /\ events' = Append(events, e) /\ e.kind # "uuid"
                 /\ disc' = [disc EXCEPT !.request = NoRequest, !.cut = TRUE]
    BY <1>7 DEF LinkLost, PeerRefuses, Event
  <2>2. /\ disc'.request = NoRequest /\ disc'.state = disc.state /\ SamePlace(disc, disc')
        /\ disc'.services = disc.services /\ disc'.characteristics = disc.characteristics
        /\ disc'.serviceUUIDDiscoveryQueue = disc.serviceUUIDDiscoveryQueue
        /\ disc'.charUUIDDiscoveryQueue = disc.charUUIDDiscoveryQueue
    BY <1>1, <2>1 DEF IsDisc, Fields, SamePlace
  <2>3. AsksRight(disc)'
    BY <2>2 DEF AsksRight, NoRequest
  <2> QED
    BY <1>3, <1>4, <2>1, <2>2, <2>3
<1>8. CASE Connect
  <2>1. disc' = disc /\ events' = events
    BY <1>8 DEF Connect
  <2>2. Rest' = Rest
    BY <1>1, <2>1 DEF Rest
  <2> QED
    BY <2>1, <2>2, StillAwaited
<1> QED
  BY <1>5, <1>6, <1>7, <1>8

LEMMA InitIndexInv == Init => IndexInv
<1> SUFFICES ASSUME Init PROVE IndexInv
  OBVIOUS
<1>1. Rest = {} /\ disc.request = NoRequest /\ disc.state = "INACTIVE"
  BY DEF Init, Rest, Discovery
<1> QED
  BY <1>1 DEF IndexInv, AsksRight, InCache, OfService, NoRequest

LEMMA IndexKeeps ==
  ASSUME Trouble \subseteq {"uuid"}, DiscoveryInv, IndexInv, [Next]_vars
  PROVE  DiscoveryInv' /\ IndexInv'
<1>1. DiscoveryInv'
  BY StepKeeps
<1>2. "last" \notin Trouble
  OBVIOUS
<1>3. CASE UNCHANGED vars
  <2>1. Rest' = Rest
    BY <1>3 DEF vars, Rest
  <2> QED
    BY <1>1, <1>3, <2>1, StillAwaited DEF vars
<1>4. CASE Next
  BY <1>1, <1>2, <1>4, EventHandlerIndex, WalkIndex, MoreServicesIndex, ApplicationIndex,
     SurroundingsIndex DEF Next, Handler
<1> QED
  BY <1>3, <1>4

\* For every peer, every size of the caches and every way in which answers, UUIDs, the loss of
\* the link and terminate() overtake each other: a UUID is entered where it was asked for, the
\* queue it is taken from is not empty, and characteristics are those of the service at the
\* index (processDiscoverUUIDResponse, launchCharacteristicDiscovery).
THEOREM AnswersMeetTheIndex ==
  ASSUME Trouble \subseteq {"uuid"}
  PROVE  Spec => []AnswersMeetTheirIndex
<1>1. DiscoveryInv /\ IndexInv /\ [Next]_vars => (DiscoveryInv /\ IndexInv)'
  BY IndexKeeps
<1>2. DiscoveryInv /\ IndexInv => AnswersMeetTheirIndex
  <2> SUFFICES ASSUME DiscoveryInv, IndexInv
               PROVE  AnswersMeetTheirIndex
    OBVIOUS
  <2>1. ASSUME pc = "idle", events # <<>>
        PROVE  1 \in Rest /\ Head(events) = events[1]
    <3>1. PICK S : events \in Seq(S)
      BY DEF DiscoveryInv, Queued, Sequence
    <3> QED
      BY <2>1, <3>1 DEF Rest
  <2> QED
    BY <2>1 DEF IndexInv, MeetsIndex, InCache, OfService, AnswersMeetTheirIndex
<1> QED
  BY <1>1, <1>2, InitDiscoveryInv, InitIndexInv, PTL DEF Spec

(***************************************************************************)
(* The reports.  A table of services with their characteristics is walked  *)
(* in the order of the handles: what is told is what is expected up to a   *)
(* handle (ToldTo), and with that handle the discovery goes on, be it with *)
(* what is in the caches, in a request or in an answer.                    *)
(***************************************************************************)

\* What the discovery withstands of a peer and of an application.  A service of one handle that
\* ends an answer is asked for again and again: the search goes on at its endHandle, not behind
\* it (nRF5xServiceDiscovery.cpp:215).  Behind a value at the last handle NextHandle is 0,
\* and that characteristic is not reported (166).  With a filter for one characteristic of any
\* service none is reported (135).
Withstood ==
  /\ \A table \in Peers : \A s \in table :
       s.handle < s.end /\ \A c \in s.chars : c.value < SRV_DISC_END_HANDLE
  /\ \A f \in Filters : f.service = ANY => f.characteristic = ANY

\* The peer's table: the handles of an attribute are its own, and within its service.
IsTable ==
  \A s \in peer :
    /\ s.handle \in Nat /\ s.end \in Nat
    /\ 0 < s.handle /\ s.handle < s.end /\ s.end <= SRV_DISC_END_HANDLE
    /\ \A t \in peer : t # s => s.end < t.handle \/ t.end < s.handle
    /\ \A c \in s.chars :
         /\ c.handle \in Nat /\ c.value \in Nat
         /\ s.handle < c.handle /\ c.handle < c.value /\ c.value <= s.end
         /\ c.value < SRV_DISC_END_HANDLE
         /\ \A b \in s.chars : b # c => c.value < b.handle \/ b.value < c.handle

\* A table of Peers is one: what DiscoveryAssumption and Withstood say of it.
LEMMA PeerIsTable ==
  ASSUME Withstood, peer \in Peers
  PROVE  IsTable /\ SRV_DISC_END_HANDLE \in Nat
<1>1. SRV_DISC_END_HANDLE \in Nat
  BY DiscoveryAssumption DEF DiscoveryAssumption
<1>2. ASSUME NEW s \in peer
      PROVE  /\ s.handle \in Nat /\ s.end \in Nat
             /\ 0 < s.handle /\ s.handle < s.end /\ s.end <= SRV_DISC_END_HANDLE
             /\ \A t \in peer : t # s => s.end < t.handle \/ t.end < s.handle
  BY <1>1, DiscoveryAssumption DEF DiscoveryAssumption, Withstood
<1>3. ASSUME NEW s \in peer, NEW c \in s.chars
      PROVE  /\ c.handle \in Nat /\ c.value \in Nat
             /\ s.handle < c.handle /\ c.handle < c.value /\ c.value <= s.end
             /\ c.value < SRV_DISC_END_HANDLE
             /\ \A b \in s.chars : b # c => c.value < b.handle \/ b.value < c.handle
  <2>1. /\ c.handle \in s.handle + 1 .. s.end /\ c.value \in c.handle + 1 .. s.end
        /\ \A b \in s.chars : b # c => c.value < b.handle \/ b.value < c.handle
    BY DiscoveryAssumption DEF DiscoveryAssumption
  <2>2. c.value < SRV_DISC_END_HANDLE
    BY DEF Withstood
  <2>3. s.handle \in Nat /\ s.end \in Nat
    BY <1>2
  <2> QED
    BY <2>1, <2>2, <2>3
<1> QED
  BY <1>1, <1>2, <1>3 DEF IsTable

-----------------------------------------------------------------------------
Handles == 0 .. SRV_DISC_END_HANDLE + 1
ToldTo(d, h) ==
  /\ h \in Handles /\ InOrder(d)
  /\ Heard(d) = {r \in Expected(d.filter) : r.handle < h}

\* What is expected of a service, and of a characteristic.
OfChar(s, c) == Characteristic([uuid |-> c.uuid, handle |-> c.handle, value |-> c.value,
                                last |-> LastHandle(s, c)])
Wants(f, c) == f.wanted /\ f.characteristic \in {ANY, c.uuid}

\* An expected report is of a service or of one of its characteristics.
LEMMA ExpectedOf ==
  ASSUME IsTable, SRV_DISC_END_HANDLE \in Nat, NEW f, NEW r \in Expected(f)
  PROVE  /\ r # End /\ r.handle \in Nat /\ r.handle <= SRV_DISC_END_HANDLE
         /\ \E s \in peer :
              /\ MatchesService(f, s)
              /\ \/ r = Service(s) /\ r.handle = s.handle
                 \/ \E c \in s.chars : Wants(f, c) /\ r = OfChar(s, c) /\ r.handle = c.handle
<1>1. PICK s \in peer : r \in ReportsOf(f, s)
  BY DEF Expected
<1>2. MatchesService(f, s)
  BY <1>1 DEF ReportsOf
<1>3. \/ r = Service(s)
      \/ \E c \in s.chars : Wants(f, c) /\ r = OfChar(s, c)
  BY <1>1, <1>2 DEF ReportsOf, Wants, OfChar
<1>4. CASE r = Service(s)
  <2>1. r # End /\ r.handle = s.handle
    BY <1>4 DEF Service, End
  <2>2. s.handle \in Nat /\ s.end \in Nat /\ s.handle < s.end /\ s.end <= SRV_DISC_END_HANDLE
    BY DEF IsTable
  <2> QED
    BY <1>2, <1>4, <2>1, <2>2
<1>5. ASSUME NEW c \in s.chars, Wants(f, c), r = OfChar(s, c)
      PROVE  /\ r # End /\ r.handle \in Nat /\ r.handle <= SRV_DISC_END_HANDLE
             /\ r.handle = c.handle
  <2>1. r # End /\ r.handle = c.handle
    BY <1>5 DEF OfChar, Characteristic, End
  <2>2. /\ s.end \in Nat /\ s.end <= SRV_DISC_END_HANDLE /\ c.handle \in Nat /\ c.value \in Nat
        /\ c.handle < c.value /\ c.value <= s.end
    BY DEF IsTable
  <2> QED
    BY <2>1, <2>2
<1> QED
  BY <1>2, <1>3, <1>4, <1>5

\* Between the declaration of a service and its end are its own characteristics only.
LEMMA ExpectedWithin ==
  ASSUME IsTable, SRV_DISC_END_HANDLE \in Nat, NEW f, NEW r \in Expected(f),
         NEW s \in peer, s.handle < r.handle, r.handle <= s.end
  PROVE  \E c \in s.chars : Wants(f, c) /\ r = OfChar(s, c) /\ r.handle = c.handle
<1>1. PICK t \in peer : \/ r = Service(t) /\ r.handle = t.handle
                        \/ \E c \in t.chars : Wants(f, c) /\ r = OfChar(t, c) /\ r.handle = c.handle
  BY ExpectedOf
<1>2. /\ s.handle \in Nat /\ s.end \in Nat /\ t.handle \in Nat /\ t.end \in Nat
      /\ t.handle < t.end /\ (t # s => s.end < t.handle \/ t.end < s.handle)
  BY DEF IsTable
<1>3. CASE r = Service(t) /\ r.handle = t.handle
  BY <1>2, <1>3
<1>4. ASSUME NEW c \in t.chars, Wants(f, c), r = OfChar(t, c), r.handle = c.handle
      PROVE  t = s
  <2>1. /\ c.handle \in Nat /\ c.value \in Nat
        /\ t.handle < c.handle /\ c.handle < c.value /\ c.value <= t.end
    BY DEF IsTable
  <2> QED
    BY <1>2, <1>4, <2>1
<1> QED
  BY <1>1, <1>3, <1>4

\* Two reports with the same handle are one.
LEMMA ExpectedOnce ==
  ASSUME IsTable, SRV_DISC_END_HANDLE \in Nat,
         NEW f, NEW r \in Expected(f), NEW q \in Expected(f), r.handle = q.handle
  PROVE  r = q
<1>1. PICK s \in peer : \/ r = Service(s) /\ r.handle = s.handle
                        \/ \E c \in s.chars : Wants(f, c) /\ r = OfChar(s, c) /\ r.handle = c.handle
  BY ExpectedOf
<1>2. /\ s.handle \in Nat /\ s.end \in Nat /\ s.handle < s.end
  BY DEF IsTable
<1>3. ASSUME NEW c \in s.chars, r = OfChar(s, c), r.handle = c.handle
      PROVE  r = q
  <2>1. /\ c.handle \in Nat /\ c.value \in Nat
        /\ s.handle < c.handle /\ c.handle < c.value /\ c.value <= s.end
    BY DEF IsTable
  <2>2. s.handle < q.handle /\ q.handle <= s.end
    BY <1>2, <1>3, <2>1
  <2>3. PICK b \in s.chars : q = OfChar(s, b) /\ q.handle = b.handle
    BY <2>2, ExpectedWithin
  <2>4. b = c
    <3>1. b.handle = c.handle
      BY <1>3, <2>3
    <3>2. /\ b.handle \in Nat /\ b.value \in Nat /\ b.handle < b.value
          /\ b # c => c.value < b.handle \/ b.value < c.handle
      BY DEF IsTable
    <3> QED
      BY <2>1, <3>1, <3>2
  <2> QED
    BY <1>3, <2>3, <2>4
<1>4. CASE r = Service(s) /\ r.handle = s.handle
  <2>1. PICK t \in peer : \/ q = Service(t) /\ q.handle = t.handle
                          \/ \E c \in t.chars : q = OfChar(t, c) /\ q.handle = c.handle
    BY ExpectedOf
  <2>2. /\ t.handle \in Nat /\ t.end \in Nat /\ t.handle < t.end
        /\ t # s => s.end < t.handle \/ t.end < s.handle
    BY DEF IsTable
  <2>3. CASE q = Service(t) /\ q.handle = t.handle
    <3>1. t = s
      BY <1>2, <1>4, <2>2, <2>3
    <3> QED
      BY <1>4, <2>3, <3>1
  <2>4. ASSUME NEW c \in t.chars, q = OfChar(t, c), q.handle = c.handle
        PROVE  FALSE
    <3>1. /\ c.handle \in Nat /\ c.value \in Nat
          /\ t.handle < c.handle /\ c.handle < c.value /\ c.value <= t.end
      BY DEF IsTable
    <3> QED
      BY <1>2, <1>4, <2>2, <2>4, <3>1
  <2> QED
    BY <2>1, <2>3, <2>4
<1> QED
  BY <1>1, <1>3, <1>4

\* Nothing is expected between.
LEMMA ToldOn ==
  ASSUME IsTable, SRV_DISC_END_HANDLE \in Nat, NEW d, NEW h, ToldTo(d, h), NEW x \in Handles,
         NEW e, e.told = d.told, e.filter = d.filter,
         \A r \in Expected(d.filter) : r.handle < h <=> r.handle < x
  PROVE  ToldTo(e, x)
<1>1. {r \in Expected(d.filter) : r.handle < h} = {r \in Expected(d.filter) : r.handle < x}
  OBVIOUS
<1>2. Heard(e) = Heard(d) /\ (InOrder(d) => InOrder(e))
  BY DEF Heard, InOrder
<1> QED
  BY <1>1, <1>2 DEF ToldTo

\* One more report, and maybe the end.
LEMMA ToldMore ==
  ASSUME IsTable, SRV_DISC_END_HANDLE \in Nat, NEW d, Sequence(d.told), Silent(d.told),
         NEW h, ToldTo(d, h), NEW x \in Handles, NEW r \in Expected(d.filter),
         h <= r.handle, r.handle < x,
         \A q \in Expected(d.filter) : h <= q.handle /\ q.handle < x => q = r,
         NEW e, e.filter = d.filter,
         e.told = Append(d.told, r) \/ e.told = Append(Append(d.told, r), End)
  PROVE  ToldTo(e, x)
<1>1. PICK T : d.told \in Seq(T)
  BY DEF Sequence
<1>2. PICK n \in Nat : n = Len(d.told)
  BY <1>1
<1>3. r # End /\ r.handle \in Nat
  BY ExpectedOf
<1> HIDE DEF End
<1> DEFINE Grown(m) == /\ DOMAIN e.told = 1 .. m /\ (m = n + 1 \/ (m = n + 2 /\ e.told[m] = End))
                       /\ \A k \in 1 .. n : e.told[k] = d.told[k]
                       /\ e.told[n + 1] = r
<1>4. PICK m \in Nat : Grown(m)
  <2>0. d.told \in Seq(T \cup {r, End}) /\ r \in T \cup {r, End} /\ End \in T \cup {r, End}
    BY <1>1
  <2>1. /\ Append(d.told, r) \in Seq(T \cup {r, End}) /\ DOMAIN Append(d.told, r) = 1 .. n + 1
        /\ \A k \in 1 .. n : Append(d.told, r)[k] = d.told[k]
        /\ Append(d.told, r)[n + 1] = r /\ Len(Append(d.told, r)) = n + 1
    BY <1>2, <2>0
  <2>2. PICK q : q = Append(d.told, r)
    OBVIOUS
  <2>3. /\ DOMAIN Append(q, End) = 1 .. n + 2 /\ \A k \in 1 .. n + 1 : Append(q, End)[k] = q[k]
        /\ Append(q, End)[n + 2] = End
    BY <1>2, <2>0, <2>1, <2>2
  <2>4. CASE e.told = q
    <3>1. PICK m \in Nat : m = n + 1
      OBVIOUS
    <3>2. DOMAIN e.told = 1 .. m /\ e.told[n + 1] = r /\ \A k \in 1 .. n : e.told[k] = d.told[k]
      BY <2>1, <2>2, <2>4, <3>1
    <3>3. Grown(m)
      BY <3>1, <3>2
    <3> HIDE DEF Grown
    <3> QED
      BY <3>1, <3>3
  <2>5. CASE e.told = Append(q, End)
    <3>1. /\ n + 2 \in Nat /\ n + 1 \in 1 .. n + 1 /\ \A k \in 1 .. n : k \in 1 .. n + 1
      OBVIOUS
    <3>2. e.told[n + 1] = r /\ \A k \in 1 .. n : e.told[k] = d.told[k]
      BY <2>1, <2>2, <2>3, <2>5, <3>1
    <3>3. PICK m \in Nat : m = n + 2
      OBVIOUS
    <3>4. Grown(m)
      BY <2>3, <2>5, <3>1, <3>2, <3>3
    <3> HIDE DEF Grown
    <3> QED
      BY <3>3, <3>4
  <2> QED
    BY <2>2, <2>4, <2>5
<1>5. DOMAIN d.told = 1 .. n /\ \A k \in 1 .. n : d.told[k] # End
  BY <1>1, <1>2 DEF Silent
<1>6. Heard(e) = Heard(d) \cup {r}
  <2>1. \A k \in 1 .. m : k \in 1 .. n \/ k = n + 1 \/ (k = n + 2 /\ k = m /\ m # n + 1)
    BY <1>4
  <2>2. n + 1 \in 1 .. m /\ \A k \in 1 .. n : k \in 1 .. m
    BY <1>4
  <2>3. ASSUME NEW k \in 1 .. m, e.told[k] # End
        PROVE  e.told[k] \in Heard(d) \cup {r}
    <3>1. k \in 1 .. n \/ k = n + 1
      BY <1>4, <2>1, <2>3
    <3>2. CASE k \in 1 .. n
      <4>1. e.told[k] = d.told[k] /\ k \in DOMAIN d.told
        BY <1>4, <1>5, <3>2
      <4> QED
        BY <2>3, <4>1 DEF Heard
    <3> QED
      BY <1>4, <3>1, <3>2
  <2>4. ASSUME NEW k \in 1 .. n
        PROVE  d.told[k] \in Heard(e)
    <3>1. /\ k \in DOMAIN e.told /\ e.told[k] = d.told[k] /\ d.told[k] # End
      BY <1>4, <1>5, <2>2
    <3> QED
      BY <3>1 DEF Heard
  <2>5. r \in Heard(e)
    <3>1. n + 1 \in DOMAIN e.told /\ e.told[n + 1] = r
      BY <1>4, <2>2
    <3> QED
      BY <1>3, <3>1 DEF Heard
  <2>6. Heard(e) \subseteq Heard(d) \cup {r}
    BY <1>4, <2>3 DEF Heard
  <2>7. Heard(d) \subseteq Heard(e)
    BY <1>5, <2>4 DEF Heard
  <2> QED
    BY <2>5, <2>6, <2>7
<1>7. \A k \in 1 .. n : d.told[k] \in Expected(d.filter) /\ d.told[k].handle < h
  <2>1. \A k \in 1 .. n : d.told[k] \in Heard(d)
    BY <1>5 DEF Heard
  <2> QED
    BY <2>1 DEF ToldTo
<1>8. InOrder(e)
  <2> SUFFICES ASSUME NEW j \in 1 .. m, NEW k \in 1 .. m, j < k, e.told[k] # End
               PROVE  e.told[j].handle < e.told[k].handle
    BY <1>4 DEF InOrder
  <2>1. j \in 1 .. n /\ (k \in 1 .. n \/ k = n + 1)
    BY <1>4
  <2>2. CASE k \in 1 .. n
    <3>1. /\ j \in DOMAIN d.told /\ k \in DOMAIN d.told /\ d.told[k] # End
          /\ e.told[j] = d.told[j] /\ e.told[k] = d.told[k]
      BY <1>4, <1>5, <2>1, <2>2
    <3>2. InOrder(d)
      BY DEF ToldTo
    <3> QED
      BY <3>1, <3>2 DEF InOrder
  <2>3. CASE k = n + 1
    <3>1. d.told[j].handle < h /\ d.told[j] \in Expected(d.filter)
      BY <1>7, <2>1
    <3>2. d.told[j].handle \in Nat
      BY <3>1, ExpectedOf
    <3>3. h \in Nat
      BY DEF ToldTo, Handles
    <3>4. e.told[j] = d.told[j] /\ e.told[k] = r
      BY <1>4, <2>1, <2>3
    <3> QED
      BY <1>3, <3>1, <3>2, <3>3, <3>4
  <2> QED
    BY <2>1, <2>2, <2>3
<1>9. Heard(e) = {q \in Expected(d.filter) : q.handle < x}
  <2>1. \A q \in Expected(d.filter) : q.handle \in Nat
    BY ExpectedOf
  <2>2. h \in Nat /\ x \in Nat
    BY DEF ToldTo, Handles
  <2>3. \A q \in Expected(d.filter) : q.handle < x <=> q.handle < h \/ q = r
    BY <1>3, <2>1, <2>2
  <2> QED
    BY <1>6, <2>3 DEF ToldTo
<1> QED
  BY <1>8, <1>9 DEF ToldTo

Carries(d, x) ==
  /\ x.serviceIndex = d.serviceIndex /\ x.numServices = d.numServices
  /\ x.numCharacteristics = d.numCharacteristics
  /\ x.services = d.services /\ x.characteristics = d.characteristics
  /\ x.serviceUUIDDiscoveryQueue = d.serviceUUIDDiscoveryQueue
  /\ x.charUUIDDiscoveryQueue = d.charUUIDDiscoveryQueue
  /\ x.filter = d.filter /\ x.request = d.request /\ x.cut = d.cut
Unmoved(d, x) ==
  /\ Carries(d, x) /\ x.state = d.state /\ x.discoveredCharacteristic = d.discoveredCharacteristic
  /\ x.stopped = d.stopped
StoppedFrom(d, x) == Carries(d, x) /\ x.state = "INACTIVE" /\ x.stopped = TRUE

\* What a callback leaves: one more report, and the end if the application stops there.
LEMMA CallbackIs ==
  ASSUME NEW d, Open(d), NEW r, NEW mayStop \in BOOLEAN, NEW x \in Callback(d, r, mayStop)
  PROVE  \/ Unmoved(d, x) /\ x.told = Append(d.told, r)
         \/ StoppedFrom(d, x) /\ x.told = Append(Append(d.told, r), End)
<1> DEFINE t == [d EXCEPT !.told = Append(@, r)]
<1>1. /\ t = [n \in Fields |-> t[n]] /\ Unmoved(d, t) /\ t.told = Append(d.told, r)
  BY DEF Open, IsDisc, Fields, Unmoved, Carries
<1>2. x = t \/ x = Stopped(t)
  BY DEF Callback
<1>3. isActive(t)
  BY <1>1 DEF Open, isActive, Unmoved
<1> HIDE DEF t
<1>4. StoppedFrom(t, Stopped(t)) /\ Stopped(t).told = Append(t.told, End)
  BY <1>1, <1>3 DEF Stopped, terminateServiceDiscovery, StoppedFrom, Carries, Fields
<1> QED
  BY <1>1, <1>2, <1>4 DEF Unmoved, StoppedFrom, Carries

\* A characteristic that is due is told, if the filter wants it.
Due(d, s, c, x) ==
  /\ s \in peer /\ MatchesService(d.filter, s) /\ d.filter.wanted
  /\ c \in s.chars /\ ToldTo(d, c.handle)
  /\ x \in Handles /\ c.handle < x /\ x <= s.end + 1
  /\ \A b \in s.chars : c.handle < b.handle => x <= b.handle
AsIs(y, s, c) == /\ y.uuid = c.uuid /\ y.handle = c.handle /\ y.value = c.value
                 /\ y.last = LastHandle(s, c)

\* A characteristic that is due is told, or the filter does not want it.
LEMMA CharacteristicTold ==
  ASSUME IsTable, SRV_DISC_END_HANDLE \in Nat, NEW d, Open(d),
         d.filter.service = ANY => d.filter.characteristic = ANY,
         NEW s, NEW c, NEW x, Due(d, s, c, x), NEW y, AsIs(y, s, c),
         NEW mayStop \in BOOLEAN, NEW e \in CharacteristicCallback(d, y, mayStop)
  PROVE  ToldTo(e, x) /\ (Unmoved(d, e) \/ StoppedFrom(d, e))
<1>1. /\ c.handle \in Nat /\ s.handle \in Nat /\ s.end \in Nat /\ s.handle < c.handle
      /\ x \in Nat
  BY DEF Due, IsTable, Handles
<1>2. \A q \in Expected(d.filter) :
        c.handle <= q.handle /\ q.handle < x => q = OfChar(s, c) /\ Wants(d.filter, c)
  <2> SUFFICES ASSUME NEW q \in Expected(d.filter), c.handle <= q.handle, q.handle < x
               PROVE  q = OfChar(s, c) /\ Wants(d.filter, c)
    OBVIOUS
  <2>0. q.handle \in Nat
    BY ExpectedOf
  <2>1. s.handle < q.handle /\ q.handle <= s.end
    BY <1>1, <2>0 DEF Due
  <2>2. PICK b \in s.chars : Wants(d.filter, b) /\ q = OfChar(s, b) /\ q.handle = b.handle
    BY <2>1, ExpectedWithin DEF Due
  <2>3. b = c
    <3>1. /\ b.handle \in Nat /\ b.value \in Nat /\ c.value \in Nat
          /\ c.handle < c.value /\ b.handle < b.value
          /\ b # c => c.value < b.handle \/ b.value < c.handle
      BY DEF Due, IsTable
    <3>2. ~(c.handle < b.handle)
      BY <1>1, <2>2, <3>1 DEF Due
    <3> QED
      BY <1>1, <2>2, <3>1, <3>2
  <2> QED
    BY <2>2, <2>3
<1>3. \A q \in Expected(d.filter) : q.handle \in Nat
  BY ExpectedOf
<1>4. MatchesCharacteristic(d.filter, y) <=> Wants(d.filter, c)
  BY DEF MatchesCharacteristic, Wants, Due, AsIs
<1>5. CASE ~Wants(d.filter, c)
  <2>1. e = d
    BY <1>4, <1>5 DEF CharacteristicCallback
  <2>2. \A q \in Expected(d.filter) : q.handle < c.handle <=> q.handle < x
    BY <1>1, <1>2, <1>3, <1>5 DEF Due
  <2>3. ToldTo(e, x)
    BY <2>1, <2>2, ToldOn DEF Due
  <2> QED
    BY <2>1, <2>3 DEF Unmoved, Carries
<1>6. CASE Wants(d.filter, c)
  <2>1. e \in Callback(d, Characteristic(y), mayStop)
    BY <1>4, <1>6 DEF CharacteristicCallback
  <2>2. Characteristic(y) = OfChar(s, c)
    BY DEF Characteristic, OfChar, AsIs
  <2>3. OfChar(s, c) \in Expected(d.filter)
    <3>1. OfChar(s, c) \in ReportsOf(d.filter, s)
      BY <1>6 DEF Due, ReportsOf, OfChar, Wants
    <3> QED
      BY <3>1 DEF Expected, Due
  <2>4. OfChar(s, c).handle = c.handle
    BY DEF OfChar, Characteristic
  <2>5. \/ Unmoved(d, e) /\ e.told = Append(d.told, OfChar(s, c))
        \/ StoppedFrom(d, e) /\ e.told = Append(Append(d.told, OfChar(s, c)), End)
    BY <2>1, <2>2, CallbackIs
  <2>6. e.filter = d.filter
    BY <2>5 DEF Unmoved, StoppedFrom, Carries
  <2>7. ToldTo(e, x)
    <3>1. PICK r \in Expected(d.filter) : r = OfChar(s, c)
      BY <2>3
    <3>0. PICK h : h = c.handle
      OBVIOUS
    <3>2. h <= r.handle /\ r.handle < x /\ ToldTo(d, h) /\ x \in Handles
      BY <1>1, <2>4, <3>0, <3>1 DEF Due
    <3>3. \A q \in Expected(d.filter) : h <= q.handle /\ q.handle < x => q = r
      BY <1>2, <3>0, <3>1
    <3>4. e.told = Append(d.told, r) \/ e.told = Append(Append(d.told, r), End)
      BY <2>5, <3>1
    <3>5. Sequence(d.told) /\ Silent(d.told)
      BY DEF Open, IsDisc
    <3> QED
      BY <2>6, <3>1, <3>2, <3>3, <3>4, <3>5, ToldMore
  <2> QED
    BY <2>5, <2>7
<1> QED
  BY <1>5, <1>6

(***************************************************************************)
(* The inductive invariant of the reports.                                 *)
(***************************************************************************)
Telling(d) == \E h \in Handles : ToldTo(d, h)

\* The first n of a cache are attributes of S, with none left out between.
Gapless(cache, n, S) ==
  /\ \A j, k \in 0 .. n - 1 : j < k => cache[j].handle < cache[k].handle
  /\ \A k \in 0 .. n - 2, a \in S :
       cache[k].handle < a.handle => cache[k + 1].handle <= a.handle

\* A UUID that is in the queue is not known yet.
Reads(d, state, queue, k) == d.state = state /\ k \in Range(queue)

CharacteristicFields == {"uuid", "handle", "value", "last"}

ServiceAt(d, k, s) ==
  /\ s \in peer /\ d.services[k].handle = s.handle /\ d.services[k].end = s.end
  /\ DOMAIN d.services[k] = {"uuid", "handle", "end"}
  /\ \/ d.services[k].uuid = s.uuid
     \/ Reads(d, "DISCOVER_SERVICE_UUIDS", d.serviceUUIDDiscoveryQueue, k)
ServicesIn(d) ==
  /\ d.numServices \in 1 .. BLE_DB_DISCOVERY_MAX_SRV /\ d.serviceIndex \in 0 .. d.numServices
  /\ DOMAIN d.services = 0 .. BLE_DB_DISCOVERY_MAX_SRV - 1
  /\ Gapless(d.services, d.numServices, peer)
  /\ \A k \in 0 .. d.numServices - 1 : \E s \in peer : ServiceAt(d, k, s)
  /\ d.state = "DISCOVER_SERVICE_UUIDS"
       => d.serviceUUIDDiscoveryQueue \in Seq(0 .. d.numServices - 1)

CharacteristicAt(d, k, s, c) ==
  /\ c \in s.chars
  /\ d.characteristics[k].handle = c.handle /\ d.characteristics[k].value = c.value
  /\ DOMAIN d.characteristics[k] = CharacteristicFields
  /\ \/ d.characteristics[k].uuid = c.uuid
     \/ Reads(d, "DISCOVER_CHARACTERISTIC_UUIDS", d.charUUIDDiscoveryQueue, k)
CharacteristicsIn(d, s) ==
  /\ d.numCharacteristics \in 1 .. BLE_DB_DISCOVERY_MAX_CHAR_PER_SRV
  /\ DOMAIN d.characteristics = 0 .. BLE_DB_DISCOVERY_MAX_CHAR_PER_SRV - 1
  /\ Gapless(d.characteristics, d.numCharacteristics, s.chars)
  /\ \A k \in 0 .. d.numCharacteristics - 1 : \E c \in s.chars : CharacteristicAt(d, k, s, c)
  /\ d.state = "DISCOVER_CHARACTERISTIC_UUIDS"
       => d.charUUIDDiscoveryQueue \in Seq(0 .. d.numCharacteristics - 1)

\* Where the service at the index begins; behind the last, where that ends.
NextIn(d) == IF d.serviceIndex < d.numServices THEN d.services[d.serviceIndex].handle
             ELSE d.services[d.numServices - 1].end + 1

InService(d, s) ==
  /\ ServicesIn(d) /\ d.serviceIndex < d.numServices
  /\ s \in peer /\ d.services[d.serviceIndex].handle = s.handle
  /\ d.services[d.serviceIndex].end = s.end
  /\ MatchesService(d.filter, s) /\ d.filter.wanted

\* Told as far as the characteristics before x, but the one that is kept back.
Kept(d, s, c, x) ==
  /\ c \in s.chars /\ c.handle < x
  /\ DOMAIN d.discoveredCharacteristic = CharacteristicFields
  /\ d.discoveredCharacteristic.handle = c.handle
  /\ d.discoveredCharacteristic.value = c.value
  /\ d.discoveredCharacteristic.uuid = c.uuid
  /\ ToldTo(d, c.handle)
  /\ \A b \in s.chars : c.handle < b.handle => x <= b.handle
Through(d, s, h, x) ==
  /\ s.handle < h /\ h <= s.end /\ ToldTo(d, h)
  /\ \A b \in s.chars : h <= b.handle <=> x <= b.handle
Position(d, s, x) ==
  IF d.discoveredCharacteristic = None
  THEN \E h \in Handles : Through(d, s, h, x)
  ELSE \E c \in s.chars : Kept(d, s, c, x)

Over(d) ==
  d.state = "INACTIVE" /\ (d.stopped \/ ToldTo(d, SRV_DISC_END_HANDLE + 1))
AwaitsServices(d) ==
  /\ d.state = "SERVICE_DISCOVERY_ACTIVE" /\ d.numServices = 0 /\ d.serviceIndex = 0
  /\ d.discoveredCharacteristic = None
AtServices(d) ==
  /\ d.state \in {"SERVICE_DISCOVERY_ACTIVE", "DISCOVER_SERVICE_UUIDS"}
  /\ ServicesIn(d) /\ ToldTo(d, NextIn(d)) /\ d.discoveredCharacteristic = None
AwaitsCharacteristics(d) ==
  /\ d.state = "CHARACTERISTIC_DISCOVERY_ACTIVE" /\ d.numCharacteristics = 0
  /\ \E s \in peer : InService(d, s)

\* Where the reports of the characteristics of s are.
Walk(d, s, at, j) ==
  /\ at = "progressCharacteristicDiscovery" =>
       j = 0 /\ Position(d, s, d.characteristics[0].handle)
  /\ at = "characteristics" =>
       j \in 0 .. d.numCharacteristics - 1 /\ ToldTo(d, d.characteristics[j].handle)
  /\ at = "moreCharacteristics" =>
       /\ d.discoveredCharacteristic # None
       /\ Position(d, s, d.characteristics[d.numCharacteristics - 1].value + 1)
HasCharacteristics(d, s, at, j) ==
  /\ InService(d, s) /\ CharacteristicsIn(d, s)
  /\ \/ /\ d.state = "DISCOVER_CHARACTERISTIC_UUIDS"
        /\ Position(d, s, d.characteristics[0].handle)
     \/ /\ d.state = "CHARACTERISTIC_DISCOVERY_ACTIVE" /\ Walk(d, s, at, j)
        /\ at \in {"progressCharacteristicDiscovery", "characteristics", "moreCharacteristics"}

Right(d, at, j) ==
  /\ Telling(d) /\ d.filter \in Filters
  /\ \/ Over(d) \/ AwaitsServices(d) \/ AtServices(d)
     \/ AwaitsCharacteristics(d) /\ at \in {"idle", "progressServiceDiscovery"}
     \/ \E s \in peer : HasCharacteristics(d, s, at, j)

\* No service goes on at handle h and behind.
Between(h) == \A s \in peer : s.handle < h => s.end <= h

Asking(d, s, x) == InService(d, s) /\ Position(d, s, x)
OfIts(d, of) == /\ d.state = "DISCOVER_SERVICE_UUIDS" => of = "service"
                /\ d.state = "DISCOVER_CHARACTERISTIC_UUIDS" => of = "characteristic"
RequestRight(d) ==
  LET r == d.request
  IN /\ r.kind = "services" => AwaitsServices(d) /\ ToldTo(d, r.from) /\ Between(r.from)
     /\ r.kind = "characteristics" =>
          /\ AwaitsCharacteristics(d)
          /\ r.from \in Nat
          /\ \E s \in peer :
               Asking(d, s, r.from) /\ s.handle <= r.from /\ r.from <= s.end /\ r.to = s.end
     /\ r.kind = "uuid" => OfIts(d, r.of)

\* Found are attributes of S, with none left out between.
FoundIn(q, S) ==
  /\ q \in Seq(S) /\ Len(q) > 0
  /\ \A j, k \in 1 .. Len(q) : j < k => q[j].handle < q[k].handle
  /\ \A k \in 1 .. Len(q) - 1, a \in S :
       q[k].handle < a.handle => q[k + 1].handle <= a.handle
EventRight(d, e) ==
  /\ e.kind = "services" =>
       /\ AwaitsServices(d)
       /\ IF e.ok THEN FoundIn(e.found, peer) /\ ToldTo(d, e.found[1].handle)
          ELSE ToldTo(d, SRV_DISC_END_HANDLE + 1)
  /\ e.kind = "characteristics" =>
       /\ AwaitsCharacteristics(d)
       /\ \E s \in peer : IF e.ok THEN FoundIn(e.found, s.chars) /\ Asking(d, s, e.found[1].handle)
                           ELSE Asking(d, s, s.end + 1)
  /\ e.kind = "uuid" =>
       /\ OfIts(d, e.of)
       /\ d.state \in Reading => e.ok /\ e.uuid = UUIDAt(e.handle)

ReportRight ==
  /\ link /\ Right(disc, pc, i) /\ RequestRight(disc)
  /\ \A k \in Rest : EventRight(disc, events[k])
ReportInv ==
  /\ peer \in Peers
  /\ ~isActive(disc) => disc.discoveredCharacteristic = None
  /\ ~disc.cut /\ launches > 0 => ReportRight

\* What is expected lies within its service.
LEMMA ExpectedIn ==
  ASSUME IsTable, SRV_DISC_END_HANDLE \in Nat, NEW f, NEW r \in Expected(f)
  PROVE  /\ r.handle \in Nat
         /\ \E s \in peer : MatchesService(f, s) /\ s.handle <= r.handle /\ r.handle < s.end
<1>1. r.handle \in Nat
  BY ExpectedOf
<1>2. PICK s \in peer :
        /\ MatchesService(f, s)
        /\ r.handle = s.handle \/ \E c \in s.chars : r.handle = c.handle
  BY ExpectedOf
<1>3. s.handle \in Nat /\ s.end \in Nat /\ s.handle < s.end
  BY DEF IsTable
<1>4. ASSUME NEW c \in s.chars, r.handle = c.handle
      PROVE  s.handle <= r.handle /\ r.handle < s.end
  <2>1. /\ c.handle \in Nat /\ c.value \in Nat
        /\ s.handle < c.handle /\ c.handle < c.value /\ c.value <= s.end
    BY DEF IsTable
  <2> QED
    BY <1>3, <1>4, <2>1
<1> QED
  BY <1>1, <1>2, <1>3, <1>4

\* Behind h, at which no service goes on, nothing is expected before the next.
LEMMA NoneBefore ==
  ASSUME IsTable, SRV_DISC_END_HANDLE \in Nat, NEW f, NEW h \in Nat, NEW x \in Nat,
         Between(h), h <= x, \A s \in peer : h <= s.handle => x <= s.handle
  PROVE  \A r \in Expected(f) : r.handle < h <=> r.handle < x
<1> SUFFICES ASSUME NEW r \in Expected(f), r.handle < x, ~(r.handle < h)
             PROVE  FALSE
  BY ExpectedIn
<1>1. PICK s \in peer : r.handle \in Nat /\ s.handle <= r.handle /\ r.handle < s.end
  BY ExpectedIn
<1>2. s.handle \in Nat /\ s.end \in Nat
  BY DEF IsTable
<1>3. CASE s.handle < h
  BY <1>1, <1>2, <1>3 DEF Between
<1>4. CASE h <= s.handle
  BY <1>1, <1>2, <1>4
<1> QED
  BY <1>2, <1>3, <1>4

\* No service goes on behind the end of a service.
LEMMA EndIsBetween ==
  ASSUME IsTable, SRV_DISC_END_HANDLE \in Nat, NEW s \in peer
  PROVE  Between(s.end) /\ Between(s.end + 1)
<1>1. s.handle \in Nat /\ s.end \in Nat /\ s.handle < s.end
  BY DEF IsTable
<1>2. ASSUME NEW t \in peer, t.handle <= s.end
      PROVE  t.end <= s.end
  <2>1. /\ t.handle \in Nat /\ t.end \in Nat /\ t.handle < t.end
        /\ t # s => t.end < s.handle \/ s.end < t.handle
    BY DEF IsTable
  <2> QED
    BY <1>1, <1>2, <2>1
<1>3. \A t \in peer : t.handle \in Nat /\ t.end \in Nat
  BY DEF IsTable
<1> QED
  BY <1>1, <1>2, <1>3 DEF Between

\* Between the last attribute of a service and its end nothing is expected.
LEMMA NoneAtEnd ==
  ASSUME IsTable, SRV_DISC_END_HANDLE \in Nat, NEW f, NEW s \in peer
  PROVE  \A r \in Expected(f) : r.handle < s.end + 1 <=> r.handle < s.end
<1> SUFFICES ASSUME NEW r \in Expected(f), r.handle = s.end PROVE FALSE
  <2>1. s.end \in Nat /\ \A r \in Expected(f) : r.handle \in Nat
    BY ExpectedIn DEF IsTable
  <2> QED
    BY <2>1
<1>1. PICK t \in peer : t.handle <= r.handle /\ r.handle < t.end
  BY ExpectedIn
<1>2. /\ s.handle \in Nat /\ s.end \in Nat /\ t.handle \in Nat /\ t.end \in Nat
      /\ s.handle < s.end /\ (t # s => t.end < s.handle \/ s.end < t.handle)
  BY DEF IsTable
<1> QED
  BY <1>1, <1>2

\* The service at the index, and what follows it.
LEMMA ServiceIsOver ==
  ASSUME IsTable, SRV_DISC_END_HANDLE \in Nat, NEW d, ServicesIn(d),
         d.serviceIndex < d.numServices, NEW s \in peer,
         d.services[d.serviceIndex].handle = s.handle, d.services[d.serviceIndex].end = s.end,
         NEW x, x.serviceIndex = d.serviceIndex + 1, x.numServices = d.numServices,
         x.services = d.services
  PROVE  /\ NextIn(d) = s.handle /\ NextIn(x) \in Handles /\ s.end < NextIn(x)
         /\ \A t \in peer : s.end + 1 <= t.handle => NextIn(x) <= t.handle
<1>1. PICK n \in Nat, k \in Nat : n = d.numServices /\ k = d.serviceIndex
  BY DiscoveryAssumption DEF ServicesIn, DiscoveryAssumption
<1>2. k < n
  BY <1>1
<1>3. s.handle \in Nat /\ s.end \in Nat /\ s.handle < s.end /\ s.end <= SRV_DISC_END_HANDLE
  BY DEF IsTable
<1>4. NextIn(d) = s.handle
  BY <1>1, <1>2 DEF NextIn
<1>5. CASE k + 1 < n
  <2>1. PICK m \in 0 .. n - 1 : m = k + 1
    BY <1>1, <1>5
  <2>2. NextIn(x) = d.services[m].handle
    BY <1>1, <1>5, <2>1 DEF NextIn
  <2>3. PICK t \in peer : t.handle = d.services[m].handle
    BY <1>1, <2>1 DEF ServicesIn, ServiceAt
  <2>4. /\ k \in 0 .. n - 1 /\ k < m /\ k \in 0 .. n - 2
        /\ Gapless(d.services, n, peer)
    BY <1>1, <1>5, <2>1 DEF ServicesIn
  <2>5. s.handle < t.handle
    BY <1>1, <2>3, <2>4 DEF Gapless
  <2>6. t.handle \in Nat /\ t.end \in Nat /\ t.handle < t.end /\ t.end <= SRV_DISC_END_HANDLE
        /\ (s # t => s.end < t.handle \/ t.end < s.handle)
    BY DEF IsTable
  <2>7. NextIn(x) \in Handles /\ s.end < NextIn(x)
    BY <1>3, <2>2, <2>3, <2>5, <2>6 DEF Handles
  <2>8. ASSUME NEW u \in peer, s.end + 1 <= u.handle
        PROVE  NextIn(x) <= u.handle
    <3>1. u.handle \in Nat
      BY DEF IsTable
    <3>2. d.services[k].handle < u.handle
      BY <1>1, <1>3, <2>8, <3>1
    <3>3. d.services[k + 1].handle <= u.handle
      BY <2>4, <3>2 DEF Gapless
    <3> QED
      BY <2>1, <2>2, <3>3
  <2> QED
    BY <1>4, <2>7, <2>8
<1>6. CASE k + 1 = n
  <2>1. n - 1 = k
    BY <1>6
  <2>2. NextIn(x) = s.end + 1
    BY <1>1, <1>6, <2>1 DEF NextIn
  <2> QED
    BY <1>3, <1>4, <2>2 DEF Handles
<1> QED
  BY <1>1, <1>2, <1>4, <1>5, <1>6

\* A characteristic reaches to the next, or to the end of its service.
LEMMA LastHandleIs ==
  ASSUME IsTable, NEW s \in peer, NEW c \in s.chars
  PROVE  /\ \A b \in s.chars :
              /\ c.handle < b.handle
              /\ \A a \in s.chars : c.handle < a.handle => b.handle <= a.handle
              => LastHandle(s, c) = b.handle - 1
         /\ (\A a \in s.chars : ~(c.handle < a.handle)) => LastHandle(s, c) = s.end
<1> DEFINE L == {b.handle : b \in {a \in s.chars : c.handle < a.handle}}
<1>1. LastHandle(s, c) = IF L = {} THEN s.end ELSE Min(L) - 1
  BY DEF LastHandle
<1>2. ASSUME NEW b \in s.chars, c.handle < b.handle,
             \A a \in s.chars : c.handle < a.handle => b.handle <= a.handle
      PROVE  LastHandle(s, c) = b.handle - 1
  <2>1. b.handle \in L /\ \A x \in L : b.handle <= x
    BY <1>2
  <2>2. \A x \in L : x \in Nat
    BY DEF IsTable
  <2> HIDE DEF L
  <2>3. Min(L) \in L /\ \A x \in L : Min(L) <= x
    BY <2>1 DEF Min
  <2>4. Min(L) = b.handle
    BY <2>1, <2>2, <2>3
  <2> QED
    BY <1>1, <2>1, <2>4
<1>3. (\A a \in s.chars : ~(c.handle < a.handle)) => LastHandle(s, c) = s.end
  BY <1>1
<1> QED
  BY <1>2, <1>3

Queue == INSTANCE FoldFacts WITH Op <- Enqueued

\* The fold of the module is the one of FoldFacts, with Enqueued.
LEMMA QueueFold ==
  \A base, seq : FoldLeft(Enqueued, base, seq) = Queue!FoldLeft(Enqueued, base, seq)
BY DEF FoldLeft, MapThenFoldSet, Max, Queue!FoldLeft, Queue!MapThenFoldSet, Queue!Max

\* The queue has every attribute whose UUID is not in the answer, by its index.
IsQueue(u, found, k) ==
  /\ u \in Seq(0 .. k - 1)
  /\ \A m \in 0 .. k - 1 : found[m + 1].long => m \in Range(u)

\* Unknown queues the indices of the attributes whose UUID is not in the answer.
LEMMA UnknownIs ==
  ASSUME NEW n \in Nat, NEW found
  PROVE  IsQueue(Unknown(found, n), found, n)
<1> DEFINE a == [k \in 1 .. n |-> [index |-> k - 1, long |-> found[k].long]]
<1>1. DOMAIN a = 1 .. n /\ \A k \in 1 .. n : a[k].index = k - 1 /\ a[k].long = found[k].long
  OBVIOUS
<1>2. Unknown(found, n) = FoldLeft(Enqueued, <<>>, a)
  BY DEF Unknown
<1> HIDE DEF a
<1>3. PICK z : Queue!Runs(z, <<>>, a, n) /\ FoldLeft(Enqueued, <<>>, a) = z[n]
  <2>1. \E z : Queue!Runs(z, <<>>, a, n) /\ Queue!FoldLeft(Enqueued, <<>>, a) = z[n]
    BY <1>1, Queue!FoldRuns
  <2> QED
    BY <2>1, QueueFold
<1> DEFINE T == {k \in Nat : k <= n => IsQueue(z[k], found, k)}
<1>4. 0 \in T
  <2>1. z[0] = <<>> /\ 0 .. 0 - 1 = {}
    BY <1>3 DEF Queue!Runs
  <2>2. <<>> \in Seq(0 .. 0 - 1)
    OBVIOUS
  <2> QED
    BY <2>1, <2>2 DEF IsQueue
<1>5. ASSUME NEW k \in Nat, k \in T
      PROVE  k + 1 \in T
  <2> SUFFICES ASSUME k + 1 <= n
               PROVE  IsQueue(z[k + 1], found, k + 1)
    OBVIOUS
  <2>1. k + 1 \in 1 .. n /\ IsQueue(z[k], found, k) /\ (k + 1) - 1 = k
    BY <1>5
  <2>2. /\ z[k + 1] = Enqueued(z[k], a[k + 1])
        /\ a[k + 1].index = k /\ a[k + 1].long = found[k + 1].long
    BY <1>1, <1>3, <2>1 DEF Queue!Runs
  <2>3. z[k] \in Seq(0 .. (k + 1) - 1) /\ k \in 0 .. (k + 1) - 1
    BY <2>1 DEF IsQueue
  <2>4. CASE found[k + 1].long
    <3>1. z[k + 1] = Append(z[k], k)
      BY <2>2, <2>4 DEF Enqueued
    <3>2. z[k + 1] \in Seq(0 .. (k + 1) - 1)
      BY <2>3, <3>1
    <3>3. PICK l \in Nat : l = Len(z[k])
      BY <2>3
    <3>4. /\ DOMAIN z[k] = 1 .. l /\ DOMAIN z[k + 1] = 1 .. l + 1
          /\ \A j \in 1 .. l : z[k + 1][j] = z[k][j]
          /\ z[k + 1][l + 1] = k
      BY <2>3, <3>1, <3>3
    <3>5. k \in Range(z[k + 1]) /\ Range(z[k]) \subseteq Range(z[k + 1])
      <4>1. l + 1 \in 1 .. l + 1 /\ \A j \in 1 .. l : j \in 1 .. l + 1
        OBVIOUS
      <4>2. k \in Range(z[k + 1])
        BY <3>4, <4>1 DEF Range
      <4>3. Range(z[k]) \subseteq Range(z[k + 1])
        BY <3>4, <4>1 DEF Range
      <4> QED
        BY <4>2, <4>3
    <3>6. \A m \in 0 .. (k + 1) - 1 : m = k \/ m \in 0 .. k - 1
      OBVIOUS
    <3> QED
      BY <2>1, <3>2, <3>5, <3>6 DEF IsQueue
  <2>5. CASE ~found[k + 1].long
    <3>1. z[k + 1] = z[k]
      BY <2>2, <2>5 DEF Enqueued
    <3>2. \A m \in 0 .. (k + 1) - 1 : m = k \/ m \in 0 .. k - 1
      OBVIOUS
    <3> QED
      BY <2>1, <2>3, <2>5, <3>1, <3>2 DEF IsQueue
  <2> QED
    BY <2>4, <2>5
<1>6. \A k \in Nat : k \in T
  <2> HIDE DEF T
  <2> QED
    BY <1>4, <1>5, Queue!Induction
<1> QED
  BY <1>2, <1>3, <1>6

-----------------------------------------------------------------------------
\* An answer with services: the first of them are in the cache (setupDiscoveredServices).
LEMMA ServicesCached ==
  ASSUME IsTable, SRV_DISC_END_HANDLE \in Nat, link, NEW d, Open(d),
         d.state = "SERVICE_DISCOVERY_ACTIVE", d.request = NoRequest,
         d.discoveredCharacteristic = None,
         NEW q, FoundIn(q, peer), ToldTo(d, q[1].handle),
         NEW x, x = setupDiscoveredServices(d, q)
  PROVE  AtServices(x) /\ RequestRight(x) /\ x.filter = d.filter /\ x.cut = d.cut
<1>1. PICK n \in Nat : /\ n = Limit(Len(q), BLE_DB_DISCOVERY_MAX_SRV) /\ n <= Len(q)
                       /\ n \in 1 .. BLE_DB_DISCOVERY_MAX_SRV
                       /\ BLE_DB_DISCOVERY_MAX_SRV \in Nat
  BY DiscoveryAssumption DEF DiscoveryAssumption, Limit, FoundIn
<1>2. PICK u : u = Unknown(q, n) /\ IsQueue(u, q, n)
  BY UnknownIs
<1> DEFINE s == CachedServices(d, q, n)
           y == [d EXCEPT !.serviceIndex = 0, !.numServices = n, !.services = s,
                          !.serviceUUIDDiscoveryQueue = u]
<1>3. x = triggerFirstService(y)
  BY <1>1, <1>2 DEF setupDiscoveredServices
<1>4. ASSUME NEW k \in 0 .. n - 1
      PROVE  /\ s[k].handle = q[k + 1].handle /\ s[k].end = q[k + 1].end
             /\ q[k + 1].long \/ s[k].uuid = q[k + 1].uuid
             /\ DOMAIN s[k] = {"uuid", "handle", "end"}
  <2>1. k \in 0 .. BLE_DB_DISCOVERY_MAX_SRV - 1 /\ ~(k >= n)
    BY <1>1
  <2>2. s[k] = [uuid |-> IF q[k + 1].long THEN d.services[k].uuid ELSE q[k + 1].uuid,
                handle |-> q[k + 1].handle, end |-> q[k + 1].end]
    BY <2>1 DEF CachedServices
  <2> QED
    BY <2>2
<1>5. DOMAIN s = 0 .. BLE_DB_DISCOVERY_MAX_SRV - 1
  BY DEF CachedServices
<1> HIDE DEF s
<1>6. /\ y = [m \in Fields |-> y[m]]
      /\ y.serviceIndex = 0 /\ y.numServices = n /\ y.services = s
      /\ y.serviceUUIDDiscoveryQueue = u /\ y.state = d.state /\ y.request = NoRequest
      /\ y.filter = d.filter /\ y.told = d.told /\ y.cut = d.cut
      /\ y.discoveredCharacteristic = None
  BY DEF Open, IsDisc, Fields
<1> HIDE DEF y
<1>7. /\ x.serviceIndex = 0 /\ x.numServices = n /\ x.services = s
      /\ x.filter = d.filter /\ x.told = d.told /\ x.cut = d.cut
      /\ x.discoveredCharacteristic = None
  BY <1>3, <1>6 DEF triggerFirstService, Fields
<1>8. \/ /\ x.state = "DISCOVER_SERVICE_UUIDS" /\ x.serviceUUIDDiscoveryQueue = u
         /\ x.request.kind = "uuid" /\ x.request.of = "service"
      \/ x.state = "SERVICE_DISCOVERY_ACTIVE" /\ x.request = NoRequest /\ u = <<>>
  <2>1. CASE u # <<>>
    <3>1. x.state = "DISCOVER_SERVICE_UUIDS" /\ x.serviceUUIDDiscoveryQueue = u
          /\ x.request = ReadUUID("service", y.services[Head(u)].handle)
      BY <1>3, <1>6, <2>1 DEF triggerFirstService, Fields, Accepts
    <3> QED
      BY <3>1 DEF ReadUUID
  <2>2. CASE u = <<>>
    BY <1>3, <1>6, <2>2 DEF triggerFirstService, Fields, Accepts
  <2> QED
    BY <2>1, <2>2
<1>9. ASSUME NEW k \in 0 .. n - 1
      PROVE  q[k + 1] \in peer /\ ServiceAt(x, k, q[k + 1])
  <2>1. k + 1 \in 1 .. Len(q)
    BY <1>1 DEF FoundIn
  <2>2. q[k + 1] \in peer
    BY <2>1 DEF FoundIn
  <2>3. /\ x.services[k].handle = q[k + 1].handle /\ x.services[k].end = q[k + 1].end
        /\ q[k + 1].long \/ x.services[k].uuid = q[k + 1].uuid
        /\ DOMAIN x.services[k] = {"uuid", "handle", "end"}
    BY <1>4, <1>7
  <2>4. q[k + 1].long => Reads(x, "DISCOVER_SERVICE_UUIDS", x.serviceUUIDDiscoveryQueue, k)
    <3>1. q[k + 1].long => k \in Range(u)
      BY <1>2 DEF IsQueue
    <3>2. k \in Range(u) => u # <<>>
      BY DEF Range
    <3> QED
      BY <1>8, <3>1, <3>2 DEF Reads
  <2> QED
    BY <2>2, <2>3, <2>4 DEF ServiceAt
<1>10. ServicesIn(x)
  <2>1. Gapless(x.services, x.numServices, peer)
    <3>1. ASSUME NEW j \in 0 .. n - 1, NEW k \in 0 .. n - 1, j < k
          PROVE  s[j].handle < s[k].handle
      <4>1. j + 1 \in 1 .. Len(q) /\ k + 1 \in 1 .. Len(q) /\ j + 1 < k + 1
        BY <1>1, <3>1 DEF FoundIn
      <4>2. q[j + 1].handle < q[k + 1].handle
        BY <4>1 DEF FoundIn
      <4> QED
        BY <1>4, <4>2
    <3>2. ASSUME NEW k \in 0 .. n - 2, NEW a \in peer, s[k].handle < a.handle
          PROVE  s[k + 1].handle <= a.handle
      <4>1. PICK j \in 1 .. Len(q) - 1 : j = k + 1
        BY <1>1 DEF FoundIn
      <4>2. q[j].handle < a.handle => q[j + 1].handle <= a.handle
        BY DEF FoundIn
      <4>3. k \in 0 .. n - 1 /\ j \in 0 .. n - 1
        BY <4>1
      <4>4. s[k].handle = q[j].handle /\ s[j].handle = q[j + 1].handle
        BY <1>4, <4>1, <4>3
      <4> QED
        BY <3>2, <4>1, <4>2, <4>4
    <3> QED
      BY <1>7, <3>1, <3>2 DEF Gapless
  <2>2. \A k \in 0 .. n - 1 : \E t \in peer : ServiceAt(x, k, t)
    BY <1>9
  <2>3. x.state = "DISCOVER_SERVICE_UUIDS" => x.serviceUUIDDiscoveryQueue \in Seq(0 .. n - 1)
    BY <1>2, <1>8 DEF IsQueue
  <2> QED
    BY <1>1, <1>5, <1>7, <2>1, <2>2, <2>3 DEF ServicesIn
<1>11. ToldTo(x, NextIn(x))
  <2>1. 0 \in 0 .. n - 1
    BY <1>1
  <2>2. NextIn(x) = s[0].handle
    BY <1>1, <1>7 DEF NextIn
  <2>3. NextIn(x) = q[1].handle
    BY <1>4, <2>1, <2>2
  <2> QED
    BY <1>7, <2>3 DEF ToldTo, InOrder, Heard
<1>12. AtServices(x)
  BY <1>7, <1>8, <1>10, <1>11 DEF AtServices
<1>13. RequestRight(x)
  BY <1>8 DEF RequestRight, NoRequest, OfIts
<1> QED
  BY <1>7, <1>12, <1>13

\* What is told does not depend on where the discovery is.
LEMMA ToldStays ==
  ASSUME NEW d, NEW e, e.told = d.told, e.filter = d.filter, NEW h, ToldTo(d, h)
  PROVE  ToldTo(e, h)
BY DEF ToldTo, InOrder, Heard

\* A step that leaves the cache of the services alone.
LEMMA ServicesStay ==
  ASSUME NEW d, ServicesIn(d), d.state # "DISCOVER_SERVICE_UUIDS",
         NEW x, x.state # "DISCOVER_SERVICE_UUIDS", x.services = d.services,
         x.numServices = d.numServices, x.serviceIndex \in 0 .. d.numServices
  PROVE  ServicesIn(x)
<1>1. ASSUME NEW k, NEW s, ServiceAt(d, k, s)
      PROVE  ServiceAt(x, k, s)
  BY <1>1 DEF ServiceAt, Reads
<1> QED
  BY <1>1 DEF ServicesIn

\* A step that leaves the service at the index alone.
LEMMA InServiceStays ==
  ASSUME NEW d, NEW s, InService(d, s), d.state # "DISCOVER_SERVICE_UUIDS",
         NEW x, x.state # "DISCOVER_SERVICE_UUIDS", x.services = d.services,
         x.numServices = d.numServices, x.serviceIndex = d.serviceIndex, x.filter = d.filter
  PROVE  InService(x, s)
<1>1. d.serviceIndex \in 0 .. d.numServices
  BY DEF InService, ServicesIn
<1>2. ServicesIn(x)
  BY <1>1, ServicesStay DEF InService
<1> QED
  BY <1>2 DEF InService

\* A step that leaves the handles of the characteristics alone.
LEMMA CharacteristicsStay ==
  ASSUME NEW d, NEW s, CharacteristicsIn(d, s), d.state # "DISCOVER_CHARACTERISTIC_UUIDS",
         NEW x, x.state # "DISCOVER_CHARACTERISTIC_UUIDS",
         x.numCharacteristics = d.numCharacteristics,
         DOMAIN x.characteristics = DOMAIN d.characteristics,
         \A k \in 0 .. d.numCharacteristics - 1 :
           /\ x.characteristics[k].handle = d.characteristics[k].handle
           /\ x.characteristics[k].value = d.characteristics[k].value
           /\ x.characteristics[k].uuid = d.characteristics[k].uuid
           /\ DOMAIN x.characteristics[k] = DOMAIN d.characteristics[k]
  PROVE  CharacteristicsIn(x, s)
<1>1. ASSUME NEW k \in 0 .. d.numCharacteristics - 1, NEW c, CharacteristicAt(d, k, s, c)
      PROVE  CharacteristicAt(x, k, s, c)
  BY <1>1 DEF CharacteristicAt, Reads
<1>2. PICK n \in Nat : n = d.numCharacteristics
  BY DiscoveryAssumption DEF CharacteristicsIn, DiscoveryAssumption
<1>3. \A k \in 0 .. n - 2 : k \in 0 .. n - 1 /\ k + 1 \in 0 .. n - 1
  OBVIOUS
<1>4. Gapless(x.characteristics, n, s.chars)
  BY <1>2, <1>3 DEF CharacteristicsIn, Gapless
<1> QED
  BY <1>1, <1>2, <1>4 DEF CharacteristicsIn

\* A step that tells nothing.
LEMMA PositionStays ==
  ASSUME NEW d, NEW s, NEW h, Position(d, s, h),
         NEW x, x.told = d.told, x.filter = d.filter,
         x.discoveredCharacteristic = d.discoveredCharacteristic
  PROVE  Position(x, s, h)
<1>1. ASSUME NEW y, ToldTo(d, y)
      PROVE  ToldTo(x, y)
  BY <1>1, ToldStays
<1> QED
  BY <1>1 DEF Position, Through, Kept

\* Where the discovery is in a service, it has told all before.
LEMMA PositionTells ==
  ASSUME NEW d, NEW s, NEW h, Position(d, s, h)
  PROVE  Telling(d)
BY DEF Position, Through, Kept, Telling, ToldTo

\* An answer with characteristics: the first of them are in the cache
\* (setupDiscoveredCharacteristics).
LEMMA CharacteristicsCached ==
  ASSUME IsTable, SRV_DISC_END_HANDLE \in Nat, link, NEW d, Open(d),
         d.state = "CHARACTERISTIC_DISCOVERY_ACTIVE", d.request = NoRequest,
         NEW s \in peer, NEW q, FoundIn(q, s.chars), Asking(d, s, q[1].handle),
         NEW x, x = setupDiscoveredCharacteristics(d, q)
  PROVE  /\ HasCharacteristics(x, s, "progressCharacteristicDiscovery", 0)
         /\ RequestRight(x) /\ Telling(x) /\ x.filter = d.filter /\ x.cut = d.cut
<1>1. PICK n \in Nat : /\ n = Limit(Len(q), BLE_DB_DISCOVERY_MAX_CHAR_PER_SRV) /\ n <= Len(q)
                       /\ n \in 1 .. BLE_DB_DISCOVERY_MAX_CHAR_PER_SRV
                       /\ BLE_DB_DISCOVERY_MAX_CHAR_PER_SRV \in Nat
  BY DiscoveryAssumption DEF DiscoveryAssumption, Limit, FoundIn
<1>2. PICK u : u = Unknown(q, n) /\ IsQueue(u, q, n)
  BY UnknownIs
<1> DEFINE t == CachedCharacteristics(d, q, n)
           y == [d EXCEPT !.numCharacteristics = n, !.characteristics = t,
                          !.charUUIDDiscoveryQueue = u]
<1>3. x = triggerFirstChar(y)
  BY <1>1, <1>2 DEF setupDiscoveredCharacteristics
<1>4. ASSUME NEW k \in 0 .. n - 1
      PROVE  /\ t[k].handle = q[k + 1].handle /\ t[k].value = q[k + 1].value
             /\ q[k + 1].long \/ t[k].uuid = q[k + 1].uuid
             /\ DOMAIN t[k] = CharacteristicFields
  <2>1. k \in 0 .. BLE_DB_DISCOVERY_MAX_CHAR_PER_SRV - 1 /\ ~(k >= n)
    BY <1>1
  <2>2. t[k] = [uuid |-> IF q[k + 1].long THEN d.characteristics[k].uuid ELSE q[k + 1].uuid,
                handle |-> q[k + 1].handle, value |-> q[k + 1].value,
                last |-> d.characteristics[k].last]
    BY <2>1 DEF CachedCharacteristics
  <2> QED
    BY <2>2 DEF CharacteristicFields
<1>5. DOMAIN t = 0 .. BLE_DB_DISCOVERY_MAX_CHAR_PER_SRV - 1
  BY DEF CachedCharacteristics
<1> HIDE DEF t
<1>6. /\ y = [m \in Fields |-> y[m]]
      /\ y.numCharacteristics = n /\ y.characteristics = t /\ y.services = d.services
      /\ y.numServices = d.numServices /\ y.serviceIndex = d.serviceIndex
      /\ y.charUUIDDiscoveryQueue = u /\ y.state = d.state /\ y.request = NoRequest
      /\ y.filter = d.filter /\ y.told = d.told /\ y.cut = d.cut
      /\ y.discoveredCharacteristic = d.discoveredCharacteristic
  BY DEF Open, IsDisc, Fields
<1> HIDE DEF y
<1>7. /\ x.numCharacteristics = n /\ x.characteristics = t /\ x.services = d.services
      /\ x.numServices = d.numServices /\ x.serviceIndex = d.serviceIndex
      /\ x.filter = d.filter /\ x.told = d.told /\ x.cut = d.cut
      /\ x.discoveredCharacteristic = d.discoveredCharacteristic
  BY <1>3, <1>6 DEF triggerFirstChar, Fields
<1>8. \/ /\ x.state = "DISCOVER_CHARACTERISTIC_UUIDS" /\ x.charUUIDDiscoveryQueue = u
         /\ x.request.kind = "uuid" /\ x.request.of = "characteristic"
      \/ x.state = "CHARACTERISTIC_DISCOVERY_ACTIVE" /\ x.request = NoRequest /\ u = <<>>
  <2>1. CASE u # <<>>
    <3>1. x.state = "DISCOVER_CHARACTERISTIC_UUIDS" /\ x.charUUIDDiscoveryQueue = u
          /\ x.request = ReadUUID("characteristic", y.characteristics[Head(u)].handle)
      BY <1>3, <1>6, <2>1 DEF triggerFirstChar, Fields, Accepts
    <3> QED
      BY <3>1 DEF ReadUUID
  <2>2. CASE u = <<>>
    BY <1>3, <1>6, <2>2 DEF triggerFirstChar, Fields, Accepts
  <2> QED
    BY <2>1, <2>2
<1>9. ASSUME NEW k \in 0 .. n - 1
      PROVE  q[k + 1] \in s.chars /\ CharacteristicAt(x, k, s, q[k + 1])
  <2>1. k + 1 \in 1 .. Len(q)
    BY <1>1 DEF FoundIn
  <2>2. q[k + 1] \in s.chars
    BY <2>1 DEF FoundIn
  <2>3. /\ x.characteristics[k].handle = q[k + 1].handle
        /\ x.characteristics[k].value = q[k + 1].value
        /\ q[k + 1].long \/ x.characteristics[k].uuid = q[k + 1].uuid
        /\ DOMAIN x.characteristics[k] = CharacteristicFields
    BY <1>4, <1>7
  <2>4. q[k + 1].long => Reads(x, "DISCOVER_CHARACTERISTIC_UUIDS", x.charUUIDDiscoveryQueue, k)
    <3>1. q[k + 1].long => k \in Range(u)
      BY <1>2 DEF IsQueue
    <3>2. k \in Range(u) => u # <<>>
      BY DEF Range
    <3> QED
      BY <1>8, <3>1, <3>2 DEF Reads
  <2> QED
    BY <2>2, <2>3, <2>4 DEF CharacteristicAt
<1>10. CharacteristicsIn(x, s)
  <2>1. Gapless(x.characteristics, x.numCharacteristics, s.chars)
    <3>1. ASSUME NEW j \in 0 .. n - 1, NEW k \in 0 .. n - 1, j < k
          PROVE  t[j].handle < t[k].handle
      <4>1. j + 1 \in 1 .. Len(q) /\ k + 1 \in 1 .. Len(q) /\ j + 1 < k + 1
        BY <1>1, <3>1 DEF FoundIn
      <4>2. q[j + 1].handle < q[k + 1].handle
        BY <4>1 DEF FoundIn
      <4> QED
        BY <1>4, <4>2
    <3>2. ASSUME NEW k \in 0 .. n - 2, NEW a \in s.chars, t[k].handle < a.handle
          PROVE  t[k + 1].handle <= a.handle
      <4>1. PICK j \in 1 .. Len(q) - 1 : j = k + 1
        BY <1>1 DEF FoundIn
      <4>2. q[j].handle < a.handle => q[j + 1].handle <= a.handle
        BY DEF FoundIn
      <4>3. k \in 0 .. n - 1 /\ j \in 0 .. n - 1
        BY <4>1
      <4>4. t[k].handle = q[j].handle /\ t[j].handle = q[j + 1].handle
        BY <1>4, <4>1, <4>3
      <4> QED
        BY <3>2, <4>1, <4>2, <4>4
    <3> QED
      BY <1>7, <3>1, <3>2 DEF Gapless
  <2>2. \A k \in 0 .. n - 1 : \E c \in s.chars : CharacteristicAt(x, k, s, c)
    BY <1>9
  <2>3. x.state = "DISCOVER_CHARACTERISTIC_UUIDS" => x.charUUIDDiscoveryQueue \in Seq(0 .. n - 1)
    BY <1>2, <1>8 DEF IsQueue
  <2> QED
    BY <1>1, <1>5, <1>7, <2>1, <2>2, <2>3 DEF CharacteristicsIn
<1>11. Position(x, s, x.characteristics[0].handle) /\ Telling(x)
  <2>1. 0 \in 0 .. n - 1 /\ 0 + 1 = 1
    BY <1>1
  <2>2. x.characteristics[0].handle = q[1].handle
    BY <1>4, <1>7, <2>1
  <2>3. Position(x, s, q[1].handle)
    BY <1>7, PositionStays DEF Asking
  <2> QED
    BY <2>2, <2>3, PositionTells
<1>12. InService(x, s)
  BY <1>7, <1>8, InServiceStays DEF Asking
<1>13. HasCharacteristics(x, s, "progressCharacteristicDiscovery", 0)
  BY <1>8, <1>10, <1>11, <1>12 DEF HasCharacteristics, Walk
<1>14. RequestRight(x)
  BY <1>8 DEF RequestRight, NoRequest, OfIts
<1> QED
  BY <1>7, <1>11, <1>13, <1>14

\* Handles are of one attribute, so what the peer tells of a handle is its UUID.
LEMMA UUIDIs ==
  ASSUME IsTable, NEW s \in peer
  PROVE  UUIDAt(s.handle) = s.uuid /\ \A c \in s.chars : UUIDAt(c.handle) = c.uuid
<1>1. s.handle \in Nat /\ s.end \in Nat /\ s.handle < s.end
  BY DEF IsTable
<1>2. ASSUME NEW t \in peer
      PROVE  /\ t.handle \in Nat /\ t.end \in Nat /\ t.handle < t.end
             /\ t # s => s.end < t.handle \/ t.end < s.handle
             /\ \A c \in t.chars : /\ c.handle \in Nat /\ c.value \in Nat
                                   /\ t.handle < c.handle /\ c.handle < c.value /\ c.value <= t.end
  BY DEF IsTable
<1>3. ASSUME NEW a \in peer \cup AllCharacteristics
      PROVE  a \in peer \/ \E t \in peer : a \in t.chars
  BY DEF AllCharacteristics
<1>4. UUIDAt(s.handle) = s.uuid
  <2>1. ASSUME NEW a \in peer \cup AllCharacteristics, a.handle = s.handle
        PROVE  a = s
    <3>1. CASE a \in peer
      BY <1>1, <1>2, <2>1, <3>1
    <3>2. ASSUME NEW t \in peer, a \in t.chars
          PROVE  FALSE
      <4>1. /\ a.handle \in Nat /\ a.value \in Nat
            /\ t.handle < a.handle /\ a.handle < a.value /\ a.value <= t.end
        BY <1>2, <3>2
      <4> QED
        BY <1>1, <1>2, <2>1, <4>1
    <3> QED
      BY <1>3, <3>1, <3>2
  <2>2. s \in peer \cup AllCharacteristics
    OBVIOUS
  <2>3. (CHOOSE a \in peer \cup AllCharacteristics : a.handle = s.handle) = s
    BY <2>1, <2>2
  <2> QED
    BY <2>3 DEF UUIDAt
<1>5. ASSUME NEW c \in s.chars
      PROVE  UUIDAt(c.handle) = c.uuid
  <2>0. /\ c.handle \in Nat /\ c.value \in Nat
        /\ s.handle < c.handle /\ c.handle < c.value /\ c.value <= s.end
    BY <1>2
  <2>1. ASSUME NEW a \in peer \cup AllCharacteristics, a.handle = c.handle
        PROVE  a = c
    <3>1. CASE a \in peer
      BY <1>1, <1>2, <2>0, <2>1, <3>1
    <3>2. ASSUME NEW t \in peer, a \in t.chars
          PROVE  a = c
      <4>1. /\ a.handle \in Nat /\ a.value \in Nat
            /\ t.handle < a.handle /\ a.handle < a.value /\ a.value <= t.end
        BY <1>2, <3>2
      <4>2. t = s
        BY <1>1, <1>2, <2>0, <2>1, <4>1
      <4>3. a # c => c.value < a.handle \/ a.value < c.handle
        BY <3>2, <4>2 DEF IsTable
      <4> QED
        BY <2>0, <2>1, <4>1, <4>3
    <3> QED
      BY <1>3, <3>1, <3>2
  <2>2. c \in peer \cup AllCharacteristics
    BY DEF AllCharacteristics
  <2>3. (CHOOSE a \in peer \cup AllCharacteristics : a.handle = c.handle) = c
    BY <2>1, <2>2
  <2> QED
    BY <2>3 DEF UUIDAt
<1> QED
  BY <1>4, <1>5

\* The head of a queue is taken off.
LEMMA QueueTail ==
  ASSUME NEW n, NEW u \in Seq(0 .. n - 1), u # <<>>
  PROVE  /\ Head(u) \in 0 .. n - 1 /\ Tail(u) \in Seq(0 .. n - 1)
         /\ \A k \in Range(u) : k = Head(u) \/ k \in Range(Tail(u))
<1>1. PICK l \in Nat : l = Len(u)
  OBVIOUS
<1>2. l # 0 /\ DOMAIN u = 1 .. l /\ Head(u) = u[1]
  BY <1>1
<1>3. /\ Tail(u) \in Seq(0 .. n - 1) /\ DOMAIN Tail(u) = 1 .. l - 1
      /\ \A j \in 1 .. l - 1 : Tail(u)[j] = u[j + 1]
  BY <1>1, <1>2
<1>4. ASSUME NEW j \in 1 .. l, j # 1
      PROVE  u[j] \in Range(Tail(u))
  <2>1. PICK m \in 1 .. l - 1 : m + 1 = j
    <3>1. j - 1 \in 1 .. l - 1 /\ (j - 1) + 1 = j
      BY <1>4
    <3> QED
      BY <3>1
  <2>2. Tail(u)[m] = u[j] /\ m \in DOMAIN Tail(u)
    BY <1>3, <2>1
  <2> QED
    BY <2>2 DEF Range
<1>5. Head(u) \in 0 .. n - 1
  <2>1. PICK T : T = 0 .. n - 1
    OBVIOUS
  <2>2. u \in Seq(T) /\ 1 \in 1 .. Len(u)
    BY <1>1, <1>2, <2>1
  <2>3. u[1] \in T
    BY <2>2
  <2> QED
    BY <1>2, <2>1, <2>3
<1>6. \A k \in Range(u) : k = Head(u) \/ k \in Range(Tail(u))
  <2>1. PICK r, w : r = Range(Tail(u)) /\ w = Head(u)
    OBVIOUS
  <2>2. \A k \in Range(u) : \E j \in 1 .. l : k = u[j]
    BY <1>2 DEF Range
  <2>3. \A j \in 1 .. l : u[j] = w \/ u[j] \in r
    BY <1>2, <1>4, <2>1
  <2>4. \A k \in Range(u) : k = w \/ k \in r
    BY <2>2, <2>3
  <2> QED
    BY <2>1, <2>4
<1> QED
  BY <1>3, <1>5, <1>6

\* The answer to the read of a service's UUID is that of the service in the cache.
LEMMA ServiceUUIDRead ==
  ASSUME IsTable, SRV_DISC_END_HANDLE \in Nat, link, NEW d, Open(d), AtServices(d),
         d.state = "DISCOVER_SERVICE_UUIDS", d.request = NoRequest,
         NEW e, e.ok, e.of = "service", MeetsIndex(d, e.handle), e.uuid = UUIDAt(e.handle),
         NEW x, x = processDiscoverUUIDResponse(d, e)
  PROVE  AtServices(x) /\ RequestRight(x) /\ x.filter = d.filter /\ x.cut = d.cut
<1>1. PICK n \in Nat : n = d.numServices
  BY DiscoveryAssumption DEF AtServices, ServicesIn, DiscoveryAssumption
<1>2. PICK u : u = d.serviceUUIDDiscoveryQueue
  OBVIOUS
<1>3. u \in Seq(0 .. n - 1) /\ u # <<>>
  BY <1>1, <1>2 DEF AtServices, ServicesIn, MeetsIndex
<1>4. PICK h \in 0 .. n - 1 : h = Head(u)
  BY <1>3, QueueTail
<1>5. d.services[h].handle = e.handle
  BY <1>2, <1>4 DEF MeetsIndex
<1>6. PICK v : v = Tail(u) /\ v \in Seq(0 .. n - 1) /\ \A k \in Range(u) : k = h \/ k \in Range(v)
  BY <1>3, <1>4, QueueTail
<1>7. PICK t : t = [d.services EXCEPT ![h].uuid = e.uuid]
  OBVIOUS
<1> DEFINE y == [d EXCEPT !.serviceUUIDDiscoveryQueue = v, !.services = t]
<1>8. x = triggerFirstService(y)
  <2>1. [[d EXCEPT !.serviceUUIDDiscoveryQueue = Tail(@)] EXCEPT !.services[Head(u)].uuid = e.uuid]
          = [d EXCEPT !.serviceUUIDDiscoveryQueue = v, !.services = t]
    BY <1>2, <1>4, <1>6, <1>7 DEF Open, IsDisc, Fields
  <2> QED
    BY <1>2, <2>1 DEF processDiscoverUUIDResponse
<1>9. /\ DOMAIN t = DOMAIN d.services
      /\ \A k \in 0 .. n - 1 :
           /\ t[k].handle = d.services[k].handle /\ t[k].end = d.services[k].end
           /\ DOMAIN t[k] = DOMAIN d.services[k]
           /\ k # h => t[k].uuid = d.services[k].uuid
           /\ k = h => t[k].uuid = e.uuid
  <2>1. \A k \in 0 .. n - 1 : k \in DOMAIN d.services
    BY <1>1, DiscoveryAssumption DEF AtServices, ServicesIn, DiscoveryAssumption
  <2>2. \A k \in 0 .. n - 1 : DOMAIN d.services[k] = {"uuid", "handle", "end"}
    BY <1>1 DEF AtServices, ServicesIn, ServiceAt
  <2>3. DOMAIN t = DOMAIN d.services /\ t[h] = [d.services[h] EXCEPT !.uuid = e.uuid]
        /\ \A k \in 0 .. n - 1 : k # h => t[k] = d.services[k]
    BY <1>7, <2>1
  <2>4. /\ t[h].handle = d.services[h].handle /\ t[h].end = d.services[h].end
        /\ DOMAIN t[h] = DOMAIN d.services[h] /\ t[h].uuid = e.uuid
    BY <2>2, <2>3
  <2> QED
    BY <2>3, <2>4
<1>10. /\ y = [m \in Fields |-> y[m]]
       /\ y.serviceIndex = d.serviceIndex /\ y.numServices = n /\ y.services = t
       /\ y.serviceUUIDDiscoveryQueue = v /\ y.state = d.state /\ y.request = NoRequest
       /\ y.filter = d.filter /\ y.told = d.told /\ y.cut = d.cut
       /\ y.discoveredCharacteristic = d.discoveredCharacteristic
  BY <1>1 DEF Open, IsDisc, Fields
<1> HIDE DEF y
<1>11. /\ x.serviceIndex = d.serviceIndex /\ x.numServices = n /\ x.services = t
       /\ x.filter = d.filter /\ x.told = d.told /\ x.cut = d.cut
       /\ x.discoveredCharacteristic = d.discoveredCharacteristic
  BY <1>8, <1>10 DEF triggerFirstService, Fields
<1>12. \/ /\ x.state = "DISCOVER_SERVICE_UUIDS" /\ x.serviceUUIDDiscoveryQueue = v
          /\ x.request.kind = "uuid" /\ x.request.of = "service"
       \/ x.state = "SERVICE_DISCOVERY_ACTIVE" /\ x.request = NoRequest /\ v = <<>>
  <2>1. CASE v # <<>>
    <3>1. x.state = "DISCOVER_SERVICE_UUIDS" /\ x.serviceUUIDDiscoveryQueue = v
          /\ x.request = ReadUUID("service", y.services[Head(v)].handle)
      BY <1>8, <1>10, <2>1 DEF triggerFirstService, Fields, Accepts
    <3> QED
      BY <3>1 DEF ReadUUID
  <2>2. CASE v = <<>>
    BY <1>8, <1>10, <2>2 DEF triggerFirstService, Fields, Accepts
  <2> QED
    BY <2>1, <2>2
<1>13. ASSUME NEW k \in 0 .. n - 1, NEW s \in peer, ServiceAt(d, k, s)
       PROVE  ServiceAt(x, k, s)
  <2>1. /\ x.services[k].handle = s.handle /\ x.services[k].end = s.end
        /\ DOMAIN x.services[k] = {"uuid", "handle", "end"}
    BY <1>9, <1>11, <1>13 DEF ServiceAt
  <2>2. CASE k = h
    <3>1. UUIDAt(e.handle) = s.uuid
      BY <1>5, <1>13, <2>2, UUIDIs DEF ServiceAt
    <3> QED
      BY <1>9, <1>11, <2>1, <2>2, <3>1 DEF ServiceAt
  <2>3. CASE k # h
    <3>1. x.services[k].uuid = d.services[k].uuid
      BY <1>9, <1>11, <2>3
    <3>2. k \in Range(u) => Reads(x, "DISCOVER_SERVICE_UUIDS", x.serviceUUIDDiscoveryQueue, k)
      <4>1. k \in Range(u) => k \in Range(v)
        BY <1>6, <2>3
      <4>2. k \in Range(v) => v # <<>>
        BY DEF Range
      <4> QED
        BY <1>12, <4>1, <4>2 DEF Reads
    <3> QED
      BY <1>2, <1>13, <2>1, <3>1, <3>2 DEF ServiceAt, Reads
  <2> QED
    BY <2>2, <2>3
<1>14. ServicesIn(x)
  <2>1. Gapless(x.services, x.numServices, peer)
    <3>1. \A k \in 0 .. n - 2 : k \in 0 .. n - 1 /\ k + 1 \in 0 .. n - 1
      OBVIOUS
    <3> QED
      BY <1>1, <1>9, <1>11, <3>1 DEF AtServices, ServicesIn, Gapless
  <2>2. x.state = "DISCOVER_SERVICE_UUIDS" => x.serviceUUIDDiscoveryQueue \in Seq(0 .. n - 1)
    BY <1>6, <1>12
  <2> QED
    BY <1>1, <1>9, <1>11, <1>13, <2>1, <2>2 DEF AtServices, ServicesIn
<1>15. ToldTo(x, NextIn(x))
  <2>1. NextIn(x) = NextIn(d)
    <3>1. n - 1 \in 0 .. n - 1 /\ d.serviceIndex \in 0 .. n
      BY <1>1 DEF AtServices, ServicesIn
    <3>2. PICK m : m = n - 1
      OBVIOUS
    <3> QED
      BY <1>1, <1>9, <1>11, <3>1, <3>2 DEF NextIn
  <2> QED
    BY <1>11, <2>1, ToldStays DEF AtServices
<1>16. AtServices(x)
  BY <1>11, <1>12, <1>14, <1>15 DEF AtServices
<1>17. RequestRight(x)
  BY <1>12 DEF RequestRight, NoRequest, OfIts
<1> QED
  BY <1>11, <1>16, <1>17

\* The answer to the read of a characteristic's UUID is that of the one in the cache.
LEMMA CharacteristicUUIDRead ==
  ASSUME IsTable, SRV_DISC_END_HANDLE \in Nat, link, NEW d, Open(d), NEW s \in peer,
         HasCharacteristics(d, s, "idle", 0),
         d.state = "DISCOVER_CHARACTERISTIC_UUIDS", d.request = NoRequest,
         NEW e, e.ok, e.of = "characteristic", MeetsIndex(d, e.handle), e.uuid = UUIDAt(e.handle),
         NEW x, x = processDiscoverUUIDResponse(d, e)
  PROVE  /\ HasCharacteristics(x, s, "progressCharacteristicDiscovery", 0)
         /\ RequestRight(x) /\ Telling(x) /\ x.filter = d.filter /\ x.cut = d.cut
<1>0. CharacteristicsIn(d, s) /\ InService(d, s) /\ Position(d, s, d.characteristics[0].handle)
  BY DEF HasCharacteristics
<1>1. PICK n \in Nat : n = d.numCharacteristics /\ n > 0
  BY <1>0, DiscoveryAssumption DEF CharacteristicsIn, DiscoveryAssumption
<1>2. PICK u : u = d.charUUIDDiscoveryQueue
  OBVIOUS
<1>3. u \in Seq(0 .. n - 1) /\ u # <<>>
  BY <1>0, <1>1, <1>2 DEF CharacteristicsIn, MeetsIndex
<1>4. PICK h \in 0 .. n - 1 : h = Head(u)
  BY <1>3, QueueTail
<1>5. d.characteristics[h].handle = e.handle
  BY <1>2, <1>4 DEF MeetsIndex
<1>6. PICK v : v = Tail(u) /\ v \in Seq(0 .. n - 1) /\ \A k \in Range(u) : k = h \/ k \in Range(v)
  BY <1>3, <1>4, QueueTail
<1>7. PICK t : t = [d.characteristics EXCEPT ![h].uuid = e.uuid]
  OBVIOUS
<1> DEFINE y == [d EXCEPT !.charUUIDDiscoveryQueue = v, !.characteristics = t]
<1>8. x = triggerFirstChar(y)
  <2>1. [[d EXCEPT !.charUUIDDiscoveryQueue = Tail(@)] EXCEPT !.characteristics[Head(u)].uuid = e.uuid]
          = [d EXCEPT !.charUUIDDiscoveryQueue = v, !.characteristics = t]
    BY <1>2, <1>4, <1>6, <1>7 DEF Open, IsDisc, Fields
  <2> QED
    BY <1>2, <2>1 DEF processDiscoverUUIDResponse
<1>9. /\ DOMAIN t = DOMAIN d.characteristics
      /\ \A k \in 0 .. n - 1 :
           /\ t[k].handle = d.characteristics[k].handle
           /\ t[k].value = d.characteristics[k].value
           /\ DOMAIN t[k] = DOMAIN d.characteristics[k]
           /\ k # h => t[k].uuid = d.characteristics[k].uuid
           /\ k = h => t[k].uuid = e.uuid
  <2>1. \A k \in 0 .. n - 1 : k \in DOMAIN d.characteristics
    BY <1>0, <1>1, DiscoveryAssumption DEF CharacteristicsIn, DiscoveryAssumption
  <2>2. \A k \in 0 .. n - 1 : DOMAIN d.characteristics[k] = {"uuid", "handle", "value", "last"}
    BY <1>0, <1>1 DEF CharacteristicsIn, CharacteristicAt, CharacteristicFields
  <2>3. DOMAIN t = DOMAIN d.characteristics /\ t[h] = [d.characteristics[h] EXCEPT !.uuid = e.uuid]
        /\ \A k \in 0 .. n - 1 : k # h => t[k] = d.characteristics[k]
    BY <1>7, <2>1
  <2>4. /\ t[h].handle = d.characteristics[h].handle /\ t[h].value = d.characteristics[h].value
        /\ DOMAIN t[h] = DOMAIN d.characteristics[h] /\ t[h].uuid = e.uuid
    BY <2>2, <2>3
  <2> QED
    BY <2>3, <2>4
<1>10. /\ y = [m \in Fields |-> y[m]]
       /\ y.numCharacteristics = n /\ y.characteristics = t /\ y.services = d.services
       /\ y.numServices = d.numServices /\ y.serviceIndex = d.serviceIndex
       /\ y.charUUIDDiscoveryQueue = v /\ y.state = d.state /\ y.request = NoRequest
       /\ y.filter = d.filter /\ y.told = d.told /\ y.cut = d.cut
       /\ y.discoveredCharacteristic = d.discoveredCharacteristic
  BY <1>1 DEF Open, IsDisc, Fields
<1> HIDE DEF y
<1>11. /\ x.numCharacteristics = n /\ x.characteristics = t /\ x.services = d.services
       /\ x.numServices = d.numServices /\ x.serviceIndex = d.serviceIndex
       /\ x.filter = d.filter /\ x.told = d.told /\ x.cut = d.cut
       /\ x.discoveredCharacteristic = d.discoveredCharacteristic
  BY <1>8, <1>10 DEF triggerFirstChar, Fields
<1>12. \/ /\ x.state = "DISCOVER_CHARACTERISTIC_UUIDS" /\ x.charUUIDDiscoveryQueue = v
          /\ x.request.kind = "uuid" /\ x.request.of = "characteristic"
       \/ x.state = "CHARACTERISTIC_DISCOVERY_ACTIVE" /\ x.request = NoRequest /\ v = <<>>
  <2>1. CASE v # <<>>
    <3>1. x.state = "DISCOVER_CHARACTERISTIC_UUIDS" /\ x.charUUIDDiscoveryQueue = v
          /\ x.request = ReadUUID("characteristic", y.characteristics[Head(v)].handle)
      BY <1>8, <1>10, <2>1 DEF triggerFirstChar, Fields, Accepts
    <3> QED
      BY <3>1 DEF ReadUUID
  <2>2. CASE v = <<>>
    BY <1>8, <1>10, <2>2 DEF triggerFirstChar, Fields, Accepts
  <2> QED
    BY <2>1, <2>2
<1>13. ASSUME NEW k \in 0 .. n - 1, NEW c \in s.chars, CharacteristicAt(d, k, s, c)
       PROVE  CharacteristicAt(x, k, s, c)
  <2>1. /\ x.characteristics[k].handle = c.handle /\ x.characteristics[k].value = c.value
        /\ DOMAIN x.characteristics[k] = CharacteristicFields
    BY <1>9, <1>11, <1>13 DEF CharacteristicAt
  <2>2. CASE k = h
    <3>1. UUIDAt(e.handle) = c.uuid
      BY <1>5, <1>13, <2>2, UUIDIs DEF CharacteristicAt
    <3> QED
      BY <1>9, <1>11, <2>1, <2>2, <3>1 DEF CharacteristicAt
  <2>3. CASE k # h
    <3>1. x.characteristics[k].uuid = d.characteristics[k].uuid
      BY <1>9, <1>11, <2>3
    <3>2. k \in Range(u) => Reads(x, "DISCOVER_CHARACTERISTIC_UUIDS", x.charUUIDDiscoveryQueue, k)
      <4>1. k \in Range(u) => k \in Range(v)
        BY <1>6, <2>3
      <4>2. k \in Range(v) => v # <<>>
        BY DEF Range
      <4> QED
        BY <1>12, <4>1, <4>2 DEF Reads
    <3> QED
      BY <1>2, <1>13, <2>1, <3>1, <3>2 DEF CharacteristicAt, Reads
  <2> QED
    BY <2>2, <2>3
<1>14. CharacteristicsIn(x, s)
  <2>1. Gapless(x.characteristics, x.numCharacteristics, s.chars)
    <3>1. \A k \in 0 .. n - 2 : k \in 0 .. n - 1 /\ k + 1 \in 0 .. n - 1
      OBVIOUS
    <3> QED
      BY <1>0, <1>1, <1>9, <1>11, <3>1 DEF CharacteristicsIn, Gapless
  <2>2. x.state = "DISCOVER_CHARACTERISTIC_UUIDS" => x.charUUIDDiscoveryQueue \in Seq(0 .. n - 1)
    BY <1>6, <1>12
  <2> QED
    BY <1>0, <1>1, <1>9, <1>11, <1>13, <2>1, <2>2 DEF CharacteristicsIn
<1>15. Position(x, s, x.characteristics[0].handle) /\ Telling(x)
  <2>1. 0 \in 0 .. n - 1
    BY <1>1
  <2>2. x.characteristics[0].handle = d.characteristics[0].handle
    BY <1>9, <1>11, <2>1
  <2>3. Position(x, s, d.characteristics[0].handle)
    BY <1>0, <1>11, PositionStays
  <2> QED
    BY <2>2, <2>3, PositionTells
<1>16. InService(x, s)
  BY <1>0, <1>11, <1>12, InServiceStays
<1>17. HasCharacteristics(x, s, "progressCharacteristicDiscovery", 0)
  BY <1>12, <1>14, <1>15, <1>16 DEF HasCharacteristics, Walk
<1>18. RequestRight(x)
  BY <1>12 DEF RequestRight, NoRequest, OfIts
<1> QED
  BY <1>11, <1>15, <1>17, <1>18

\* A service is done with: everything of it is told.
LEMMA ServiceDone ==
  ASSUME IsTable, SRV_DISC_END_HANDLE \in Nat, NEW d, NEW s \in peer, ServicesIn(d),
         d.serviceIndex < d.numServices, d.state # "DISCOVER_SERVICE_UUIDS",
         d.services[d.serviceIndex].handle = s.handle, d.services[d.serviceIndex].end = s.end,
         NEW x, x.serviceIndex = d.serviceIndex + 1, x.numServices = d.numServices,
         x.services = d.services, x.state = "SERVICE_DISCOVERY_ACTIVE",
         x.discoveredCharacteristic = None, ToldTo(x, s.end + 1)
  PROVE  AtServices(x)
<1>1. /\ NextIn(x) \in Handles /\ s.end < NextIn(x)
      /\ \A t \in peer : s.end + 1 <= t.handle => NextIn(x) <= t.handle
  BY ServiceIsOver
<1>2. PICK h \in Nat : h = s.end + 1
  BY DEF IsTable
<1>3. PICK y \in Nat : y = NextIn(x)
  BY <1>1 DEF Handles
<1>4. h <= y /\ Between(h)
  <2>1. s.end \in Nat
    BY DEF IsTable
  <2> QED
    BY <1>1, <1>2, <1>3, <2>1, EndIsBetween
<1>5. \A r \in Expected(x.filter) : r.handle < h <=> r.handle < y
  BY <1>1, <1>2, <1>3, <1>4, NoneBefore
<1>6. ToldTo(x, y)
  BY <1>1, <1>2, <1>3, <1>5, ToldOn
<1>7. x.serviceIndex \in 0 .. d.numServices
  <2>1. d.numServices \in Nat /\ d.serviceIndex \in 0 .. d.numServices
    BY DiscoveryAssumption DEF ServicesIn, DiscoveryAssumption
  <2> QED
    BY <2>1
<1>8. ServicesIn(x)
  BY <1>7, ServicesStay
<1> QED
  BY <1>3, <1>6, <1>8 DEF AtServices

\* A filter that no service can fail names no characteristic.
Sound(f) == f.service = ANY => f.characteristic = ANY

\* The report of a characteristic that was kept back.
LEMMA KeptIsTold ==
  ASSUME IsTable, SRV_DISC_END_HANDLE \in Nat, NEW d, Open(d), Sound(d.filter),
         NEW s \in peer, MatchesService(d.filter, s), d.filter.wanted,
         NEW h, NEW k, Kept(d, s, k, h), NEW last, last = LastHandle(s, k),
         NEW x \in Nat, k.handle < x, x <= s.end + 1,
         \A b \in s.chars : k.handle < b.handle => x <= b.handle,
         NEW c, c = [d.discoveredCharacteristic EXCEPT !.last = last],
         NEW t, t.told = d.told, t.filter = d.filter, Open(t), NEW mayStop \in BOOLEAN,
         NEW e \in CharacteristicCallback(t, c, mayStop)
  PROVE  ToldTo(e, x) /\ (Unmoved(t, e) \/ StoppedFrom(t, e))
<1>1. AsIs(c, s, k)
  <2>1. DOMAIN d.discoveredCharacteristic = {"uuid", "handle", "value", "last"}
    BY DEF Kept, CharacteristicFields
  <2>2. /\ c.uuid = d.discoveredCharacteristic.uuid
        /\ c.handle = d.discoveredCharacteristic.handle
        /\ c.value = d.discoveredCharacteristic.value /\ c.last = last
    BY <2>1
  <2> QED
    BY <2>2 DEF AsIs, Kept
<1>2. ToldTo(t, k.handle)
  BY ToldStays DEF Kept
<1>3. x \in Handles
  <2>1. s.end \in Nat /\ s.end <= SRV_DISC_END_HANDLE
    BY DEF IsTable
  <2> QED
    BY <2>1 DEF Handles
<1>4. Due(t, s, k, x)
  BY <1>2, <1>3 DEF Due, Kept
<1> QED
  BY <1>1, <1>4, CharacteristicTold DEF Sound

\* Without one that is kept back, all is told.
LEMMA ThroughIsTold ==
  ASSUME IsTable, SRV_DISC_END_HANDLE \in Nat, NEW d, NEW s \in peer, NEW y, NEW h,
         Through(d, s, y, h), NEW x \in Nat, h <= x, h \in Nat, x <= s.end + 1, s.handle < x,
         \A b \in s.chars : h <= b.handle => x <= b.handle,
         NEW e, e.told = d.told, e.filter = d.filter
  PROVE  ToldTo(e, x)
<1>1. /\ y \in Nat /\ s.handle \in Nat /\ s.end \in Nat /\ s.end <= SRV_DISC_END_HANDLE
      /\ s.handle < y /\ y <= s.end
  BY DEF Through, ToldTo, Handles, IsTable
<1>2. \A b \in s.chars : y <= b.handle <=> x <= b.handle
  <2>1. \A b \in s.chars : b.handle \in Nat
    BY DEF IsTable
  <2> QED
    BY <2>1 DEF Through
<1>3. ASSUME NEW r \in Expected(d.filter)
      PROVE  r.handle < y <=> r.handle < x
  <2>1. r.handle \in Nat
    BY ExpectedIn
  <2>2. CASE s.handle < r.handle /\ r.handle <= s.end
    <3>1. PICK b \in s.chars : r.handle = b.handle
      BY <2>2, ExpectedWithin
    <3> QED
      BY <1>1, <1>2, <2>1, <3>1
  <2>3. CASE ~(s.handle < r.handle)
    BY <1>1, <2>1, <2>3
  <2>4. CASE ~(r.handle <= s.end)
    BY <1>1, <2>1, <2>4
  <2> QED
    BY <2>2, <2>3, <2>4
<1>4. x \in Handles
  BY <1>1 DEF Handles
<1>5. ToldTo(d, y)
  BY DEF Through
<1> QED
  BY <1>3, <1>4, <1>5, ToldOn

\* Behind the last characteristic of a service, the next service is due.
LEMMA CharacteristicsEnd ==
  ASSUME IsTable, SRV_DISC_END_HANDLE \in Nat, "last" \notin Trouble,
         NEW d, Open(d), d.state = "CHARACTERISTIC_DISCOVERY_ACTIVE", Sound(d.filter),
         NEW s \in peer, NEW h \in Nat, Asking(d, s, h), h <= s.end + 1,
         \A b \in s.chars : b.handle < h,
         NEW x \in terminateCharacteristicDiscovery(d, TRUE)
  PROVE  /\ AtServices(x) /\ x.filter = d.filter /\ x.cut = d.cut
         /\ x.request = d.request
<1>1. InService(d, s) /\ Position(d, s, h)
  BY DEF Asking
<1>2. /\ s.handle \in Nat /\ s.end \in Nat /\ s.handle < s.end
      /\ \A b \in s.chars : b.handle \in Nat /\ b.handle < s.end /\ s.handle < b.handle
  <2>1. s.handle \in Nat /\ s.end \in Nat /\ s.handle < s.end
    BY DEF IsTable
  <2>2. ASSUME NEW b \in s.chars
        PROVE  b.handle \in Nat /\ b.handle < s.end /\ s.handle < b.handle
    <3>1. /\ b.handle \in Nat /\ b.value \in Nat
          /\ s.handle < b.handle /\ b.handle < b.value /\ b.value <= s.end
      BY DEF IsTable
    <3> QED
      BY <2>1, <3>1
  <2> QED
    BY <2>1, <2>2
<1>3. PICK z \in Nat : z = s.end + 1
  BY <1>2
<1> DEFINE c == [d.discoveredCharacteristic EXCEPT !.last = d.services[d.serviceIndex].end]
<1>4. PICK e : /\ IF d.discoveredCharacteristic # None
                  THEN e \in CharacteristicCallback(d, c, "last" \in Trouble) ELSE e = d
               /\ x = [e EXCEPT !.state = "SERVICE_DISCOVERY_ACTIVE", !.serviceIndex = @ + 1,
                                !.discoveredCharacteristic = None]
  BY DEF terminateCharacteristicDiscovery
<1>5. ToldTo(e, z) /\ Unmoved(d, e) /\ Open(e)
  <2>1. CASE d.discoveredCharacteristic = None
    <3>1. PICK y : Through(d, s, y, h)
      BY <1>1, <2>1 DEF Position
    <3>2. e = d
      BY <1>4, <2>1
    <3>3. ToldTo(e, z)
      <4>1. h <= z /\ s.handle < z /\ z <= s.end + 1
        BY <1>2, <1>3
      <4>2. \A b \in s.chars : h <= b.handle => z <= b.handle
        BY <1>2
      <4> QED
        BY <3>1, <3>2, <4>1, <4>2, ThroughIsTold
    <3> QED
      BY <3>2, <3>3 DEF Unmoved, Carries
  <2>2. CASE d.discoveredCharacteristic # None
    <3>1. PICK k : Kept(d, s, k, h)
      BY <1>1, <2>2 DEF Position
    <3>2. k \in s.chars /\ \A b \in s.chars : ~(k.handle < b.handle)
      BY <1>2, <3>1 DEF Kept
    <3>3. LastHandle(s, k) = s.end
      BY <3>2, LastHandleIs
    <3>4. e \in CharacteristicCallback(d, c, FALSE)
      <4>1. ("last" \in Trouble) = FALSE
        OBVIOUS
      <4>2. e \in CharacteristicCallback(d, c, "last" \in Trouble)
        BY <1>4, <2>2
      <4> HIDE DEF c
      <4> QED
        BY <4>1, <4>2, Zenon
    <3>5. d.services[d.serviceIndex].end = LastHandle(s, k)
      BY <1>1, <3>3 DEF InService
    <3>6. k.handle < z /\ z <= s.end + 1
      BY <1>2, <1>3, <3>2
    <3>7. \A b \in s.chars : k.handle < b.handle => z <= b.handle
      BY <3>2
    <3>8. MatchesService(d.filter, s) /\ d.filter.wanted
      BY <1>1 DEF InService
    <3>9. PICK cc : cc = [d.discoveredCharacteristic EXCEPT !.last = d.services[d.serviceIndex].end]
      OBVIOUS
    <3>10. PICK last : last = d.services[d.serviceIndex].end
      OBVIOUS
    <3>13. cc = [d.discoveredCharacteristic EXCEPT !.last = last] /\ last = LastHandle(s, k)
      BY <3>5, <3>9, <3>10
    <3>14. e \in CharacteristicCallback(d, cc, FALSE) /\ FALSE \in BOOLEAN
      BY <3>4, <3>9
    <3> HIDE DEF c
    <3>11. ToldTo(e, z) /\ (Unmoved(d, e) \/ StoppedFrom(d, e))
      BY <3>1, <3>6, <3>7, <3>8, <3>13, <3>14, KeptIsTold
    <3>12. Open(e)
      BY <3>4, CharacteristicReports
    <3> QED
      BY <3>11, <3>12 DEF StoppedFrom, Open, isActive
  <2> QED
    BY <2>1, <2>2
<1>6. /\ x.told = e.told /\ x.filter = e.filter /\ x.cut = e.cut /\ x.request = e.request
      /\ x.state = "SERVICE_DISCOVERY_ACTIVE" /\ x.discoveredCharacteristic = None
      /\ x.serviceIndex = e.serviceIndex + 1 /\ x.numServices = e.numServices
      /\ x.services = e.services
  BY <1>4, <1>5 DEF Open, IsDisc, Fields
<1>7. ToldTo(x, s.end + 1)
  BY <1>3, <1>5, <1>6, ToldStays
<1>8. /\ x.serviceIndex = d.serviceIndex + 1 /\ x.numServices = d.numServices
      /\ x.services = d.services /\ x.filter = d.filter /\ x.cut = d.cut /\ x.request = d.request
  BY <1>5, <1>6 DEF Unmoved, Carries
<1>9. AtServices(x)
  BY <1>1, <1>6, <1>7, <1>8, ServiceDone DEF InService
<1> QED
  BY <1>8, <1>9

Table == IsTable /\ SRV_DISC_END_HANDLE \in Nat /\ \A f \in Filters : Sound(f)

\* Where the discovery is matters to the characteristics only.
LEMMA RightAnywhere ==
  ASSUME NEW d, NEW at, NEW j, Right(d, at, j), d.state # "CHARACTERISTIC_DISCOVERY_ACTIVE",
         NEW to, NEW m
  PROVE  Right(d, to, m)
<1>1. ASSUME NEW s \in peer, HasCharacteristics(d, s, at, j)
      PROVE  HasCharacteristics(d, s, to, m)
  BY <1>1 DEF HasCharacteristics
<1> QED
  BY <1>1 DEF Right, AwaitsCharacteristics

\* The peer stays the same, so what is right of a discovery is right afterwards.
LEMMA RightThen ==
  ASSUME peer' = peer, Right(disc', pc', i')
  PROVE  Right(disc, pc, i)'
BY DEF Right, Telling, ToldTo, Expected, AtServices, ServicesIn, ServiceAt, AwaitsCharacteristics,
   InService, HasCharacteristics, Walk, Position, Through, Kept, Over

\* The same of a request,
LEMMA RequestThen ==
  ASSUME peer' = peer, RequestRight(disc')
  PROVE  RequestRight(disc)'
BY DEF RequestRight, Between, Asking, ToldTo, Expected, ServicesIn, ServiceAt, AwaitsCharacteristics,
   InService, Position, Through, Kept

\* and of an answer.
LEMMA EventThen ==
  ASSUME peer' = peer, NEW k, EventRight(disc', events'[k])
  PROVE  EventRight(disc, events[k])'
BY DEF EventRight, Asking, ToldTo, Expected, ServicesIn, ServiceAt, AwaitsCharacteristics,
   InService, Position, Through, Kept, UUIDAt, AllCharacteristics

\* With the peer it was, the table is the table that was.
LEMMA Then ==
  ASSUME peer' = peer, link', Right(disc', pc', i'), RequestRight(disc'),
         \A k \in Rest' : EventRight(disc', events'[k])
  PROVE  ReportRight'
<1>1. ASSUME NEW k \in Rest'
      PROVE  EventRight(disc, events[k])'
  BY EventThen
<1> QED
  BY <1>1, RightThen, RequestThen DEF ReportRight

\* Behind a step of the handler in which nothing is awaited.
LEMMA Goes ==
  ASSUME DiscoveryInv, link, UNCHANGED <<events, link, peer>>, pc # "idle", pc' # "idle",
         \A k \in Rest : events[k].kind = "disconnected",
         Right(disc', pc', i'), RequestRight(disc')
  PROVE  ReportRight'
<1>1. Rest' = Rest
  BY DEF Rest
<1>2. \A k \in Rest : k \in 1 .. Len(events)
  BY Known DEF Rest
<1>3. Rest = {}
  BY <1>2 DEF DiscoveryInv, Queued
<1> QED
  BY <1>1, <1>3, Then

\* A step that only goes to another place of the handler.
LEMMA Passes ==
  ASSUME ReportRight, UNCHANGED <<disc, events, link, peer>>, pc # "idle", pc' # "idle",
         disc.state # "CHARACTERISTIC_DISCOVERY_ACTIVE"
  PROVE  ReportRight'
<1>1. Rest' = Rest
  BY DEF Rest
<1>2. Right(disc', pc', i')
  BY RightAnywhere DEF ReportRight
<1> QED
  BY <1>1, <1>2, Then DEF ReportRight

\* The application ended the discovery in a callback.
LEMMA StoppedIsRight ==
  ASSUME NEW d, NEW x, d.filter \in Filters, StoppedFrom(d, x), NEW h, ToldTo(x, h), NEW at, NEW j
  PROVE  Right(x, at, j)
BY DEF StoppedFrom, Carries, Right, Over, Telling, ToldTo

\* The first of the characteristics that were found.
LEMMA FirstFound ==
  ASSUME IsTable, NEW d, NEW s \in peer, CharacteristicsIn(d, s),
         d.state # "DISCOVER_CHARACTERISTIC_UUIDS",
         NEW k \in 0 .. d.numCharacteristics - 1
  PROVE  \E c \in s.chars :
           /\ d.characteristics[k].handle = c.handle /\ d.characteristics[k].value = c.value
           /\ d.characteristics[k].uuid = c.uuid /\ c.handle \in Nat /\ c.handle < s.end
           /\ DOMAIN d.characteristics[k] = CharacteristicFields
<1>1. PICK c \in s.chars : CharacteristicAt(d, k, s, c)
  BY DEF CharacteristicsIn
<1>2. /\ c.handle \in Nat /\ c.value \in Nat /\ s.end \in Nat
      /\ c.handle < c.value /\ c.value <= s.end
  BY DEF IsTable
<1> QED
  BY <1>1, <1>2 DEF CharacteristicAt, Reads

\* The walk through the characteristics of a service begins: the one kept back is told.
LEMMA FirstCharacteristicReports ==
  ASSUME Table, DiscoveryInv, ReportRight, FirstCharacteristic
  PROVE  ReportRight'
<1>0. IsTable /\ SRV_DISC_END_HANDLE \in Nat /\ link
  BY DEF Table, ReportRight
<1>1. /\ pc = "progressCharacteristicDiscovery" /\ UNCHANGED <<events, link, peer, i>>
      /\ pc' # "idle"
  BY DEF FirstCharacteristic, Goto
<1>2. CASE ~Discovering
  <2>1. disc' = disc
    BY <1>2 DEF FirstCharacteristic
  <2> QED
    BY <1>1, <1>2, <2>1, Passes DEF Discovering
<1>3. CASE Discovering
  <2>1. /\ disc.request = NoRequest /\ \A k \in Rest : events[k].kind = "disconnected"
    BY <1>1, <1>3, Undisturbed
  <2>2. Open(disc)
    BY <1>3, Known DEF Discovering, isActive
  <2>3. pc' = "characteristics"
    BY <1>3 DEF FirstCharacteristic, Goto
  <2>4. disc.filter \in Filters /\ Sound(disc.filter)
    BY DEF Table, ReportRight, Right
  <2>5. PICK s \in peer :
          /\ InService(disc, s) /\ CharacteristicsIn(disc, s) /\ i = 0
          /\ Position(disc, s, disc.characteristics[0].handle)
    BY <1>1, <1>3 DEF ReportRight, Right, Over, AwaitsServices, AtServices, HasCharacteristics,
       Walk, Discovering
  <2>6. PICK n \in Nat : n = disc.numCharacteristics /\ n > 0
    BY <2>5, DiscoveryAssumption DEF CharacteristicsIn, DiscoveryAssumption
  <2>7. 0 \in 0 .. n - 1
    BY <2>6
  <2>8. PICK b \in s.chars : disc.characteristics[0].handle = b.handle
                             /\ b.handle \in Nat /\ b.handle < s.end
    BY <1>0, <1>3, <2>5, <2>6, <2>7, FirstFound DEF Discovering
  <2>9. PICK x \in Nat : x = b.handle
    BY <2>8
  <2>10. Position(disc, s, x)
    BY <2>5, <2>8, <2>9
  <2>11. /\ s.handle \in Nat /\ s.end \in Nat /\ s.handle < x /\ x <= s.end + 1
    BY <1>0, <2>8, <2>9 DEF IsTable
  <2>12. /\ ToldTo(disc', x)
         /\ \/ StoppedFrom(disc, disc')
            \/ Carries(disc, disc') /\ disc'.state = disc.state
    <3>1. CASE disc.discoveredCharacteristic = None
      <4>1. disc' = disc
        BY <1>3, <3>1 DEF FirstCharacteristic
      <4>2. PICK y : Through(disc, s, y, x)
        BY <2>10, <3>1 DEF Position
      <4>3. ToldTo(disc', x)
        <5>1. x <= x /\ \A a \in s.chars : x <= a.handle => x <= a.handle
          BY <2>9
        <5>2. disc'.told = disc.told /\ disc'.filter = disc.filter
          BY <4>1
        <5> QED
          BY <1>0, <2>11, <4>2, <5>1, <5>2, ThroughIsTold
      <4> QED
        BY <4>1, <4>3 DEF Carries
    <3>2. CASE disc.discoveredCharacteristic # None
      <4>1. PICK last : last = x - 1
        OBVIOUS
      <4>2. PICK c : c = [disc.discoveredCharacteristic EXCEPT !.last = last]
        OBVIOUS
      <4>3. PICK t : t = [disc EXCEPT !.discoveredCharacteristic = c]
        OBVIOUS
      <4>4. disc' \in CharacteristicCallback(t, c, TRUE)
        <5>1. disc.numCharacteristics > 0
          BY <2>6
        <5>2. last = disc.characteristics[0].handle - 1
          BY <2>8, <2>9, <4>1
        <5> QED
          BY <1>3, <3>2, <4>2, <4>3, <5>1, <5>2 DEF FirstCharacteristic
      <4>5. /\ t = [m \in Fields |-> t[m]] /\ t.told = disc.told /\ t.filter = disc.filter
            /\ t.state = disc.state /\ Carries(disc, t)
        BY <2>2, <4>3 DEF Open, IsDisc, Fields, Carries
      <4>6. Open(t)
        BY <2>2, <4>5 DEF Open, IsDisc, isActive
      <4>7. PICK k \in s.chars : Kept(disc, s, k, x)
        BY <2>10, <3>2 DEF Position
      <4>8. /\ k.handle < x /\ \A a \in s.chars : k.handle < a.handle => x <= a.handle
        BY <4>7 DEF Kept
      <4>9. last = LastHandle(s, k)
        BY <1>0, <2>9, <4>1, <4>8, LastHandleIs
      <4>10. MatchesService(disc.filter, s) /\ disc.filter.wanted
        BY <2>5 DEF InService
      <4>11. ToldTo(disc', x) /\ (Unmoved(t, disc') \/ StoppedFrom(t, disc'))
        BY <1>0, <2>2, <2>4, <2>11, <4>2, <4>4, <4>5, <4>6, <4>7, <4>8, <4>9, <4>10, KeptIsTold
      <4> QED
        BY <4>5, <4>11 DEF Unmoved, StoppedFrom, Carries
    <3> QED
      BY <3>1, <3>2
  <2>13. disc'.request = NoRequest
    BY <2>1, <2>12 DEF StoppedFrom, Carries
  <2>14. RequestRight(disc')
    BY <2>13 DEF RequestRight, NoRequest
  <2>15. Right(disc', pc', i')
    <3>1. CASE StoppedFrom(disc, disc')
      BY <2>4, <2>12, <3>1, StoppedIsRight
    <3>2. CASE Carries(disc, disc') /\ disc'.state = disc.state
      <4>1. InService(disc', s)
        BY <1>3, <2>5, <3>2, InServiceStays DEF Carries, Discovering
      <4>2. CharacteristicsIn(disc', s)
        BY <1>3, <2>5, <3>2, CharacteristicsStay DEF Carries, Discovering
      <4>3. disc'.characteristics[i'].handle = x /\ i' \in 0 .. disc'.numCharacteristics - 1
        BY <1>1, <2>5, <2>6, <2>7, <2>8, <2>9, <3>2 DEF Carries
      <4>4. HasCharacteristics(disc', s, pc', i')
        BY <1>3, <2>3, <2>12, <3>2, <4>1, <4>2, <4>3 DEF HasCharacteristics, Walk, Discovering
      <4>5. Telling(disc')
        BY <2>12 DEF Telling, ToldTo
      <4> QED
        BY <2>4, <3>2, <4>4, <4>5 DEF Right, Carries
    <3> QED
      BY <2>12, <3>1, <3>2
  <2> QED
    BY <1>0, <1>1, <2>1, <2>14, <2>15, Goes
<1> QED
  BY <1>2, <1>3

\* A characteristic of the cache and the next one of it.
LEMMA NextFound ==
  ASSUME IsTable, NEW d, NEW s \in peer, CharacteristicsIn(d, s), NEW k \in Nat,
         k < d.numCharacteristics - 1, NEW c \in s.chars, NEW b \in s.chars,
         d.characteristics[k].handle = c.handle, d.characteristics[k + 1].handle = b.handle
  PROVE  /\ c.handle < b.handle
         /\ \A a \in s.chars : c.handle < a.handle => b.handle <= a.handle
<1>1. PICK n \in Nat : n = d.numCharacteristics
  BY DiscoveryAssumption DEF CharacteristicsIn, DiscoveryAssumption
<1>2. PICK m \in 0 .. n - 1 : m = k + 1
  BY <1>1
<1>3. k \in 0 .. n - 1 /\ k < m /\ k \in 0 .. n - 2
  BY <1>1, <1>2
<1>4. Gapless(d.characteristics, n, s.chars)
  BY <1>1 DEF CharacteristicsIn
<1>5. c.handle < b.handle
  BY <1>2, <1>3, <1>4 DEF Gapless
<1>6. \A a \in s.chars : c.handle < a.handle => b.handle <= a.handle
  BY <1>3, <1>4 DEF Gapless
<1> QED
  BY <1>5, <1>6

\* The characteristics that are kept back, reported with the last handle they have.
LEMMA NextCharacteristicReports ==
  ASSUME Table, DiscoveryInv, ReportRight, NextCharacteristic
  PROVE  ReportRight'
<1>0. IsTable /\ SRV_DISC_END_HANDLE \in Nat /\ link
  BY DEF Table, ReportRight
<1>1. pc = "characteristics" /\ UNCHANGED <<events, link, peer>> /\ pc' # "idle"
  BY DEF NextCharacteristic, Goto
<1>2. CASE ~Discovering
  <2>1. disc' = disc
    BY <1>2 DEF NextCharacteristic
  <2> QED
    BY <1>1, <1>2, <2>1, Passes DEF Discovering
<1>3. CASE Discovering
  <2>1. /\ disc.request = NoRequest /\ \A k \in Rest : events[k].kind = "disconnected"
    BY <1>1, Undisturbed
  <2>2. Open(disc)
    BY <1>3, Known DEF Discovering, isActive
  <2>3. disc.filter \in Filters /\ Sound(disc.filter)
    BY DEF Table, ReportRight, Right
  <2>4. PICK s \in peer :
          /\ InService(disc, s) /\ CharacteristicsIn(disc, s)
          /\ i \in 0 .. disc.numCharacteristics - 1
          /\ ToldTo(disc, disc.characteristics[i].handle)
    BY <1>1, <1>3 DEF ReportRight, Right, Over, AwaitsServices, AtServices, HasCharacteristics,
       Walk, Discovering
  <2>5. PICK n \in Nat : n = disc.numCharacteristics /\ n > 0
                         /\ DOMAIN disc.characteristics = 0 .. BLE_DB_DISCOVERY_MAX_CHAR_PER_SRV - 1
                         /\ BLE_DB_DISCOVERY_MAX_CHAR_PER_SRV \in Nat
                         /\ n <= BLE_DB_DISCOVERY_MAX_CHAR_PER_SRV
    BY <2>4, DiscoveryAssumption DEF CharacteristicsIn, DiscoveryAssumption
  <2>6. PICK j \in Nat : j = i /\ j \in 0 .. n - 1
    BY <2>4, <2>5
  <2>7. PICK k \in s.chars :
          /\ disc.characteristics[j].handle = k.handle /\ disc.characteristics[j].value = k.value
          /\ disc.characteristics[j].uuid = k.uuid /\ k.handle \in Nat /\ k.handle < s.end
          /\ DOMAIN disc.characteristics[j] = CharacteristicFields
    BY <1>0, <1>3, <2>4, <2>5, <2>6, FirstFound DEF Discovering
  <2>8. ToldTo(disc, k.handle)
    BY <2>4, <2>6, <2>7
  <2>9. CASE i = disc.numCharacteristics - 1
    <3>1. /\ disc' = [disc EXCEPT !.discoveredCharacteristic = disc.characteristics[i]]
          /\ pc' = "moreCharacteristics" /\ i' = i
      BY <1>3, <2>9 DEF NextCharacteristic, Goto
    <3>2. /\ disc'.told = disc.told /\ Carries(disc, disc') /\ disc'.state = disc.state
          /\ disc'.discoveredCharacteristic = disc.characteristics[j]
      BY <2>2, <2>6, <3>1 DEF Open, IsDisc, Fields, Carries
    <3>3. RequestRight(disc')
      BY <2>1, <3>2 DEF RequestRight, NoRequest, Carries
    <3>4. /\ k.handle \in Nat /\ k.value \in Nat /\ k.handle < k.value /\ k.handle > 0
          /\ \A b \in s.chars : k.handle < b.handle => k.value + 1 <= b.handle
      <4>1. /\ k.handle \in Nat /\ k.value \in Nat /\ k.handle < k.value /\ s.handle \in Nat
            /\ s.handle < k.handle
        BY <1>0 DEF IsTable
      <4>2. ASSUME NEW b \in s.chars, k.handle < b.handle
            PROVE  k.value + 1 <= b.handle
        <5>1. /\ b.handle \in Nat /\ b.value \in Nat /\ b.handle < b.value
              /\ b # k => k.value < b.handle \/ b.value < k.handle
          BY <1>0 DEF IsTable
        <5> QED
          BY <4>1, <4>2, <5>1
      <4> QED
        BY <4>1, <4>2
    <3>5. PICK x : x = k.value + 1
      OBVIOUS
    <3>6. ToldTo(disc', k.handle)
      BY <2>8, <3>2, ToldStays DEF Carries
    <3>7. Kept(disc', s, k, x)
      BY <2>7, <3>2, <3>4, <3>5, <3>6 DEF Kept
    <3>8. disc'.discoveredCharacteristic # None
      BY <2>7, <3>2, <3>4 DEF None
    <3>9. Position(disc', s, x)
      BY <3>7, <3>8 DEF Position
    <3>10. disc'.characteristics[disc'.numCharacteristics - 1].value + 1 = x
      BY <2>5, <2>6, <2>7, <2>9, <3>2, <3>5 DEF Carries
    <3>11. InService(disc', s)
      BY <1>3, <2>4, <3>2, InServiceStays DEF Carries, Discovering
    <3>12. CharacteristicsIn(disc', s)
      BY <1>3, <2>4, <3>2, CharacteristicsStay DEF Carries, Discovering
    <3>13. HasCharacteristics(disc', s, pc', i')
      BY <1>3, <3>1, <3>2, <3>8, <3>9, <3>10, <3>11, <3>12 DEF HasCharacteristics, Walk, Discovering
    <3>14. Right(disc', pc', i')
      BY <2>3, <3>2, <3>6, <3>13 DEF Right, Telling, ToldTo, Carries
    <3> QED
      BY <1>0, <1>1, <2>1, <3>3, <3>14, Goes
  <2>10. CASE i # disc.numCharacteristics - 1
    <3>1. j < n - 1 /\ j + 1 \in 0 .. n - 1 /\ j + 1 \in Nat
      BY <2>5, <2>6, <2>10
    <3>2. PICK m \in Nat : m = j + 1
      BY <3>1
    <3>3. PICK b \in s.chars : disc.characteristics[m].handle = b.handle
                               /\ b.handle \in Nat /\ b.handle < s.end
      BY <1>0, <1>3, <2>4, <2>5, <3>1, <3>2, FirstFound DEF Discovering
    <3>4. k.handle < b.handle /\ \A a \in s.chars : k.handle < a.handle => b.handle <= a.handle
      BY <1>0, <2>4, <2>5, <2>7, <3>1, <3>2, <3>3, NextFound
    <3>5. PICK x \in Nat : x = b.handle
      BY <3>3
    <3>6. PICK c : c = [disc.characteristics[j] EXCEPT !.last = x - 1]
      OBVIOUS
    <3>7. PICK t : t = [disc EXCEPT !.characteristics[j] = c]
      OBVIOUS
    <3>8. /\ disc' \in CharacteristicCallback(t, c, TRUE) /\ pc' = "characteristics" /\ i' = m
      <4>1. disc.characteristics[i + 1].handle - 1 = x - 1
        BY <2>6, <3>2, <3>3, <3>5
      <4> QED
        BY <1>3, <2>6, <2>10, <3>2, <3>6, <3>7, <4>1 DEF NextCharacteristic, Goto
    <3>9. /\ c.uuid = k.uuid /\ c.handle = k.handle /\ c.value = k.value /\ c.last = x - 1
          /\ DOMAIN c = CharacteristicFields
      BY <2>7, <3>6 DEF CharacteristicFields
    <3>10. LastHandle(s, k) = x - 1
      BY <1>0, <3>4, <3>5, LastHandleIs
    <3>11. AsIs(c, s, k)
      BY <3>9, <3>10 DEF AsIs
    <3>12. /\ t = [f \in Fields |-> t[f]] /\ t.told = disc.told /\ t.filter = disc.filter
           /\ t.state = disc.state /\ t.services = disc.services
           /\ t.numServices = disc.numServices /\ t.serviceIndex = disc.serviceIndex
           /\ t.numCharacteristics = n /\ t.request = disc.request
           /\ t.characteristics = [disc.characteristics EXCEPT ![j] = c]
      BY <2>2, <2>5, <3>7 DEF Open, IsDisc, Fields
    <3>13. Open(t)
      BY <2>2, <3>12 DEF Open, IsDisc, isActive
    <3>14. Due(t, s, k, x)
      <4>1. ToldTo(t, k.handle)
        BY <2>8, <3>12, ToldStays
      <4>2. MatchesService(t.filter, s) /\ t.filter.wanted
        BY <2>4, <3>12 DEF InService
      <4>3. s.end \in Nat /\ s.end <= SRV_DISC_END_HANDLE
        BY <1>0 DEF IsTable
      <4>4. x \in Handles /\ x <= s.end + 1 /\ k.handle < x
        BY <1>0, <3>3, <3>4, <3>5, <4>3 DEF Handles
      <4> QED
        BY <3>4, <3>5, <4>1, <4>2, <4>4 DEF Due
    <3>15. ToldTo(disc', x) /\ (Unmoved(t, disc') \/ StoppedFrom(t, disc'))
      <4>1. t.filter.service = ANY => t.filter.characteristic = ANY
        BY <2>3, <3>12 DEF Sound
      <4> QED
        BY <1>0, <3>8, <3>11, <3>13, <3>14, <4>1, CharacteristicTold
    <3>16. disc'.request = NoRequest /\ t.filter \in Filters
      BY <2>1, <2>3, <3>12, <3>15 DEF Unmoved, StoppedFrom, Carries
    <3>17. RequestRight(disc')
      BY <3>16 DEF RequestRight, NoRequest
    <3>18. Right(disc', pc', i')
      <4>1. CASE StoppedFrom(t, disc')
        BY <3>15, <3>16, <4>1, StoppedIsRight
      <4>2. CASE Unmoved(t, disc')
        <5>1. \A l \in 0 .. n - 1 :
                /\ t.characteristics[l].handle = disc.characteristics[l].handle
                /\ t.characteristics[l].value = disc.characteristics[l].value
                /\ t.characteristics[l].uuid = disc.characteristics[l].uuid
                /\ DOMAIN t.characteristics[l] = DOMAIN disc.characteristics[l]
          <6>1. \A l \in 0 .. n - 1 : l \in DOMAIN disc.characteristics
            BY <2>5
          <6>2. \A l \in 0 .. n - 1 :
                  t.characteristics[l] = IF l = j THEN c ELSE disc.characteristics[l]
            BY <3>12, <6>1
          <6> QED
            BY <2>7, <3>9, <6>2
        <5>2. DOMAIN t.characteristics = DOMAIN disc.characteristics
          BY <3>12
        <5>3. CharacteristicsIn(t, s)
          BY <1>3, <2>4, <2>5, <3>12, <5>1, <5>2, CharacteristicsStay DEF Discovering
        <5>4. CharacteristicsIn(disc', s)
          BY <1>3, <3>12, <4>2, <5>3, CharacteristicsStay DEF Unmoved, Carries, Discovering
        <5>5. InService(disc', s)
          BY <1>3, <2>4, <3>12, <4>2, InServiceStays DEF Unmoved, Carries, Discovering
        <5>6. m \in 0 .. disc'.numCharacteristics - 1
          BY <3>1, <3>2, <3>12, <4>2 DEF Unmoved, Carries
        <5>7. disc'.characteristics[m].handle = x
          BY <3>1, <3>2, <3>3, <3>5, <4>2, <5>1 DEF Unmoved, Carries
        <5>8. HasCharacteristics(disc', s, pc', i')
          BY <1>3, <3>8, <3>12, <3>15, <4>2, <5>4, <5>5, <5>6, <5>7
             DEF HasCharacteristics, Walk, Unmoved, Discovering
        <5>9. Telling(disc')
          BY <3>15 DEF Telling, ToldTo
        <5> QED
          BY <3>16, <4>2, <5>8, <5>9 DEF Right, Unmoved, Carries
      <4> QED
        BY <3>15, <4>1, <4>2
    <3> QED
      BY <1>0, <1>1, <2>1, <3>17, <3>18, Goes
  <2> QED
    BY <2>9, <2>10
<1> QED
  BY <1>2, <1>3

\* The walk is at its end, or the application ended it.
LEMMA NoCharacteristicsReports ==
  ASSUME Table, DiscoveryInv, ReportRight, NoCharacteristics
  PROVE  ReportRight'
<1>1. /\ pc = "characteristics" /\ UNCHANGED <<disc, events, link, peer>> /\ pc' # "idle"
      /\ i >= disc.numCharacteristics
  BY DEF NoCharacteristics, Goto
<1>2. ~Discovering
  <2> SUFFICES ASSUME Discovering PROVE FALSE
    OBVIOUS
  <2>1. PICK s \in peer : CharacteristicsIn(disc, s) /\ i \in 0 .. disc.numCharacteristics - 1
    BY <1>1 DEF ReportRight, Right, Over, AwaitsServices, AtServices, HasCharacteristics,
       Walk, Discovering
  <2>2. PICK n \in Nat : n = disc.numCharacteristics
    BY <2>1, DiscoveryAssumption DEF CharacteristicsIn, DiscoveryAssumption
  <2> QED
    BY <1>1, <2>1, <2>2
<1> QED
  BY <1>1, <1>2, Passes DEF Discovering

\* At the services it does not matter where the handler is.
LEMMA ServicesRight ==
  ASSUME NEW d, AtServices(d), d.filter \in Filters, NEW at, NEW j
  PROVE  Right(d, at, j)
BY DEF Right, AtServices, Telling, ToldTo

\* The service has more characteristics, or none is left and its last one is told.
LEMMA MoreCharacteristicsReports ==
  ASSUME Table, "last" \notin Trouble, DiscoveryInv, ReportRight, MoreCharacteristics
  PROVE  ReportRight'
<1>0. IsTable /\ SRV_DISC_END_HANDLE \in Nat /\ link
  BY DEF Table, ReportRight
<1>1. /\ pc = "moreCharacteristics" /\ UNCHANGED <<events, link, peer>>
      /\ pc' = "progressServiceDiscovery" /\ pc' # "idle"
  BY DEF MoreCharacteristics, Goto
<1>2. CASE ~Discovering
  <2>1. disc' = disc
    BY <1>2 DEF MoreCharacteristics
  <2> QED
    BY <1>1, <1>2, <2>1, Passes DEF Discovering
<1>3. CASE Discovering
  <2>1. /\ disc.request = NoRequest /\ \A k \in Rest : events[k].kind = "disconnected"
    BY <1>1, Undisturbed
  <2>2. Open(disc)
    BY <1>3, Known DEF Discovering, isActive
  <2>3. disc.filter \in Filters /\ Sound(disc.filter)
    BY DEF Table, ReportRight, Right
  <2>4. PICK s \in peer :
          /\ InService(disc, s) /\ CharacteristicsIn(disc, s)
          /\ Position(disc, s, disc.characteristics[disc.numCharacteristics - 1].value + 1)
    BY <1>1, <1>3 DEF ReportRight, Right, Over, AwaitsServices, AtServices, HasCharacteristics,
       Walk, Discovering
  <2>5. PICK n \in Nat : n = disc.numCharacteristics /\ n > 0
    BY <2>4, DiscoveryAssumption DEF CharacteristicsIn, DiscoveryAssumption
  <2>6. PICK m \in 0 .. n - 1 : m = n - 1
    BY <2>5
  <2>7. PICK k \in s.chars : disc.characteristics[m].value = k.value
    BY <1>0, <1>3, <2>4, <2>5, FirstFound DEF Discovering
  <2>8. /\ s.handle \in Nat /\ s.end \in Nat /\ s.handle < k.handle /\ k.handle \in Nat
        /\ k.value \in Nat /\ k.handle < k.value /\ k.value <= s.end
        /\ k.value < SRV_DISC_END_HANDLE /\ s.end <= SRV_DISC_END_HANDLE
        /\ \A b \in s.chars : b.handle \in Nat /\ b.value \in Nat /\ b.handle < b.value
                              /\ b.value <= s.end
    BY <1>0 DEF IsTable
  <2>9. PICK x \in Nat, y \in Nat : x = k.value + 1 /\ y = SRV_DISC_END_HANDLE + 1
    BY <1>0, <2>8
  <2>10. x < y /\ x # 0 /\ s.handle <= x /\ x <= s.end + 1
    BY <1>0, <2>8, <2>9
  <2>11. NextHandle(disc) = x
    <3>1. x % y = x
      BY <2>10
    <3>2. NextHandle(disc) = (k.value + 1) % (SRV_DISC_END_HANDLE + 1)
      BY <2>5, <2>6, <2>7 DEF NextHandle
    <3> QED
      BY <2>9, <3>1, <3>2
  <2>12. Position(disc, s, x)
    BY <2>4, <2>5, <2>6, <2>7, <2>9
  <2>13. PICK d : d = [disc EXCEPT !.numCharacteristics = 0]
    OBVIOUS
  <2>14. /\ d = [f \in Fields |-> d[f]] /\ d.told = disc.told /\ d.filter = disc.filter
         /\ d.state = disc.state /\ d.services = disc.services /\ d.numServices = disc.numServices
         /\ d.serviceIndex = disc.serviceIndex /\ d.request = disc.request
         /\ d.numCharacteristics = 0
         /\ d.discoveredCharacteristic = disc.discoveredCharacteristic
    BY <2>2, <2>13 DEF Open, IsDisc, Fields
  <2>15. Open(d)
    BY <2>2, <2>14 DEF Open, IsDisc, isActive
  <2>16. InService(d, s) /\ Position(d, s, x)
    BY <1>3, <2>4, <2>12, <2>14, InServiceStays, PositionStays DEF Discovering
  <2>17. disc.services[disc.serviceIndex].end = s.end
    BY <2>4 DEF InService
  <2>18. disc' \in IF x >= s.end THEN terminateCharacteristicDiscovery(d, TRUE)
                   ELSE {[d EXCEPT !.request = [kind |-> "characteristics", from |-> x, to |-> s.end]]}
    <3>1. Accepts(d) /\ x # 0
      BY <1>0, <2>1, <2>10, <2>14 DEF Accepts
    <3> QED
      BY <1>3, <2>11, <2>13, <2>17, <3>1 DEF MoreCharacteristics
  <2>19. CASE x >= s.end
    <3>1. disc' \in terminateCharacteristicDiscovery(d, TRUE)
      BY <2>18, <2>19
    <3>2. \A b \in s.chars : b.handle < x
      BY <2>8, <2>19
    <3>3. AtServices(disc') /\ disc'.filter = d.filter /\ disc'.request = d.request
      BY <1>0, <1>3, <2>3, <2>10, <2>14, <2>15, <2>16, <3>1, <3>2, CharacteristicsEnd
         DEF Asking, Discovering
    <3>4. Right(disc', pc', i') /\ RequestRight(disc')
      BY <2>1, <2>3, <2>14, <3>3, ServicesRight DEF RequestRight, NoRequest
    <3> QED
      BY <1>0, <1>1, <2>1, <3>4, Goes
  <2>20. CASE ~(x >= s.end)
    <3>1. PICK r : r = [kind |-> "characteristics", from |-> x, to |-> s.end]
      OBVIOUS
    <3>2. disc' = [d EXCEPT !.request = r]
      BY <2>18, <2>20, <3>1
    <3>3. /\ disc'.told = d.told /\ disc'.filter = d.filter /\ disc'.state = d.state
          /\ disc'.services = d.services /\ disc'.numServices = d.numServices
          /\ disc'.serviceIndex = d.serviceIndex /\ disc'.numCharacteristics = 0
          /\ disc'.discoveredCharacteristic = d.discoveredCharacteristic /\ disc'.request = r
      BY <2>14, <3>2 DEF Fields
    <3>4. InService(disc', s) /\ Position(disc', s, x)
      BY <1>3, <2>14, <2>16, <3>3, InServiceStays, PositionStays DEF Discovering
    <3>5. AwaitsCharacteristics(disc')
      BY <1>3, <2>14, <3>3, <3>4 DEF AwaitsCharacteristics, Discovering
    <3>6. x <= s.end
      BY <2>8, <2>20
    <3>7. RequestRight(disc')
      BY <2>10, <3>1, <3>3, <3>4, <3>5, <3>6 DEF RequestRight, Asking
    <3>8. Right(disc', pc', i')
      BY <1>1, <2>3, <2>14, <3>3, <3>4, <3>5, PositionTells DEF Right
    <3> QED
      BY <1>0, <1>1, <2>1, <3>7, <3>8, Goes
  <2> QED
    BY <2>19, <2>20
<1> QED
  BY <1>2, <1>3

\* Of a service that does not match nothing is expected.
LEMMA NoneOfOthers ==
  ASSUME IsTable, SRV_DISC_END_HANDLE \in Nat, NEW f, NEW s \in peer, ~MatchesService(f, s)
  PROVE  \A r \in Expected(f) : r.handle < s.handle <=> r.handle < s.end + 1
<1> SUFFICES ASSUME NEW r \in Expected(f), ~(r.handle < s.handle <=> r.handle < s.end + 1)
             PROVE  FALSE
  OBVIOUS
<1>1. r.handle \in Nat
  BY ExpectedIn
<1>2. PICK t \in peer : MatchesService(f, t) /\ t.handle <= r.handle /\ r.handle < t.end
  BY ExpectedIn
<1>3. t # s
  BY <1>2
<1>4. /\ s.handle \in Nat /\ s.end \in Nat /\ t.handle \in Nat /\ t.end \in Nat
      /\ s.handle < s.end /\ (s.end < t.handle \/ t.end < s.handle)
  BY <1>3 DEF IsTable
<1> QED
  BY <1>1, <1>2, <1>4

\* Without a callback for characteristics, nothing is expected behind the declaration.
LEMMA NoneUnwanted ==
  ASSUME IsTable, SRV_DISC_END_HANDLE \in Nat, NEW f, NEW s \in peer, ~f.wanted,
         NEW h \in Nat, h = s.handle + 1
  PROVE  \A r \in Expected(f) : r.handle < h <=> r.handle < s.end + 1
<1> SUFFICES ASSUME NEW r \in Expected(f), ~(r.handle < h <=> r.handle < s.end + 1)
             PROVE  FALSE
  OBVIOUS
<1>1. r.handle \in Nat /\ s.handle \in Nat /\ s.end \in Nat /\ s.handle < s.end
  BY ExpectedIn DEF IsTable
<1>2. s.handle < r.handle /\ r.handle <= s.end
  BY <1>1
<1>3. \E c \in s.chars : Wants(f, c)
  BY <1>2, ExpectedWithin
<1> QED
  BY <1>3 DEF Wants

\* A filter that names a characteristic does not ask for services.
LEMMA NoneDeclared ==
  ASSUME IsTable, SRV_DISC_END_HANDLE \in Nat, NEW f, f.characteristic # ANY, NEW s \in peer,
         NEW r \in Expected(f)
  PROVE  r.handle # s.handle
<1>1. PICK t \in peer : r \in ReportsOf(f, t)
  BY DEF Expected
<1>2. PICK c \in t.chars : r = OfChar(t, c)
  BY <1>1 DEF ReportsOf, OfChar
<1>3. r.handle = c.handle
  BY <1>2 DEF OfChar, Characteristic
<1>4. /\ s.handle \in Nat /\ s.end \in Nat /\ t.handle \in Nat /\ t.end \in Nat
      /\ s.handle < s.end /\ (t # s => s.end < t.handle \/ t.end < s.handle)
      /\ c.handle \in Nat /\ c.value \in Nat
      /\ t.handle < c.handle /\ c.handle < c.value /\ c.value <= t.end
  BY DEF IsTable
<1> QED
  BY <1>3, <1>4

\* The service at the index is reported, if the filter wants services.
LEMMA ServiceTold ==
  ASSUME IsTable, SRV_DISC_END_HANDLE \in Nat, NEW d, Open(d), NEW s \in peer,
         MatchesService(d.filter, s), ToldTo(d, s.handle), NEW x \in Nat, x = s.handle + 1,
         NEW e, IF d.filter.characteristic = ANY THEN e \in Callback(d, Service(s), TRUE)
                ELSE e = d
  PROVE  ToldTo(e, x) /\ (Unmoved(d, e) \/ StoppedFrom(d, e))
<1>1. /\ s.handle \in Nat /\ s.end \in Nat /\ s.handle < s.end /\ s.end <= SRV_DISC_END_HANDLE
  BY DEF IsTable
<1>2. x \in Handles /\ s.handle < x
  BY <1>1 DEF Handles
<1>3. \A q \in Expected(d.filter) : q.handle \in Nat
  BY ExpectedIn
<1>4. CASE d.filter.characteristic # ANY
  <2>1. \A q \in Expected(d.filter) : q.handle # s.handle
    BY <1>4, NoneDeclared
  <2>2. \A q \in Expected(d.filter) : q.handle < s.handle <=> q.handle < x
    BY <1>1, <1>3, <2>1
  <2>3. e = d
    BY <1>4
  <2>4. ToldTo(e, x)
    BY <1>2, <2>2, <2>3, ToldOn
  <2> QED
    BY <2>3, <2>4 DEF Unmoved, Carries
<1>5. CASE d.filter.characteristic = ANY
  <2>1. Service(s) \in Expected(d.filter)
    <3>1. Service(s) \in ReportsOf(d.filter, s)
      BY <1>5 DEF ReportsOf
    <3> QED
      BY <3>1 DEF Expected
  <2>2. PICK r \in Expected(d.filter) : r = Service(s)
    BY <2>1
  <2>3. r.handle = s.handle
    BY <2>2 DEF Service
  <2>4. \A q \in Expected(d.filter) : s.handle <= q.handle /\ q.handle < x => q = r
    <3> SUFFICES ASSUME NEW q \in Expected(d.filter), s.handle <= q.handle, q.handle < x
                 PROVE  q = r
      OBVIOUS
    <3>1. q.handle = r.handle
      BY <1>1, <1>3, <2>3
    <3> QED
      BY <3>1, ExpectedOnce
  <2>5. e \in Callback(d, r, TRUE) /\ TRUE \in BOOLEAN
    BY <1>5, <2>2
  <2>6. \/ Unmoved(d, e) /\ e.told = Append(d.told, r)
        \/ StoppedFrom(d, e) /\ e.told = Append(Append(d.told, r), End)
    BY <2>5, CallbackIs
  <2>7. e.filter = d.filter
    BY <2>6 DEF Unmoved, StoppedFrom, Carries
  <2>8. PICK h : h = s.handle
    OBVIOUS
  <2>9. h <= r.handle /\ r.handle < x /\ ToldTo(d, h)
    BY <1>1, <1>2, <2>3, <2>8
  <2>10. \A q \in Expected(d.filter) : h <= q.handle /\ q.handle < x => q = r
    BY <2>4, <2>8
  <2>11. Sequence(d.told) /\ Silent(d.told)
    BY DEF Open, IsDisc
  <2>12. e.told = Append(d.told, r) \/ e.told = Append(Append(d.told, r), End)
    BY <2>6
  <2>13. ToldTo(e, x)
    BY <1>2, <2>7, <2>9, <2>10, <2>11, <2>12, ToldMore
  <2> QED
    BY <2>6, <2>13
<1> QED
  BY <1>4, <1>5

\* The next service of the cache is reported, and its characteristics asked for.
LEMMA NextServiceReports ==
  ASSUME Table, DiscoveryInv, ReportRight, NextService
  PROVE  ReportRight'
<1>0. IsTable /\ SRV_DISC_END_HANDLE \in Nat /\ link
  BY DEF Table, ReportRight
<1>1. /\ pc = "progressServiceDiscovery" /\ UNCHANGED <<events, link, peer>> /\ pc' = pc
      /\ pc' # "idle" /\ pc # "idle"
      /\ disc.state = "SERVICE_DISCOVERY_ACTIVE" /\ disc.serviceIndex < disc.numServices
  BY DEF NextService, Goto
<1>2. /\ disc.request = NoRequest /\ \A k \in Rest : events[k].kind = "disconnected"
  BY <1>1, Undisturbed DEF NothingToDo
<1>3. Open(disc)
  BY <1>1, Known DEF isActive
<1>4. disc.filter \in Filters
  BY DEF ReportRight, Right
<1>5. AtServices(disc)
  <2>1. ~AwaitsServices(disc)
    BY <1>1 DEF AwaitsServices
  <2> QED
    BY <1>1, <2>1 DEF ReportRight, Right, Over, AwaitsCharacteristics, HasCharacteristics
<1>6. ServicesIn(disc) /\ disc.discoveredCharacteristic = None
      /\ ToldTo(disc, disc.services[disc.serviceIndex].handle)
  BY <1>1, <1>5 DEF AtServices, NextIn
<1>7. PICK v : v = disc.services[disc.serviceIndex]
  OBVIOUS
<1>8. PICK s \in peer : v.handle = s.handle /\ v.end = s.end /\ v.uuid = s.uuid
  <2>1. disc.serviceIndex \in 0 .. disc.numServices - 1
    <3>1. disc.numServices \in Nat /\ disc.serviceIndex \in 0 .. disc.numServices
      BY <1>6, DiscoveryAssumption DEF ServicesIn, DiscoveryAssumption
    <3> QED
      BY <1>1, <3>1
  <2>2. PICK s \in peer : ServiceAt(disc, disc.serviceIndex, s)
    BY <1>6, <2>1 DEF ServicesIn
  <2> QED
    BY <1>1, <1>7, <2>2 DEF ServiceAt, Reads
<1>9. /\ Service(v) = Service(s)
      /\ MatchesService(disc.filter, v) = MatchesService(disc.filter, s)
  BY <1>8 DEF Service, MatchesService
<1>10. ToldTo(disc, s.handle)
  BY <1>6, <1>7, <1>8
<1>11. PICK x \in Nat : x = s.handle + 1
  BY <1>0 DEF IsTable
<1>12. s.handle \in Nat /\ s.end \in Nat /\ s.handle < s.end /\ s.end + 1 \in Handles
  BY <1>0 DEF IsTable, Handles
\* The service is over: the index goes on.
<1>13. ASSUME NEW d, Unmoved(disc, d), d = [f \in Fields |-> d[f]],
              disc' = [d EXCEPT !.serviceIndex = @ + 1], ToldTo(d, s.end + 1)
       PROVE  ReportRight'
  <2>1. /\ disc'.told = d.told /\ disc'.filter = d.filter /\ disc'.state = d.state
        /\ disc'.services = d.services /\ disc'.numServices = d.numServices
        /\ disc'.serviceIndex = d.serviceIndex + 1 /\ disc'.request = d.request
        /\ disc'.discoveredCharacteristic = d.discoveredCharacteristic
    BY <1>13 DEF Fields
  <2>2. /\ disc'.filter = disc.filter /\ disc'.state = disc.state
        /\ disc'.services = disc.services /\ disc'.numServices = disc.numServices
        /\ disc'.serviceIndex = disc.serviceIndex + 1 /\ disc'.request = disc.request
        /\ disc'.discoveredCharacteristic = None
    BY <1>6, <1>13, <2>1 DEF Unmoved, Carries
  <2>3. ToldTo(disc', s.end + 1)
    <3>1. PICK y : y = s.end + 1
      OBVIOUS
    <3>2. ToldTo(d, y)
      BY <1>13, <3>1
    <3>3. ToldTo(disc', y)
      BY <2>1, <3>2, ToldStays
    <3> QED
      BY <3>1, <3>3
  <2>4. AtServices(disc')
    <3>1. /\ disc.services[disc.serviceIndex].handle = s.handle
          /\ disc.services[disc.serviceIndex].end = s.end
      BY <1>7, <1>8
    <3>2. disc'.state = "SERVICE_DISCOVERY_ACTIVE" /\ disc.state # "DISCOVER_SERVICE_UUIDS"
      BY <1>1, <2>2
    <3> QED
      BY <1>0, <1>1, <1>6, <2>2, <2>3, <3>1, <3>2, ServiceDone
  <2>5. Right(disc', pc', i') /\ RequestRight(disc')
    BY <1>2, <1>4, <2>2, <2>4, ServicesRight DEF RequestRight, NoRequest
  <2> QED
    BY <1>0, <1>1, <1>2, <2>5, Goes
<1>14. CASE ~MatchesService(disc.filter, s)
  <2>1. disc' = [disc EXCEPT !.serviceIndex = @ + 1]
    BY <1>7, <1>9, <1>14 DEF NextService
  <2>2. \A r \in Expected(disc.filter) : r.handle < s.handle <=> r.handle < s.end + 1
    BY <1>0, <1>14, NoneOfOthers
  <2>3. ToldTo(disc, s.end + 1)
    <3>1. PICK h, y : h = s.handle /\ y = s.end + 1
      OBVIOUS
    <3>2. ToldTo(disc, y)
      BY <1>0, <1>10, <1>12, <2>2, <3>1, ToldOn
    <3> QED
      BY <3>1, <3>2
  <2>4. Unmoved(disc, disc)
    BY DEF Unmoved, Carries
  <2> QED
    BY <1>3, <1>13, <2>1, <2>3, <2>4 DEF Open, IsDisc
<1>15. CASE MatchesService(disc.filter, s)
  <2>1. PICK d :
          /\ IF disc.filter.characteristic = ANY THEN d \in Callback(disc, Service(s), TRUE) ELSE d = disc
          /\ IF isActive(d) /\ d.filter.wanted THEN disc' \in launchCharacteristicDiscovery(d)
             ELSE disc' = [d EXCEPT !.serviceIndex = @ + 1]
    <3> DEFINE Reports == IF disc.filter.characteristic = ANY
                          THEN Callback(disc, Service(s), TRUE) ELSE {disc}
               Skip(e) == {[e EXCEPT !.serviceIndex = @ + 1]}
    <3>1. \E d \in Reports : disc' \in IF isActive(d) /\ d.filter.wanted
                                       THEN launchCharacteristicDiscovery(d) ELSE Skip(d)
      BY <1>7, <1>9, <1>15 DEF NextService
    <3>2. \A d \in Reports :
            IF disc.filter.characteristic = ANY THEN d \in Callback(disc, Service(s), TRUE) ELSE d = disc
      OBVIOUS
    <3> HIDE DEF Reports
    <3> QED
      BY <3>1, <3>2
  <2>2. ToldTo(d, x) /\ (Unmoved(disc, d) \/ StoppedFrom(disc, d))
    BY <1>0, <1>3, <1>10, <1>11, <1>15, <2>1, ServiceTold
  <2>3. d = [f \in Fields |-> d[f]] /\ (isActive(d) => Open(d))
    <3>1. Service(s) # End
      BY DEF Service, End
    <3>2. CASE disc.filter.characteristic = ANY
      <4>1. Reported(disc, d)
        BY <1>3, <2>1, <3>1, <3>2, CallbackReports
      <4> QED
        BY <4>1 DEF Reported, Open, Ended, IsDisc
    <3> QED
      BY <1>3, <2>1, <3>2 DEF Open, IsDisc
  <2>4. CASE StoppedFrom(disc, d)
    <3>1. disc' = [d EXCEPT !.serviceIndex = @ + 1]
      BY <2>1, <2>4 DEF StoppedFrom, isActive
    <3>2. /\ disc'.told = d.told /\ disc'.filter = d.filter /\ disc'.state = "INACTIVE"
          /\ disc'.stopped = TRUE /\ disc'.request = disc.request /\ d.filter = disc.filter
      BY <2>3, <2>4, <3>1 DEF Fields, StoppedFrom, Carries
    <3>3. ToldTo(disc', x)
      BY <2>2, <3>2, ToldStays
    <3>4. Right(disc', pc', i')
      BY <1>4, <3>2, <3>3 DEF Right, Over, Telling, ToldTo
    <3>5. RequestRight(disc')
      BY <1>2, <3>2 DEF RequestRight, NoRequest
    <3> QED
      BY <1>0, <1>1, <1>2, <3>4, <3>5, Goes
  <2>5. CASE Unmoved(disc, d) /\ ~d.filter.wanted
    <3>1. disc' = [d EXCEPT !.serviceIndex = @ + 1]
      BY <2>1, <2>5
    <3>2. \A r \in Expected(d.filter) : r.handle < x <=> r.handle < s.end + 1
      BY <1>0, <1>11, <2>5, NoneUnwanted
    <3>3. ToldTo(d, s.end + 1)
      <4>1. PICK y : y = s.end + 1
        OBVIOUS
      <4>2. ToldTo(d, y)
        BY <1>0, <1>12, <2>2, <3>2, <4>1, ToldOn
      <4> QED
        BY <4>1, <4>2
    <3> QED
      BY <1>13, <2>3, <2>5, <3>1, <3>3
  <2>6. CASE Unmoved(disc, d) /\ d.filter.wanted
    <3>1. isActive(d) /\ d.request = NoRequest /\ Accepts(d)
      BY <1>0, <1>1, <1>2, <2>6 DEF Unmoved, Carries, isActive, Accepts
    <3>2. disc' \in launchCharacteristicDiscovery(d)
      BY <2>1, <2>6, <3>1
    <3>3. PICK r : r = [kind |-> "characteristics", from |-> s.handle, to |-> s.end]
      OBVIOUS
    <3>4. d.services[d.serviceIndex] = v
      BY <1>7, <2>6 DEF Unmoved, Carries
    <3>5. disc' = [[d EXCEPT !.state = "CHARACTERISTIC_DISCOVERY_ACTIVE", !.numCharacteristics = 0]
                     EXCEPT !.request = r]
      BY <1>8, <3>1, <3>2, <3>3, <3>4 DEF launchCharacteristicDiscovery, Accepts
    <3>6. /\ disc'.told = d.told /\ disc'.filter = d.filter
          /\ disc'.state = "CHARACTERISTIC_DISCOVERY_ACTIVE"
          /\ disc'.services = d.services /\ disc'.numServices = d.numServices
          /\ disc'.serviceIndex = d.serviceIndex /\ disc'.numCharacteristics = 0
          /\ disc'.discoveredCharacteristic = d.discoveredCharacteristic /\ disc'.request = r
      BY <2>3, <3>5 DEF Fields
    <3>7. /\ d.filter = disc.filter /\ d.services = disc.services
          /\ d.numServices = disc.numServices /\ d.serviceIndex = disc.serviceIndex
          /\ d.discoveredCharacteristic = None
      BY <1>6, <2>6 DEF Unmoved, Carries
    <3>8. InService(disc', s)
      <4>1. InService(disc, s)
        BY <1>1, <1>6, <1>7, <1>8, <1>15, <2>6, <3>7 DEF InService
      <4> QED
        BY <1>1, <3>6, <3>7, <4>1, InServiceStays
    <3>9. Through(disc', s, x, s.handle)
      <4>1. ToldTo(disc', x)
        BY <2>2, <3>6, ToldStays
      <4>2. \A b \in s.chars : x <= b.handle <=> s.handle <= b.handle
        <5>1. \A b \in s.chars : b.handle \in Nat /\ s.handle < b.handle
          BY <1>0 DEF IsTable
        <5> QED
          BY <1>11, <1>12, <5>1
      <4> QED
        BY <1>11, <1>12, <4>1, <4>2 DEF Through
    <3>10. Position(disc', s, s.handle)
      <4>1. x \in Handles
        BY <3>9 DEF Through, ToldTo
      <4> QED
        BY <3>6, <3>7, <3>9, <4>1 DEF Position
    <3>11. AwaitsCharacteristics(disc')
      BY <3>6, <3>8 DEF AwaitsCharacteristics
    <3>12. RequestRight(disc')
      BY <1>12, <3>3, <3>6, <3>8, <3>10, <3>11 DEF RequestRight, Asking
    <3>13. Right(disc', pc', i')
      BY <1>1, <1>4, <3>6, <3>7, <3>10, <3>11, PositionTells DEF Right
    <3> QED
      BY <1>0, <1>1, <1>2, <3>12, <3>13, Goes
  <2> QED
    BY <2>2, <2>4, <2>5, <2>6
<1> QED
  BY <1>14, <1>15

\* The end is told.
LEMMA ToldEnd ==
  ASSUME NEW d, Sequence(d.told), NEW h, ToldTo(d, h),
         NEW e, e.told = Append(d.told, End), e.filter = d.filter
  PROVE  ToldTo(e, h)
<1>1. PICK T : d.told \in Seq(T)
  BY DEF Sequence
<1>2. PICK n \in Nat : n = Len(d.told) /\ DOMAIN d.told = 1 .. n
  BY <1>1
<1>3. d.told \in Seq(T \cup {End})
  BY <1>1
<1>4. /\ DOMAIN e.told = 1 .. n + 1 /\ \A k \in 1 .. n : e.told[k] = d.told[k]
      /\ e.told[n + 1] = End
  BY <1>2, <1>3
<1>5. \A k \in 1 .. n + 1 : k \in 1 .. n \/ k = n + 1
  OBVIOUS
<1>6. \A k \in 1 .. n : k \in 1 .. n + 1
  OBVIOUS
<1>7. Heard(e) = Heard(d)
  BY <1>2, <1>4, <1>5, <1>6 DEF Heard
<1>8. InOrder(e)
  <2> SUFFICES ASSUME NEW j \in 1 .. n + 1, NEW k \in 1 .. n + 1, j < k, e.told[k] # End
               PROVE  e.told[j].handle < e.told[k].handle
    BY <1>4 DEF InOrder
  <2>1. j \in 1 .. n /\ k \in 1 .. n
    BY <1>4
  <2>2. InOrder(d)
    BY DEF ToldTo
  <2> QED
    BY <1>2, <1>4, <2>1, <2>2 DEF InOrder
<1> QED
  BY <1>7, <1>8 DEF ToldTo

\* The discovery ends: its application is told the end.
LEMMA TerminateTells ==
  ASSUME NEW d, Open(d), NEW h, ToldTo(d, h), NEW x, x = terminateServiceDiscovery(d)
  PROVE  ToldTo(x, h) /\ Carries(d, x) /\ x.state = "INACTIVE"
<1>1. /\ x.told = Append(d.told, End) /\ Carries(d, x) /\ x.state = "INACTIVE"
  BY DEF Open, IsDisc, Fields, terminateServiceDiscovery, Carries
<1>2. Sequence(d.told) /\ x.filter = d.filter
  BY <1>1 DEF Open, IsDisc, Carries
<1> QED
  BY <1>1, <1>2, ToldEnd

\* The cache is done with: the services behind it are asked for, or all is told.
LEMMA MoreServicesReports ==
  ASSUME Table, DiscoveryInv, ReportRight, MoreServices
  PROVE  ReportRight'
<1> DEFINE last == disc.services[disc.serviceIndex - 1].end
           more == /\ disc.state = "SERVICE_DISCOVERY_ACTIVE" /\ disc.numServices > 0
                   /\ disc.serviceIndex > 0
<1>0. IsTable /\ SRV_DISC_END_HANDLE \in Nat /\ link
  BY DEF Table, ReportRight
<1>1. PICK d : d = [disc EXCEPT !.numServices = 0, !.serviceIndex = 0]
  OBVIOUS
<1>2. /\ pc = "progressServiceDiscovery" /\ pc' = "idle" /\ events' = Tail(events)
      /\ UNCHANGED <<link, peer>>
      /\ ~(disc.state = "SERVICE_DISCOVERY_ACTIVE" /\ disc.serviceIndex < disc.numServices)
  BY DEF MoreServices
<1>3. disc' = IF ~more THEN disc
              ELSE IF last # SRV_DISC_END_HANDLE /\ Accepts(d)
              THEN [d EXCEPT !.request = [kind |-> "services", from |-> last]]
              ELSE terminateServiceDiscovery(d)
  <2>1. Head(events).kind # "disconnected"
    <3>1. 1 \in 1 .. Len(events) /\ Head(events) = events[1]
      BY <1>2 DEF DiscoveryInv, Queued, Sequence
    <3> QED
      BY <1>0, <3>1 DEF DiscoveryInv, Queued
  <2>2. \A x : Closed(x, Head(events)) = x
    BY <2>1 DEF Closed
  <2> QED
    BY <1>1, <2>2 DEF MoreServices
<1>4. /\ Len(events') \in Nat /\ \A k \in Rest' : k + 1 \in Rest /\ events'[k] = events[k + 1]
  BY <1>2, Passed
<1>5. disc.filter \in Filters
  BY DEF ReportRight, Right
<1> HIDE DEF more, last
<1>6. CASE ~more
  <2>1. disc' = disc
    BY <1>3, <1>6
  <2>2. Right(disc', pc', i')
    <3>1. CASE disc.state # "CHARACTERISTIC_DISCOVERY_ACTIVE"
      BY <2>1, <3>1, RightAnywhere DEF ReportRight
    <3>2. CASE disc.state = "CHARACTERISTIC_DISCOVERY_ACTIVE"
      <4>1. AwaitsCharacteristics(disc)
        BY <1>2, <3>2 DEF ReportRight, Right, Over, AwaitsServices, AtServices, HasCharacteristics
      <4> QED
        BY <1>2, <2>1, <4>1 DEF ReportRight, Right
    <3> QED
      BY <3>1, <3>2
  <2>3. \A k \in Rest' : EventRight(disc', events'[k])
    BY <1>4, <2>1 DEF ReportRight
  <2>4. RequestRight(disc')
    BY <2>1 DEF ReportRight
  <2> QED
    BY <1>0, <1>2, <2>2, <2>3, <2>4, Then
<1>7. CASE more
  <2>1. /\ disc.request = NoRequest /\ \A k \in Rest : events[k].kind = "disconnected"
    BY <1>2, <1>7, Undisturbed DEF more, NothingToDo
  <2>2. Rest' = {}
    <3>1. \A k \in Rest : k \in 1 .. Len(events)
      BY <1>2, Known DEF Rest
    <3>2. Rest = {}
      BY <1>0, <2>1, <3>1 DEF DiscoveryInv, Queued
    <3> QED
      BY <1>4, <3>2
  <2>3. Open(disc)
    BY <1>7, Known DEF more, isActive
  <2>4. AtServices(disc)
    <3>1. ~AwaitsServices(disc)
      BY <1>7 DEF more, AwaitsServices
    <3> QED
      BY <1>7, <3>1 DEF more, ReportRight, Right, Over, AwaitsCharacteristics, HasCharacteristics
  <2>5. PICK n \in Nat : n = disc.numServices /\ n > 0 /\ disc.serviceIndex = n
    <3>1. disc.numServices \in Nat /\ disc.serviceIndex \in 0 .. disc.numServices
      BY <2>4, DiscoveryAssumption DEF AtServices, ServicesIn, DiscoveryAssumption
    <3> QED
      BY <1>2, <1>7, <3>1 DEF more
  <2>6. PICK m \in 0 .. n - 1 : m = n - 1
    BY <2>5
  <2>7. PICK s \in peer : disc.services[m].end = s.end
    BY <2>4, <2>5, <2>6 DEF AtServices, ServicesIn, ServiceAt
  <2>8. PICK y : y = s.end
    OBVIOUS
  <2>9. PICK z : z = s.end + 1
    OBVIOUS
  <2>10. last = y
    BY <2>5, <2>6, <2>7, <2>8 DEF last
  <2>11. ToldTo(disc, z)
    <3>1. NextIn(disc) = z
      BY <2>5, <2>6, <2>7, <2>9 DEF NextIn
    <3> QED
      BY <2>4, <3>1 DEF AtServices
  <2>12. /\ s.end \in Nat /\ s.end <= SRV_DISC_END_HANDLE /\ y \in Handles /\ z \in Handles
    BY <1>0, <2>8, <2>9 DEF IsTable, Handles
  <2>13. /\ d = [f \in Fields |-> d[f]] /\ d.told = disc.told /\ d.filter = disc.filter
         /\ d.state = disc.state /\ d.numServices = 0 /\ d.serviceIndex = 0
         /\ d.request = disc.request /\ d.discoveredCharacteristic = None
    BY <1>1, <2>3, <2>4 DEF Open, IsDisc, Fields, AtServices
  <2>14. Open(d)
    BY <2>3, <2>13 DEF Open, IsDisc, isActive
  <2>15. Accepts(d)
    BY <1>0, <2>1, <2>13 DEF Accepts
  <2>16. Right(disc', pc', i') /\ RequestRight(disc')
    <3>1. CASE y # SRV_DISC_END_HANDLE
      <4>1. PICK r : r = [kind |-> "services", from |-> y]
        OBVIOUS
      <4>2. disc' = [d EXCEPT !.request = r]
        BY <1>3, <1>7, <2>10, <2>15, <3>1, <4>1
      <4>3. /\ disc'.told = disc.told /\ disc'.filter = disc.filter
            /\ disc'.state = "SERVICE_DISCOVERY_ACTIVE" /\ disc'.numServices = 0
            /\ disc'.serviceIndex = 0 /\ disc'.request = r
            /\ disc'.discoveredCharacteristic = None
        BY <1>7, <2>13, <4>2 DEF Fields, more
      <4>4. ToldTo(disc', y)
        <5>1. \A q \in Expected(disc.filter) : q.handle < z <=> q.handle < y
          BY <1>0, <2>8, <2>9, NoneAtEnd
        <5> QED
          BY <1>0, <2>11, <2>12, <4>3, <5>1, ToldOn
      <4>5. Between(y)
        BY <1>0, <2>8, EndIsBetween
      <4>6. AwaitsServices(disc')
        BY <4>3 DEF AwaitsServices
      <4>7. RequestRight(disc')
        BY <4>1, <4>3, <4>4, <4>5, <4>6 DEF RequestRight
      <4> QED
        BY <1>5, <4>3, <4>4, <4>6, <4>7 DEF Right, Telling, ToldTo
    <3>2. CASE y = SRV_DISC_END_HANDLE
      <4>1. disc' = terminateServiceDiscovery(d)
        BY <1>3, <1>7, <2>10, <3>2
      <4>2. ToldTo(d, z)
        BY <2>11, <2>13, ToldStays
      <4>3. ToldTo(disc', z) /\ Carries(d, disc') /\ disc'.state = "INACTIVE"
        BY <2>14, <4>1, <4>2, TerminateTells
      <4>4. ToldTo(disc', SRV_DISC_END_HANDLE + 1)
        BY <2>8, <2>9, <3>2, <4>3
      <4>5. Over(disc')
        BY <4>3, <4>4 DEF Over
      <4>6. disc'.request = NoRequest /\ disc'.filter = disc.filter
        BY <2>1, <2>13, <4>3 DEF Carries
      <4> QED
        BY <1>5, <4>3, <4>5, <4>6 DEF Right, Telling, ToldTo, RequestRight, NoRequest
    <3> QED
      BY <3>1, <3>2
  <2> QED
    BY <1>0, <1>2, <2>2, <2>16, Then
<1> QED
  BY <1>6, <1>7

\* Behind the answer that is handled, while the link is there, there is none.
LEMMA Alone ==
  ASSUME DiscoveryInv, bleGattcEventHandler, link,
         \/ Head(events).kind \in {"services", "characteristics"}
         \/ Head(events).kind = "uuid" /\ disc.state \in Reading
  PROVE  disc.request = NoRequest /\ Rest' = {}
<1> DEFINE e == Head(events)
<1>1. \A k \in Rest' : events[k].kind \in Kinds /\ events[k].kind # "disconnected"
  BY Taken DEF DiscoveryInv, Queued
<1>2. \A k \in Rest' : Rank(e.kind) < Rank(events[k].kind) /\ IsAhead(events[k].kind)
  BY Taken DEF IsAhead
<1>3. disc.request # NoRequest =>
        /\ Rank(e.kind) < Rank(disc.request.kind)
        /\ disc.request.kind \in {"services", "characteristics", "uuid"}
        /\ Awaited(disc.request.kind)
  BY Taken DEF DiscoveryInv, Asked, Awaited
<1> HIDE DEF e
<1>4. CASE e.kind \in {"services", "characteristics"}
  BY <1>1, <1>2, <1>3, <1>4 DEF Rank, Kinds
<1>5. CASE e.kind = "uuid" /\ disc.state \in Reading
  <2>1. ~Awaited("services") /\ ~Awaited("characteristics")
    BY <1>5 DEF Reading, DiscoveryInv, Expecting
  <2>2. ~IsAhead("services") /\ ~IsAhead("characteristics")
    BY <2>1 DEF Awaited
  <2> QED
    BY <1>1, <1>2, <1>3, <1>5, <2>1, <2>2 DEF Rank, Kinds
<1> QED
  BY <1>4, <1>5 DEF e

\* The handler of the answers, of each kind.
LEMMA EventHandlerReports ==
  ASSUME Table, "last" \notin Trouble, DiscoveryInv, IndexInv, ReportRight, bleGattcEventHandler
  PROVE  ReportRight'
<1>0. IsTable /\ SRV_DISC_END_HANDLE \in Nat /\ link
  BY DEF Table, ReportRight
<1>1. PICK e : e = Head(events)
  OBVIOUS
<1>2. /\ pc = "idle" /\ pc' = "progressCharacteristicDiscovery" /\ i' = 0
      /\ UNCHANGED <<events, link, peer>> /\ disc' \in Handled(disc, e)
  BY <1>1 DEF bleGattcEventHandler
<1>3. /\ e.kind \in Kinds /\ IsAhead(e.kind) /\ Rest' \subseteq Rest
      /\ e.kind = "disconnected" => disc.request = NoRequest
  BY <1>1, Taken
<1>4. 1 \in Rest /\ e = events[1] /\ 1 \in 1 .. Len(events)
  <2>1. events # <<>> /\ Sequence(events)
    BY Taken
  <2> QED
    BY <1>1, <1>2, <2>1 DEF Sequence, Rest
<1>5. EventRight(disc, e) /\ Right(disc, pc, i) /\ RequestRight(disc)
  BY <1>4 DEF ReportRight
<1>6. disc.filter \in Filters /\ Sound(disc.filter)
  BY <1>5 DEF Table, Right
<1>7. e.kind # "disconnected"
  BY <1>0, <1>4 DEF DiscoveryInv, Queued
\* It is of no concern.
<1>8. ASSUME disc' = disc, e.kind \in {"other", "uuid"}
      PROVE  ReportRight'
  <2>1. Quiet(disc)
    BY <1>3, <1>8 DEF DiscoveryInv, Calm
  <2>2. Right(disc', pc', i')
    BY <1>5, <1>8, <2>1, RightAnywhere DEF Quiet
  <2>3. \A k \in Rest' : EventRight(disc', events'[k])
    BY <1>2, <1>3, <1>8 DEF ReportRight
  <2> QED
    BY <1>0, <1>2, <1>5, <1>8, <2>2, <2>3, Then
\* It leads on.
<1>9. ASSUME Right(disc', pc', i'), RequestRight(disc'), Rest' = {}
      PROVE  ReportRight'
  BY <1>0, <1>2, <1>9, Then
<1>10. CASE e.kind = "services"
  <2>1. disc.request = NoRequest /\ Rest' = {}
    BY <1>0, <1>1, <1>10, Alone
  <2>2. AwaitsServices(disc)
    BY <1>5, <1>10 DEF EventRight
  <2>3. Open(disc)
    BY <2>2, Known DEF AwaitsServices, isActive
  <2>4. CASE e.ok
    <3>1. PICK q : q = e.found
      OBVIOUS
    <3>2. FoundIn(q, peer) /\ ToldTo(disc, q[1].handle)
      BY <1>5, <1>10, <2>4, <3>1 DEF EventRight
    <3>3. disc' = setupDiscoveredServices(disc, q)
      BY <1>2, <1>10, <2>4, <3>1 DEF Handled
    <3>4. AtServices(disc') /\ RequestRight(disc') /\ disc'.filter = disc.filter
      BY <1>0, <2>1, <2>2, <2>3, <3>2, <3>3, ServicesCached DEF AwaitsServices
    <3> QED
      BY <1>6, <1>9, <2>1, <3>4, ServicesRight
  <2>5. CASE ~e.ok
    <3>1. PICK h : h = SRV_DISC_END_HANDLE + 1
      OBVIOUS
    <3>2. ToldTo(disc, h)
      BY <1>5, <1>10, <2>5, <3>1 DEF EventRight
    <3>3. disc' = terminateServiceDiscovery(disc)
      BY <1>2, <1>10, <2>5 DEF Handled
    <3>4. ToldTo(disc', h) /\ Carries(disc, disc') /\ disc'.state = "INACTIVE"
      BY <2>3, <3>2, <3>3, TerminateTells
    <3>5. Over(disc')
      BY <3>1, <3>4 DEF Over
    <3>6. Right(disc', pc', i') /\ RequestRight(disc')
      BY <1>6, <2>1, <3>4, <3>5 DEF Right, Telling, ToldTo, Carries, RequestRight, NoRequest
    <3> QED
      BY <1>9, <2>1, <3>6
  <2> QED
    BY <2>4, <2>5
<1>11. CASE e.kind = "characteristics"
  <2>1. disc.request = NoRequest /\ Rest' = {}
    BY <1>0, <1>1, <1>11, Alone
  <2>2. disc.state = "CHARACTERISTIC_DISCOVERY_ACTIVE"
    BY <1>5, <1>11 DEF EventRight, AwaitsCharacteristics
  <2>3. Open(disc)
    BY <2>2, Known DEF isActive
  <2>4. PICK s \in peer :
          IF e.ok THEN FoundIn(e.found, s.chars) /\ Asking(disc, s, e.found[1].handle)
          ELSE Asking(disc, s, s.end + 1)
    BY <1>5, <1>11 DEF EventRight
  <2>5. CASE e.ok
    <3>1. PICK q : q = e.found
      OBVIOUS
    <3>2. FoundIn(q, s.chars) /\ Asking(disc, s, q[1].handle)
      BY <2>4, <2>5, <3>1
    <3>3. disc' = setupDiscoveredCharacteristics(disc, q)
      BY <1>2, <1>11, <2>5, <3>1 DEF Handled
    <3>4. /\ HasCharacteristics(disc', s, "progressCharacteristicDiscovery", 0)
          /\ RequestRight(disc') /\ Telling(disc') /\ disc'.filter = disc.filter
      BY <1>0, <2>1, <2>2, <2>3, <3>2, <3>3, CharacteristicsCached
    <3>5. Right(disc', pc', i')
      BY <1>2, <1>6, <3>4 DEF Right
    <3> QED
      BY <1>9, <2>1, <3>4, <3>5
  <2>6. CASE ~e.ok
    <3>1. PICK h \in Nat : h = s.end + 1
      BY <1>0 DEF IsTable
    <3>2. Asking(disc, s, h)
      BY <2>4, <2>6, <3>1
    <3>3. h <= s.end + 1 /\ \A b \in s.chars : b.handle < h
      <4>1. s.end \in Nat /\ \A b \in s.chars : b.handle \in Nat /\ b.value \in Nat
                                                /\ b.handle < b.value /\ b.value <= s.end
        BY <1>0 DEF IsTable
      <4> QED
        BY <3>1, <4>1
    <3>4. disc' \in terminateCharacteristicDiscovery(disc, TRUE)
      BY <1>2, <1>11, <2>6 DEF Handled
    <3>5. AtServices(disc') /\ disc'.filter = disc.filter /\ disc'.request = disc.request
      BY <1>0, <1>6, <2>2, <2>3, <3>2, <3>3, <3>4, CharacteristicsEnd
    <3>6. Right(disc', pc', i') /\ RequestRight(disc')
      BY <1>6, <2>1, <3>5, ServicesRight DEF RequestRight, NoRequest
    <3> QED
      BY <1>9, <2>1, <3>6
  <2> QED
    BY <2>5, <2>6
<1>12. CASE e.kind = "uuid" /\ disc.state \in Reading
  <2>1. disc.request = NoRequest /\ Rest' = {}
    BY <1>0, <1>1, <1>12, Alone
  <2>2. isActive(disc) /\ Open(disc)
    BY <1>12, Known DEF Reading, isActive
  <2>3. OfIts(disc, e.of) /\ e.ok /\ e.uuid = UUIDAt(e.handle)
    BY <1>5, <1>12 DEF EventRight
  <2>4. MeetsIndex(disc, e.handle)
    BY <1>4, <1>12 DEF IndexInv
  <2>5. disc' = processDiscoverUUIDResponse(disc, e)
    BY <1>2, <1>12, <2>2 DEF Handled
  <2>6. CASE disc.state = "DISCOVER_SERVICE_UUIDS"
    <3>1. AtServices(disc)
      BY <1>5, <2>6 DEF Right, Over, AwaitsServices, AwaitsCharacteristics, HasCharacteristics
    <3>2. e.of = "service"
      BY <2>3, <2>6 DEF OfIts
    <3>3. AtServices(disc') /\ RequestRight(disc') /\ disc'.filter = disc.filter
      BY <1>0, <2>1, <2>2, <2>3, <2>4, <2>5, <2>6, <3>1, <3>2, ServiceUUIDRead
    <3> QED
      BY <1>6, <1>9, <2>1, <3>3, ServicesRight
  <2>7. CASE disc.state = "DISCOVER_CHARACTERISTIC_UUIDS"
    <3>1. PICK s \in peer : HasCharacteristics(disc, s, pc, i)
      BY <1>5, <2>7 DEF Right, Over, AwaitsServices, AtServices, AwaitsCharacteristics
    <3>2. HasCharacteristics(disc, s, "idle", 0)
      BY <2>7, <3>1 DEF HasCharacteristics
    <3>3. e.of = "characteristic"
      BY <2>3, <2>7 DEF OfIts
    <3>4. /\ HasCharacteristics(disc', s, "progressCharacteristicDiscovery", 0)
          /\ RequestRight(disc') /\ Telling(disc') /\ disc'.filter = disc.filter
      BY <1>0, <2>1, <2>2, <2>3, <2>4, <2>5, <2>7, <3>2, <3>3, CharacteristicUUIDRead
    <3>5. Right(disc', pc', i')
      BY <1>2, <1>6, <3>4 DEF Right
    <3> QED
      BY <1>9, <2>1, <3>4, <3>5
  <2> QED
    BY <1>12, <2>6, <2>7 DEF Reading
<1>13. CASE e.kind = "uuid" /\ disc.state \notin Reading
  <2>1. disc' = disc
    <3>1. CASE isActive(disc)
      BY <1>2, <1>13, <3>1, Known, UUIDGoesOn DEF Handled
    <3>2. CASE ~isActive(disc)
      BY <1>2, <1>13, <3>2 DEF Handled
    <3> QED
      BY <3>1, <3>2
  <2> QED
    BY <1>8, <1>13, <2>1
<1>14. CASE e.kind = "other"
  <2>1. disc' = disc
    BY <1>2, <1>14 DEF Handled
  <2> QED
    BY <1>8, <1>14, <2>1
<1> QED
  BY <1>3, <1>7, <1>10, <1>11, <1>12, <1>13, <1>14 DEF Kinds

\* The first of the attributes of a set are in their order, without a gap.
LEMMA LeadingFound ==
  ASSUME NEW A, NEW T \in SUBSET A, \A a \in A : a.handle \in Nat,
         \A a \in T, b \in A : a.handle < b.handle => b \in T,
         NEW n \in Nat, n > 0, NEW q \in Leading(T, n)
  PROVE  /\ FoundIn(q, A) /\ q[1] \in T /\ \A a \in T : q[1].handle <= a.handle
<1>1. /\ q \in [1 .. n -> T]
      /\ \A k \in 1 .. n : {a \in T : a.handle < q[k].handle} = {q[j] : j \in 1 .. k - 1}
  BY DEF Leading
<1>2. /\ \A k \in 1 .. n : q[k] \in T /\ q[k] \in A /\ q[k].handle \in Nat
      /\ Len(q) = n /\ q \in Seq(A)
  BY <1>1
<1>3. ASSUME NEW j \in 1 .. n, NEW k \in 1 .. n, j < k
      PROVE  q[j].handle < q[k].handle
  <2>1. j \in 1 .. k - 1
    BY <1>3
  <2>2. q[j] \in {a \in T : a.handle < q[k].handle}
    BY <1>1, <2>1
  <2> QED
    BY <2>2
<1>4. ASSUME NEW k \in 1 .. n - 1, NEW a \in A, q[k].handle < a.handle
      PROVE  q[k + 1].handle <= a.handle
  <2>1. k \in 1 .. n /\ k + 1 \in 1 .. n
    OBVIOUS
  <2>2. a \in T
    BY <1>2, <1>4, <2>1
  <2> SUFFICES ASSUME a.handle < q[k + 1].handle PROVE FALSE
    BY <1>2, <2>1
  <2>3. PICK m \in 1 .. n : m = k + 1
    BY <2>1
  <2>4. a \in {q[j] : j \in 1 .. m - 1}
    BY <1>1, <2>2, <2>3
  <2>5. PICK j \in 1 .. m - 1 : a = q[j]
    BY <2>4
  <2>6. j \in 1 .. n /\ (j = k \/ j < k)
    BY <2>3
  <2>7. q[j].handle < q[k].handle \/ q[j].handle = q[k].handle
    BY <1>3, <2>1, <2>6
  <2> QED
    BY <1>2, <1>4, <2>1, <2>5, <2>6, <2>7
<1>5. ASSUME NEW a \in T
      PROVE  q[1].handle <= a.handle
  <2>1. 1 \in 1 .. n
    OBVIOUS
  <2>2. {a1 \in T : a1.handle < q[1].handle} = {}
    BY <1>1, <2>1
  <2>3. ~(a.handle < q[1].handle)
    BY <2>2
  <2> QED
    BY <1>2, <2>1, <2>3
<1>6. 1 \in 1 .. n
  OBVIOUS
<1>7. FoundIn(q, A)
  BY <1>2, <1>3, <1>4 DEF FoundIn
<1> QED
  BY <1>2, <1>5, <1>6, <1>7

\* Up to the first characteristic from x on, it is the same place.
LEMMA PositionMoves ==
  ASSUME IsTable, NEW d, NEW s \in peer, NEW x \in Nat, Position(d, s, x),
         NEW y \in Nat, x <= y, \A b \in s.chars : x <= b.handle => y <= b.handle
  PROVE  Position(d, s, y)
<1>1. \A b \in s.chars : b.handle \in Nat /\ (x <= b.handle <=> y <= b.handle)
  BY DEF IsTable
<1>2. CASE d.discoveredCharacteristic = None
  BY <1>1, <1>2 DEF Position, Through
<1>3. CASE d.discoveredCharacteristic # None
  <2>1. PICK c \in s.chars : Kept(d, s, c, x)
    BY <1>3 DEF Position
  <2>2. c.handle < y
    BY <1>1, <2>1 DEF Kept
  <2>3. Kept(d, s, c, y)
    BY <1>1, <2>1, <2>2 DEF Kept
  <2> QED
    BY <1>3, <2>3 DEF Position
<1> QED
  BY <1>2, <1>3

\* The answer to a request is right, if the request is: services,
LEMMA ServicesAnswered ==
  ASSUME Table, RequestRight(disc), disc.request.kind = "services",
         NEW e \in Answers(disc.request)
  PROVE  EventRight(disc, e)
<1>0. IsTable /\ SRV_DISC_END_HANDLE \in Nat /\ MaxCount \in Nat
  BY DiscoveryAssumption DEF Table, DiscoveryAssumption
<1>1. PICK h : h = disc.request.from
  OBVIOUS
<1>2. AwaitsServices(disc) /\ ToldTo(disc, h) /\ Between(h)
  BY <1>1 DEF RequestRight
<1>3. h \in Nat /\ h <= SRV_DISC_END_HANDLE + 1
  BY <1>0, <1>2 DEF ToldTo, Handles
<1>4. PICK T \in SUBSET peer : T = {s \in peer : s.handle >= h}
  OBVIOUS
<1>5. e \in Found("services", T)
  BY <1>1, <1>4 DEF Answers
<1>6. \A s \in peer : s.handle \in Nat
  BY <1>0 DEF IsTable
<1>7. e.kind = "services"
  BY <1>5 DEF Found
<1>8. CASE T = {}
  <2>1. ~e.ok
    BY <1>5, <1>8 DEF Found
  <2>2. PICK x \in Nat : x = SRV_DISC_END_HANDLE + 1
    BY <1>0
  <2>3. \A s \in peer : h <= s.handle => x <= s.handle
    BY <1>4, <1>6, <1>8
  <2>4. \A r \in Expected(disc.filter) : r.handle < h <=> r.handle < x
    BY <1>0, <1>2, <1>3, <2>2, <2>3, NoneBefore
  <2>5. x \in Handles
    BY <1>0, <2>2 DEF Handles
  <2>6. ToldTo(disc, x)
    BY <1>0, <1>2, <2>4, <2>5, ToldOn
  <2> QED
    BY <1>2, <1>7, <2>1, <2>2, <2>6 DEF EventRight
<1>9. CASE T # {}
  <2>1. PICK n \in 1 .. MaxCount :
          \E q \in Leading(T, n) : e = [kind |-> "services", ok |-> TRUE, found |-> q]
    BY <1>5, <1>9 DEF Found
  <2>2. PICK q \in Leading(T, n) : e.found = q /\ e.ok
    BY <2>1
  <2>3. n \in Nat /\ n > 0
    BY <1>0
  <2>4. \A a \in T, b \in peer : a.handle < b.handle => b \in T
    BY <1>3, <1>4, <1>6
  <2>5. FoundIn(q, peer) /\ q[1] \in T /\ \A a \in T : q[1].handle <= a.handle
    BY <1>6, <2>3, <2>4, LeadingFound
  <2>6. PICK x \in Nat : x = q[1].handle
    BY <1>6, <2>5
  <2>7. h <= x /\ \A s \in peer : h <= s.handle => x <= s.handle
    BY <1>3, <1>4, <1>6, <2>5, <2>6
  <2>8. \A r \in Expected(disc.filter) : r.handle < h <=> r.handle < x
    BY <1>0, <1>2, <1>3, <2>7, NoneBefore
  <2>9. x \in Handles
    <3>1. PICK s \in peer : x = s.handle
      BY <2>5, <2>6
    <3> QED
      BY <1>0, <3>1 DEF IsTable, Handles
  <2>10. ToldTo(disc, x)
    BY <1>0, <1>2, <2>8, <2>9, ToldOn
  <2> QED
    BY <1>2, <1>7, <2>2, <2>5, <2>6, <2>10 DEF EventRight
<1> QED
  BY <1>8, <1>9

\* characteristics
LEMMA CharacteristicsAnswered ==
  ASSUME Table, RequestRight(disc), disc.request.kind = "characteristics",
         NEW e \in Answers(disc.request)
  PROVE  EventRight(disc, e)
<1>0. IsTable /\ SRV_DISC_END_HANDLE \in Nat /\ MaxCount \in Nat
  BY DiscoveryAssumption DEF Table, DiscoveryAssumption
<1>1. PICK h \in Nat : h = disc.request.from
  BY DEF RequestRight
<1>2. PICK s \in peer : /\ Asking(disc, s, h) /\ s.handle <= h /\ h <= s.end
                        /\ disc.request.to = s.end
  BY <1>1 DEF RequestRight
<1>3. AwaitsCharacteristics(disc) /\ InService(disc, s) /\ Position(disc, s, h)
  BY <1>2 DEF RequestRight, Asking
<1>4. /\ s.handle \in Nat /\ s.end \in Nat /\ s.handle < s.end
      /\ \A c \in s.chars : c.handle \in Nat /\ s.handle < c.handle /\ c.handle < s.end
  <2>1. s.handle \in Nat /\ s.end \in Nat /\ s.handle < s.end
    BY <1>0 DEF IsTable
  <2>2. \A c \in s.chars : /\ c.handle \in Nat /\ c.value \in Nat /\ s.handle < c.handle
                           /\ c.handle < c.value /\ c.value <= s.end
    BY <1>0 DEF IsTable
  <2> QED
    BY <2>1, <2>2
<1>5. PICK T : T = {c \in AllCharacteristics : c.handle \in h .. s.end}
  OBVIOUS
<1>6. T = {c \in s.chars : h <= c.handle}
  <2>1. ASSUME NEW c \in s.chars, h <= c.handle
        PROVE  c \in T
    <3>1. c \in AllCharacteristics
      BY DEF AllCharacteristics
    <3> QED
      BY <1>4, <1>5, <2>1, <3>1
  <2>2. ASSUME NEW c \in T
        PROVE  c \in s.chars /\ h <= c.handle
    <3>1. PICK t \in peer : c \in t.chars
      BY <1>5 DEF AllCharacteristics
    <3>2. /\ t.handle \in Nat /\ t.end \in Nat /\ t.handle < t.end
          /\ (t # s => s.end < t.handle \/ t.end < s.handle)
          /\ c.handle \in Nat /\ c.value \in Nat
          /\ t.handle < c.handle /\ c.handle < c.value /\ c.value <= t.end
      BY <1>0, <3>1 DEF IsTable
    <3>3. h <= c.handle /\ c.handle <= s.end
      BY <1>4, <1>5
    <3>4. t = s
      BY <1>2, <1>4, <3>2, <3>3
    <3> QED
      BY <3>1, <3>3, <3>4
  <2> QED
    BY <2>1, <2>2
<1>7. e \in Found("characteristics", T)
  BY <1>1, <1>2, <1>5 DEF Answers
<1>8. e.kind = "characteristics"
  BY <1>7 DEF Found
<1>9. CASE T = {}
  <2>1. ~e.ok
    BY <1>7, <1>9 DEF Found
  <2>2. PICK x \in Nat : x = s.end + 1
    BY <1>4
  <2>3. h <= x /\ \A b \in s.chars : h <= b.handle => x <= b.handle
    BY <1>2, <1>4, <1>6, <1>9, <2>2
  <2>4. Position(disc, s, x)
    BY <1>0, <1>3, <2>3, PositionMoves
  <2>5. Asking(disc, s, s.end + 1)
    <3>1. Asking(disc, s, x)
      BY <1>3, <2>4 DEF Asking
    <3> QED
      BY <2>2, <3>1
  <2> QED
    BY <1>3, <1>8, <2>1, <2>5 DEF EventRight
<1>10. CASE T # {}
  <2>1. PICK n \in 1 .. MaxCount :
          \E q \in Leading(T, n) : e = [kind |-> "characteristics", ok |-> TRUE, found |-> q]
    BY <1>7, <1>10 DEF Found
  <2>2. PICK q \in Leading(T, n) : e.found = q /\ e.ok
    BY <2>1
  <2>3. n \in Nat /\ n > 0
    BY <1>0
  <2>4. PICK A : A = s.chars
    OBVIOUS
  <2>5. /\ T \in SUBSET A /\ \A a \in A : a.handle \in Nat
        /\ \A a \in T, b \in A : a.handle < b.handle => b \in T
    BY <1>4, <1>6, <2>4
  <2>6. FoundIn(q, A) /\ q[1] \in T /\ \A a \in T : q[1].handle <= a.handle
    BY <2>3, <2>5, LeadingFound
  <2>7. PICK x \in Nat : x = q[1].handle
    BY <2>5, <2>6
  <2>8. h <= x /\ \A b \in s.chars : h <= b.handle => x <= b.handle
    BY <1>6, <2>6, <2>7
  <2>9. Position(disc, s, x)
    BY <1>0, <1>3, <2>8, PositionMoves
  <2>10. Asking(disc, s, e.found[1].handle)
    BY <1>3, <2>2, <2>7, <2>9 DEF Asking
  <2> QED
    BY <1>3, <1>8, <2>2, <2>4, <2>6, <2>10 DEF EventRight
<1> QED
  BY <1>9, <1>10

\* and the UUID of an attribute.
LEMMA UUIDAnswered ==
  ASSUME "uuid" \notin Trouble, RequestRight(disc), disc.request.kind = "uuid",
         NEW e \in Answers(disc.request)
  PROVE  EventRight(disc, e)
<1>1. ("uuid" \in Trouble) = FALSE
  OBVIOUS
<1>2. e = [kind |-> "uuid", of |-> disc.request.of, handle |-> disc.request.handle,
           ok |-> TRUE, uuid |-> UUIDAt(disc.request.handle)]
  BY <1>1 DEF Answers
<1>3. OfIts(disc, disc.request.of)
  BY DEF RequestRight
<1> QED
  BY <1>2, <1>3 DEF EventRight

\* All but the request.
Else(d, x) ==
  /\ x.state = d.state /\ x.serviceIndex = d.serviceIndex /\ x.numServices = d.numServices
  /\ x.numCharacteristics = d.numCharacteristics
  /\ x.services = d.services /\ x.characteristics = d.characteristics
  /\ x.discoveredCharacteristic = d.discoveredCharacteristic
  /\ x.serviceUUIDDiscoveryQueue = d.serviceUUIDDiscoveryQueue
  /\ x.charUUIDDiscoveryQueue = d.charUUIDDiscoveryQueue
  /\ x.filter = d.filter /\ x.told = d.told /\ x.stopped = d.stopped /\ x.cut = d.cut

\* What is asked for is no part of what is told and cached,
LEMMA ElseWithin ==
  ASSUME NEW d, NEW x, Else(d, x)
  PROVE  /\ \A h : ToldTo(d, h) => ToldTo(x, h)
         /\ ServicesIn(d) => ServicesIn(x)
         /\ \A s : InService(d, s) => InService(x, s)
         /\ \A s, h : Position(d, s, h) => Position(x, s, h)
         /\ \A s : CharacteristicsIn(d, s) => CharacteristicsIn(x, s)
         /\ NextIn(x) = NextIn(d)
<1>1. \A h : ToldTo(d, h) => ToldTo(x, h)
  BY ToldStays DEF Else
<1>2. ServicesIn(d) => ServicesIn(x)
  <2>1. \A k, s : ServiceAt(d, k, s) => ServiceAt(x, k, s)
    BY DEF Else, ServiceAt, Reads
  <2> QED
    BY <2>1 DEF Else, ServicesIn
<1>3. \A s : InService(d, s) => InService(x, s)
  BY <1>2 DEF Else, InService
<1>4. \A s, h : Position(d, s, h) => Position(x, s, h)
  BY PositionStays DEF Else
<1>5. ASSUME NEW s, CharacteristicsIn(d, s)
      PROVE  CharacteristicsIn(x, s)
  <2>1. \A k, c : CharacteristicAt(d, k, s, c) => CharacteristicAt(x, k, s, c)
    BY DEF Else, CharacteristicAt, Reads
  <2> QED
    BY <1>5, <2>1 DEF Else, CharacteristicsIn
<1>6. NextIn(x) = NextIn(d)
  BY DEF Else, NextIn
<1> QED
  BY <1>1, <1>2, <1>3, <1>4, <1>5, <1>6

\* so of a discovery that asked right is right,
LEMMA RightElse ==
  ASSUME NEW d, NEW x, Else(d, x), NEW at, NEW j, Right(d, at, j)
  PROVE  Right(x, at, j)
<1>1. Telling(x) /\ x.filter \in Filters
  BY ElseWithin DEF Right, Telling, Else
<1>2. Over(d) => Over(x)
  <2>1. PICK h : h = SRV_DISC_END_HANDLE + 1
    OBVIOUS
  <2>2. ToldTo(d, h) => ToldTo(x, h)
    BY ElseWithin
  <2> QED
    BY <2>1, <2>2 DEF Over, Else
<1>3. AwaitsServices(d) => AwaitsServices(x)
  BY DEF AwaitsServices, Else
<1>4. AtServices(d) => AtServices(x)
  BY ElseWithin DEF AtServices, Else
<1>5. AwaitsCharacteristics(d) => AwaitsCharacteristics(x)
  BY ElseWithin DEF AwaitsCharacteristics, Else
<1>6. ASSUME NEW s \in peer, HasCharacteristics(d, s, at, j)
      PROVE  HasCharacteristics(x, s, at, j)
  <2>1. InService(x, s) /\ CharacteristicsIn(x, s)
    BY <1>6, ElseWithin DEF HasCharacteristics
  <2>2. \A h : Position(d, s, h) => Position(x, s, h)
    BY ElseWithin
  <2>3. Walk(d, s, at, j) => Walk(x, s, at, j)
    <3>1. PICK y : y = d.characteristics[d.numCharacteristics - 1].value + 1
      OBVIOUS
    <3>2. Position(d, s, y) => Position(x, s, y)
      BY <2>2
    <3>3. y = x.characteristics[x.numCharacteristics - 1].value + 1
      BY <3>1 DEF Else
    <3>4. PICK z : z = d.characteristics[0].handle
      OBVIOUS
    <3>5. z = x.characteristics[0].handle /\ (Position(d, s, z) => Position(x, s, z))
      BY <2>2, <3>4 DEF Else
    <3>6. ToldTo(d, d.characteristics[j].handle) => ToldTo(x, x.characteristics[j].handle)
      BY ElseWithin DEF Else
    <3> QED
      BY <3>1, <3>2, <3>3, <3>4, <3>5, <3>6 DEF Walk, Else
  <2>4. d.state = x.state /\ d.characteristics = x.characteristics
    BY DEF Else
  <2> QED
    BY <1>6, <2>1, <2>2, <2>3, <2>4 DEF HasCharacteristics
<1> QED
  BY <1>1, <1>2, <1>3, <1>4, <1>5, <1>6 DEF Right

\* and of an answer to it.
LEMMA EventElse ==
  ASSUME NEW d, NEW x, Else(d, x), NEW e, EventRight(d, e)
  PROVE  EventRight(x, e)
<1>1. AwaitsServices(d) => AwaitsServices(x)
  BY DEF AwaitsServices, Else
<1>2. AwaitsCharacteristics(d) => AwaitsCharacteristics(x)
  BY ElseWithin DEF AwaitsCharacteristics, Else
<1>3. \A s, h : Asking(d, s, h) => Asking(x, s, h)
  BY ElseWithin DEF Asking
<1>4. \A h : ToldTo(d, h) => ToldTo(x, h)
  BY ElseWithin
<1>5. \A of : OfIts(d, of) => OfIts(x, of)
  BY DEF OfIts, Else
<1>6. e.kind = "services" =>
        /\ AwaitsServices(x)
        /\ IF e.ok THEN FoundIn(e.found, peer) /\ ToldTo(x, e.found[1].handle)
           ELSE ToldTo(x, SRV_DISC_END_HANDLE + 1)
  <2>1. PICK h : h = SRV_DISC_END_HANDLE + 1
    OBVIOUS
  <2>2. ToldTo(d, h) => ToldTo(x, h)
    BY <1>4
  <2> QED
    BY <1>1, <1>4, <2>1, <2>2 DEF EventRight
<1>7. ASSUME e.kind = "characteristics"
      PROVE  /\ AwaitsCharacteristics(x)
             /\ \E s \in peer : IF e.ok THEN FoundIn(e.found, s.chars) /\ Asking(x, s, e.found[1].handle)
                                ELSE Asking(x, s, s.end + 1)
  <2>1. PICK s \in peer : IF e.ok THEN FoundIn(e.found, s.chars) /\ Asking(d, s, e.found[1].handle)
                          ELSE Asking(d, s, s.end + 1)
    BY <1>7 DEF EventRight
  <2>2. PICK h : h = s.end + 1
    OBVIOUS
  <2>3. Asking(d, s, h) => Asking(x, s, h)
    BY <1>3
  <2>4. IF e.ok THEN FoundIn(e.found, s.chars) /\ Asking(x, s, e.found[1].handle)
        ELSE Asking(x, s, s.end + 1)
    BY <1>3, <2>1, <2>2, <2>3
  <2> QED
    BY <1>2, <1>7, <2>4 DEF EventRight
<1>8. e.kind = "uuid" =>
        /\ OfIts(x, e.of)
        /\ x.state \in Reading => e.ok /\ e.uuid = UUIDAt(e.handle)
  BY <1>5 DEF EventRight, Else
<1> QED
  BY <1>6, <1>7, <1>8 DEF EventRight

\* The peer answers.
LEMMA PeerAnswersReports ==
  ASSUME Table, "uuid" \notin Trouble, DiscoveryInv, ReportRight, PeerAnswers
  PROVE  ReportRight'
<1>1. /\ disc' = [disc EXCEPT !.request = NoRequest] /\ disc.request # NoRequest
      /\ UNCHANGED <<pc, i, link, peer>>
  BY DEF PeerAnswers
<1>2. PICK e \in Answers(disc.request) : events' = Append(events, e)
  BY DEF PeerAnswers
<1>3. EventRight(disc, e)
  <2>1. disc.request.kind \in {"services", "characteristics", "uuid"}
    BY <1>1 DEF DiscoveryInv, Asked
  <2> QED
    BY <2>1, ServicesAnswered, CharacteristicsAnswered, UUIDAnswered DEF ReportRight
<1>4. Else(disc, disc') /\ disc'.request = NoRequest
  BY <1>1, Known DEF IsDisc, Fields, Else
<1>5. ASSUME NEW k \in Rest'
      PROVE  (k \in Rest /\ events'[k] = events[k]) \/ events'[k] = e
  <2>1. PICK T : events \in Seq(T)
    BY DEF DiscoveryInv, Queued, Sequence
  <2>2. events \in Seq(T \cup {e})
    BY <2>1
  <2>3. /\ Len(events') = Len(events) + 1 /\ Len(events) \in Nat
        /\ \A j \in 1 .. Len(events) : events'[j] = events[j]
        /\ events'[Len(events) + 1] = e
    BY <1>2, <2>2
  <2>4. (k \in Rest /\ k \in 1 .. Len(events)) \/ k = Len(events) + 1
    BY <1>1, <2>3 DEF Rest
  <2> QED
    BY <2>3, <2>4
<1>6. ASSUME NEW k \in Rest'
      PROVE  EventRight(disc', events'[k])
  <2>1. EventRight(disc, events'[k])
    BY <1>3, <1>5, <1>6 DEF ReportRight
  <2> QED
    BY <1>4, <2>1, EventElse
<1>7. Right(disc', pc', i')
  BY <1>1, <1>4, RightElse DEF ReportRight
<1>8. RequestRight(disc')
  BY <1>4 DEF RequestRight, NoRequest
<1> QED
  BY <1>1, <1>6, <1>7, <1>8, Then DEF ReportRight

\* An event that is not for the discovery is queued.
LEMMA OtherEventReports ==
  ASSUME ReportRight, OtherEvent
  PROVE  ReportRight'
<1>1. UNCHANGED <<disc, pc, i, link, peer>> /\ events' = <<Event("other")>>
  BY DEF OtherEvent
<1>2. ASSUME NEW k \in Rest'
      PROVE  EventRight(disc', events'[k])
  <2>1. Len(events') = 1 /\ events'[1] = Event("other")
    BY <1>1
  <2>2. k = 1
    BY <1>2, <2>1 DEF Rest
  <2>3. events'[k].kind = "other"
    BY <2>1, <2>2 DEF Event
  <2> QED
    BY <2>3 DEF EventRight
<1> QED
  BY <1>1, <1>2, Then DEF ReportRight

\* A discovery that has ended awaits no answer that would move it.
LEMMA EndedAwaits ==
  ASSUME DiscoveryInv, NEW d, d.state = "INACTIVE", d.request = disc.request,
         disc.state \notin {"SERVICE_DISCOVERY_ACTIVE", "CHARACTERISTIC_DISCOVERY_ACTIVE"}
  PROVE  /\ RequestRight(d) /\ \A k \in Rest : EventRight(d, events[k])
<1>1. ~Awaited("services") /\ ~Awaited("characteristics")
  BY DEF DiscoveryInv, Expecting
<1>2. \A of : OfIts(d, of)
  BY DEF OfIts
<1>3. RequestRight(d)
  BY <1>1, <1>2 DEF RequestRight, Awaited
<1>4. ASSUME NEW k \in Rest
      PROVE  EventRight(d, events[k])
  <2>1. events[k].kind # "services" /\ events[k].kind # "characteristics"
    BY <1>1 DEF Awaited, IsAhead
  <2> QED
    BY <1>2, <2>1 DEF EventRight, Reading
<1> QED
  BY <1>3, <1>4

\* The application ends the discovery (terminate()).
LEMMA TerminateReports ==
  ASSUME "terminate" \notin Trouble, DiscoveryInv, ReportRight, Terminate
  PROVE  ReportRight'
<1>1. /\ UNCHANGED <<pc, i, events, link, peer>> /\ disc' = Stopped(disc) /\ isActive(disc)
      /\ disc.state \in Reading
  BY DEF Terminate, Reading
<1>2. Open(disc)
  BY <1>1, Known
<1>3. PICK t : t = terminateServiceDiscovery(disc)
  OBVIOUS
<1>4. PICK h : ToldTo(disc, h)
  BY DEF ReportRight, Right, Telling
<1>5. ToldTo(t, h) /\ Carries(disc, t) /\ t.state = "INACTIVE"
  BY <1>2, <1>3, <1>4, TerminateTells
<1>6. t = [f \in Fields |-> t[f]]
  BY <1>2, <1>3 DEF Open, IsDisc, Fields, terminateServiceDiscovery
<1>7. /\ disc'.state = "INACTIVE" /\ disc'.stopped = TRUE /\ disc'.told = t.told
      /\ disc'.filter = disc.filter /\ disc'.request = disc.request
  BY <1>1, <1>3, <1>5, <1>6 DEF Stopped, Fields, Carries
<1>8. ToldTo(disc', h)
  BY <1>5, <1>7, ToldStays DEF Carries
<1>9. Right(disc', pc', i')
  BY <1>7, <1>8 DEF Right, Over, Telling, ToldTo, ReportRight
<1>10. Rest' = Rest
  BY <1>1 DEF Rest
<1>11. RequestRight(disc') /\ \A k \in Rest : EventRight(disc', events[k])
  BY <1>1, <1>7, EndedAwaits DEF Reading
<1>12. \A k \in Rest' : EventRight(disc', events'[k])
  BY <1>1, <1>10, <1>11
<1> QED
  BY <1>1, <1>9, <1>11, <1>12, Then DEF ReportRight

\* Before the first handle nothing is expected.
LEMMA NothingTold ==
  ASSUME IsTable, SRV_DISC_END_HANDLE \in Nat, NEW d, d.told = <<>>
  PROVE  ToldTo(d, 1) /\ Between(1)
<1>1. \A s \in peer : s.handle \in Nat /\ 0 < s.handle
  BY DEF IsTable
<1>2. Between(1)
  BY <1>1 DEF Between
<1>3. 1 \in Handles
  BY DEF Handles
<1>4. DOMAIN d.told = {}
  OBVIOUS
<1>5. InOrder(d) /\ Heard(d) = {}
  BY <1>4 DEF InOrder, Heard
<1>6. {r \in Expected(d.filter) : r.handle < 1} = {}
  <2> SUFFICES ASSUME NEW r \in Expected(d.filter), r.handle < 1 PROVE FALSE
    OBVIOUS
  <2>1. PICK s \in peer : r.handle \in Nat /\ s.handle <= r.handle
    BY ExpectedIn
  <2> QED
    BY <1>1, <2>1
<1> QED
  BY <1>2, <1>3, <1>5, <1>6 DEF ToldTo

\* The application starts one (launch()).
LEMMA LaunchReports ==
  ASSUME Table, DiscoveryInv, ~isActive(disc), disc.discoveredCharacteristic = None, Launch,
         ~disc'.cut
  PROVE  ReportRight'
<1>1. UNCHANGED <<pc, i, events, link, peer>>
  BY DEF Launch
<1>2. PICK f \in Filters :
        LET d == [disc EXCEPT !.filter = f, !.numServices = 0, !.serviceIndex = 0,
                              !.state = "SERVICE_DISCOVERY_ACTIVE",
                              !.told = <<>>, !.stopped = FALSE, !.cut = ~link]
        IN disc' = IF isActive(disc) THEN disc
                   ELSE IF Accepts(d)
                   THEN [d EXCEPT !.request = [kind |-> "services", from |-> 1]]
                   ELSE Stopped(d)
  BY DEF Launch
<1>3. PICK cut : cut = ~link
  OBVIOUS
<1>4. PICK d : d = [disc EXCEPT !.filter = f, !.numServices = 0, !.serviceIndex = 0,
                                !.state = "SERVICE_DISCOVERY_ACTIVE",
                                !.told = <<>>, !.stopped = FALSE, !.cut = cut]
  OBVIOUS
<1>5. disc' = IF Accepts(d) THEN [d EXCEPT !.request = [kind |-> "services", from |-> 1]]
              ELSE Stopped(d)
  BY <1>2, <1>3, <1>4
<1>6. /\ d = [n \in Fields |-> d[n]] /\ d.filter = f /\ d.numServices = 0
      /\ d.serviceIndex = 0 /\ d.state = "SERVICE_DISCOVERY_ACTIVE" /\ d.told = <<>>
      /\ d.cut = cut /\ d.request = disc.request /\ d.discoveredCharacteristic = None
  BY <1>4, Known DEF IsDisc, Fields
<1>7. disc.state = "INACTIVE"
  BY DEF isActive
<1>8. Rest' = Rest
  BY <1>1 DEF Rest
<1>9. Open(d)
  <2>1. <<>> \in Seq({End}) /\ Len(<<>>) = 0
    OBVIOUS
  <2>2. Sequence(d.told) /\ Silent(d.told)
    <3>1. Sequence(d.told)
      BY <1>6, <2>1 DEF Sequence
    <3>2. Silent(<<>>)
      BY <2>1 DEF Silent
    <3> QED
      BY <1>6, <3>1, <3>2
  <2> QED
    BY <1>6, <2>2 DEF Open, IsDisc, isActive
<1>10. IsTable /\ SRV_DISC_END_HANDLE \in Nat
  BY DEF Table
<1>11. CASE Accepts(d)
  <2>1. PICK r : r = [kind |-> "services", from |-> 1]
    OBVIOUS
  <2>2. disc' = [d EXCEPT !.request = r]
    BY <1>5, <1>11, <2>1
  <2>3. /\ disc'.filter = f /\ disc'.numServices = 0 /\ disc'.serviceIndex = 0
        /\ disc'.state = "SERVICE_DISCOVERY_ACTIVE" /\ disc'.told = <<>>
        /\ disc'.request = r /\ disc'.discoveredCharacteristic = None
    BY <1>6, <2>2 DEF Fields
  <2>4. ToldTo(disc', 1) /\ Between(1)
    BY <1>10, <2>3, NothingTold
  <2>5. AwaitsServices(disc')
    BY <2>3 DEF AwaitsServices
  <2>6. Right(disc', pc', i')
    <3>1. PICK h : h = 1
      OBVIOUS
    <3>2. ToldTo(disc', h)
      BY <2>4, <3>1
    <3>3. Telling(disc')
      BY <3>2 DEF Telling, ToldTo
    <3> QED
      BY <2>3, <2>5, <3>3 DEF Right
  <2>7. RequestRight(disc')
    BY <2>1, <2>3, <2>4, <2>5 DEF RequestRight
  <2>8. ASSUME NEW k \in Rest'
        PROVE  EventRight(disc', events'[k])
    <3>1. ~Awaited("services") /\ ~Awaited("characteristics")
      BY <1>7 DEF DiscoveryInv, Expecting
    <3>2. events[k].kind # "services" /\ events[k].kind # "characteristics"
      BY <1>8, <2>8, <3>1 DEF Awaited, IsAhead
    <3>3. OfIts(disc', events[k].of) /\ disc'.state \notin Reading
      BY <2>3 DEF OfIts, Reading
    <3> QED
      BY <1>1, <3>2, <3>3 DEF EventRight
  <2>9. link'
    BY <1>1, <1>11 DEF Accepts
  <2> QED
    BY <1>1, <2>6, <2>7, <2>8, <2>9, Then
<1>12. CASE ~Accepts(d)
  <2>1. disc' = Stopped(d)
    BY <1>5, <1>12
  <2>2. PICK t : t = terminateServiceDiscovery(d)
    OBVIOUS
  <2>3. PICK h : h = 1
    OBVIOUS
  <2>4. ToldTo(d, h)
    BY <1>6, <1>10, <2>3, NothingTold
  <2>5. ToldTo(t, h) /\ Carries(d, t) /\ t.state = "INACTIVE"
    BY <1>9, <2>2, <2>4, TerminateTells
  <2>6. t = [n \in Fields |-> t[n]]
    BY <1>6, <2>2 DEF Fields, terminateServiceDiscovery
  <2>7. /\ disc'.state = "INACTIVE" /\ disc'.stopped = TRUE /\ disc'.told = t.told
        /\ disc'.filter = f /\ disc'.request = disc.request /\ disc'.cut = cut
    BY <1>6, <2>1, <2>2, <2>5, <2>6 DEF Stopped, Fields, Carries
  <2>8. ToldTo(disc', h)
    BY <1>6, <2>5, <2>7, ToldStays DEF Carries
  <2>9. Right(disc', pc', i')
    BY <2>7, <2>8 DEF Right, Over, Telling, ToldTo
  <2>10. RequestRight(disc') /\ \A k \in Rest : EventRight(disc', events[k])
    BY <1>7, <2>7, EndedAwaits
  <2>11. \A k \in Rest' : EventRight(disc', events'[k])
    BY <1>1, <1>8, <2>10
  <2>12. link'
    BY <1>1, <1>3, <2>7
  <2> QED
    BY <1>1, <2>9, <2>10, <2>11, <2>12, Then
<1> QED
  BY <1>11, <1>12

(***************************************************************************)
(* Whatever the handler does: the link that was lost stays lost, and an    *)
(* ended discovery keeps no characteristic back.                           *)
(***************************************************************************)
Whole(d) == d = [n \in Fields |-> d[n]]
Rests(d) == isActive(d) \/ d.discoveredCharacteristic = None
Keeps(d, x) == Whole(x) /\ x.cut = d.cut /\ Rests(x)

\* An end keeps nothing back.
LEMMA EndRests ==
  ASSUME NEW d, Whole(d), NEW x \in {terminateServiceDiscovery(d), Stopped(d)}
  PROVE  Keeps(d, x)
<1>1. PICK t : t = terminateServiceDiscovery(d)
  OBVIOUS
<1>2. Whole(t) /\ t.cut = d.cut /\ t.discoveredCharacteristic = None
  BY <1>1 DEF terminateServiceDiscovery, Whole, Fields
<1>3. PICK u : u = [t EXCEPT !.stopped = TRUE]
  OBVIOUS
<1>4. Whole(u) /\ u.cut = d.cut /\ u.discoveredCharacteristic = None
  BY <1>2, <1>3 DEF Whole, Fields
<1>5. x = t \/ x = u
  BY <1>1, <1>3 DEF Stopped
<1> QED
  BY <1>2, <1>4, <1>5 DEF Keeps, Rests

\* Neither does a callback that ends the discovery,
LEMMA CallbackRests ==
  ASSUME NEW d, Whole(d), isActive(d), NEW r, NEW mayStop, NEW x \in Callback(d, r, mayStop)
  PROVE  Keeps(d, x)
<1>1. PICK t : t = [d EXCEPT !.told = Append(@, r)]
  OBVIOUS
<1>2. Whole(t) /\ t.cut = d.cut /\ isActive(t)
  BY <1>1 DEF Whole, Fields, isActive
<1>3. x = t \/ x = Stopped(t)
  BY <1>1 DEF Callback
<1> QED
  BY <1>2, <1>3, EndRests DEF Keeps, Rests

\* that of a characteristic,
LEMMA CharacteristicRests ==
  ASSUME NEW d, Whole(d), isActive(d), NEW c, NEW mayStop,
         NEW x \in CharacteristicCallback(d, c, mayStop)
  PROVE  Keeps(d, x)
<1>1. x = d \/ x \in Callback(d, Characteristic(c), mayStop)
  BY DEF CharacteristicCallback
<1> QED
  BY <1>1, CallbackRests DEF Keeps, Rests

\* that of the last one of a service,
LEMMA CharacteristicsRest ==
  ASSUME NEW d, Whole(d), isActive(d), NEW complete,
         NEW x \in terminateCharacteristicDiscovery(d, complete)
  PROVE  Keeps(d, x)
<1>1. \/ x = [d EXCEPT !.serviceIndex = @ + 1]
      \/ \E e : /\ e = d \/ \E c, mayStop : e \in CharacteristicCallback(d, c, mayStop)
                /\ x = [e EXCEPT !.state = "SERVICE_DISCOVERY_ACTIVE", !.serviceIndex = @ + 1,
                                 !.discoveredCharacteristic = None]
  BY DEF terminateCharacteristicDiscovery
<1>2. CASE x = [d EXCEPT !.serviceIndex = @ + 1]
  BY <1>2 DEF Keeps, Whole, Rests, isActive, Fields
<1>3. ASSUME NEW e, e = d \/ \E c, mayStop : e \in CharacteristicCallback(d, c, mayStop),
             x = [e EXCEPT !.state = "SERVICE_DISCOVERY_ACTIVE", !.serviceIndex = @ + 1,
                           !.discoveredCharacteristic = None]
      PROVE  Keeps(d, x)
  <2>1. Whole(e) /\ e.cut = d.cut
    BY <1>3, CharacteristicRests DEF Keeps
  <2> QED
    BY <1>3, <2>1 DEF Keeps, Whole, Rests, isActive, Fields
<1> QED
  BY <1>1, <1>2, <1>3

\* or the UUID that is asked for,
LEMMA TriggerRests ==
  ASSUME NEW d, Whole(d), isActive(d), NEW x \in {triggerFirstService(d), triggerFirstChar(d)}
  PROVE  Keeps(d, x)
<1>1. CASE x = triggerFirstService(d)
  BY <1>1 DEF triggerFirstService, ReadUUID, Keeps, Whole, Rests, isActive, Fields
<1>2. CASE x = triggerFirstChar(d)
  BY <1>2 DEF triggerFirstChar, ReadUUID, Keeps, Whole, Rests, isActive, Fields
<1> QED
  BY <1>1, <1>2

\* the answer that is cached,
LEMMA SetupRests ==
  ASSUME NEW d, Whole(d), isActive(d), NEW found,
         NEW x \in {setupDiscoveredServices(d, found), setupDiscoveredCharacteristics(d, found)}
  PROVE  Keeps(d, x)
<1>1. ASSUME NEW n, NEW s, NEW q,
             x = triggerFirstService([d EXCEPT !.serviceIndex = 0, !.numServices = n,
                                               !.services = s, !.serviceUUIDDiscoveryQueue = q])
      PROVE  Keeps(d, x)
  <2>1. PICK t : t = [d EXCEPT !.serviceIndex = 0, !.numServices = n,
                               !.services = s, !.serviceUUIDDiscoveryQueue = q]
    OBVIOUS
  <2>2. Whole(t) /\ isActive(t) /\ t.cut = d.cut
    BY <2>1 DEF Whole, isActive, Fields
  <2> QED
    BY <1>1, <2>1, <2>2, TriggerRests DEF Keeps
<1>2. ASSUME NEW n, NEW c, NEW q,
             x = triggerFirstChar([d EXCEPT !.numCharacteristics = n, !.characteristics = c,
                                            !.charUUIDDiscoveryQueue = q])
      PROVE  Keeps(d, x)
  <2>1. PICK t : t = [d EXCEPT !.numCharacteristics = n, !.characteristics = c,
                               !.charUUIDDiscoveryQueue = q]
    OBVIOUS
  <2>2. Whole(t) /\ isActive(t) /\ t.cut = d.cut
    BY <2>1 DEF Whole, isActive, Fields
  <2> QED
    BY <1>2, <2>1, <2>2, TriggerRests DEF Keeps
<1>3. CASE x = setupDiscoveredServices(d, found)
  BY <1>1, <1>3 DEF setupDiscoveredServices
<1>4. CASE x = setupDiscoveredCharacteristics(d, found)
  BY <1>2, <1>4 DEF setupDiscoveredCharacteristics
<1> QED
  BY <1>3, <1>4

\* the UUID that is entered
LEMMA ReadRests ==
  ASSUME NEW d, Whole(d), isActive(d), NEW e, NEW x, x = processDiscoverUUIDResponse(d, e)
  PROVE  Keeps(d, x)
<1>1. CASE d.state = "DISCOVER_SERVICE_UUIDS"
  <2>1. PICK t : t = [d EXCEPT !.serviceUUIDDiscoveryQueue = Tail(@)]
    OBVIOUS
  <2>2. PICK u : u = [t EXCEPT !.services[Head(d.serviceUUIDDiscoveryQueue)].uuid = e.uuid]
    OBVIOUS
  <2>3. Whole(t) /\ isActive(t) /\ t.cut = d.cut
    BY <2>1 DEF Whole, isActive, Fields
  <2>4. Whole(u) /\ isActive(u) /\ u.cut = d.cut
    BY <2>2, <2>3 DEF Whole, isActive, Fields
  <2>5. x = t \/ x = triggerFirstService(u)
    BY <1>1, <2>1, <2>2 DEF processDiscoverUUIDResponse
  <2> QED
    BY <2>3, <2>4, <2>5, TriggerRests DEF Keeps, Rests
<1>2. CASE d.state = "DISCOVER_CHARACTERISTIC_UUIDS"
  <2>1. PICK t : t = [d EXCEPT !.charUUIDDiscoveryQueue = Tail(@)]
    OBVIOUS
  <2>2. PICK u : u = [t EXCEPT !.characteristics[Head(d.charUUIDDiscoveryQueue)].uuid = e.uuid]
    OBVIOUS
  <2>3. Whole(t) /\ isActive(t) /\ t.cut = d.cut
    BY <2>1 DEF Whole, isActive, Fields
  <2>4. Whole(u) /\ isActive(u) /\ u.cut = d.cut
    BY <2>2, <2>3 DEF Whole, isActive, Fields
  <2>5. x = t \/ x = triggerFirstChar(u)
    BY <1>2, <2>1, <2>2 DEF processDiscoverUUIDResponse
  <2> QED
    BY <2>3, <2>4, <2>5, TriggerRests DEF Keeps, Rests
<1>3. CASE d.state \notin {"DISCOVER_SERVICE_UUIDS", "DISCOVER_CHARACTERISTIC_UUIDS"}
  <2>1. x = d
    BY <1>3 DEF processDiscoverUUIDResponse
  <2> QED
    BY <2>1 DEF Keeps, Rests
<1> QED
  BY <1>1, <1>2, <1>3

\* and the request for characteristics.
LEMMA AskingRests ==
  ASSUME NEW d, Whole(d), isActive(d), NEW x \in launchCharacteristicDiscovery(d)
  PROVE  Keeps(d, x)
<1>1. PICK t : t = [d EXCEPT !.state = "CHARACTERISTIC_DISCOVERY_ACTIVE", !.numCharacteristics = 0]
  OBVIOUS
<1>2. Whole(t) /\ isActive(t) /\ t.cut = d.cut
  BY <1>1 DEF Whole, isActive, Fields
<1>3. \/ x \in terminateCharacteristicDiscovery(t, FALSE)
      \/ \E r : x = [t EXCEPT !.request = r]
  BY <1>1 DEF launchCharacteristicDiscovery
<1>4. CASE \E r : x = [t EXCEPT !.request = r]
  BY <1>2, <1>4 DEF Keeps, Whole, Rests, isActive, Fields
<1> QED
  BY <1>2, <1>3, <1>4, CharacteristicsRest DEF Keeps

\* All of it, for every step of the handler.
LEMMA HandlerRests ==
  ASSUME DiscoveryInv, Rests(disc), Handler
  PROVE  disc'.cut = disc.cut /\ Rests(disc')
<1>1. Whole(disc)
  BY Known DEF IsDisc, Whole
<1>2. CASE disc' = disc
  BY <1>2
<1>3. ASSUME Keeps(disc, disc')
      PROVE  disc'.cut = disc.cut /\ Rests(disc')
  BY <1>3 DEF Keeps
<1>4. CASE bleGattcEventHandler
  <2>1. PICK e : e = Head(events)
    OBVIOUS
  <2>2. disc' \in Handled(disc, e) /\ IsAhead(e.kind)
    BY <1>4, <2>1, Taken DEF bleGattcEventHandler
  <2>3. e.kind \in {"services", "characteristics"} => isActive(disc)
    BY <2>2 DEF DiscoveryInv, Expecting, Awaited, isActive
  <2>4. \/ disc' = disc
        \/ isActive(disc) /\ \E found : disc' \in {setupDiscoveredServices(disc, found),
                                                   setupDiscoveredCharacteristics(disc, found)}
        \/ disc' = terminateServiceDiscovery(disc)
        \/ isActive(disc) /\ disc' \in terminateCharacteristicDiscovery(disc, TRUE)
        \/ isActive(disc) /\ disc' = processDiscoverUUIDResponse(disc, e)
    <3>1. CASE e.kind = "services"
      BY <2>2, <2>3, <3>1 DEF Handled
    <3>2. CASE e.kind = "characteristics"
      BY <2>2, <2>3, <3>2 DEF Handled
    <3>3. CASE e.kind = "uuid"
      BY <2>2, <3>3 DEF Handled
    <3>4. CASE e.kind \notin {"services", "characteristics", "uuid"}
      BY <2>2, <3>4 DEF Handled
    <3> QED
      BY <3>1, <3>2, <3>3, <3>4
  <2> QED
    BY <1>1, <1>2, <1>3, <2>4, SetupRests, EndRests, CharacteristicsRest, ReadRests
<1>5. CASE FirstCharacteristic
  <2>1. PICK c : \/ disc' = disc
                 \/ isActive(disc)
                    /\ disc' \in CharacteristicCallback([disc EXCEPT !.discoveredCharacteristic = c], c, TRUE)
    BY <1>5 DEF FirstCharacteristic, Discovering, isActive
  <2>2. PICK t : t = [disc EXCEPT !.discoveredCharacteristic = c]
    OBVIOUS
  <2>3. Whole(t) /\ t.cut = disc.cut /\ (isActive(disc) => isActive(t))
    BY <1>1, <2>2 DEF Whole, isActive, Fields
  <2> QED
    BY <1>2, <1>3, <2>1, <2>2, <2>3, CharacteristicRests DEF Keeps
<1>6. CASE NextCharacteristic
  <2>1. CASE \E c : isActive(disc) /\ disc' = [disc EXCEPT !.discoveredCharacteristic = c]
    BY <1>1, <2>1 DEF Whole, Rests, isActive, Fields
  <2>2. CASE \E c : isActive(disc)
                    /\ disc' \in CharacteristicCallback([disc EXCEPT !.characteristics[i] = c], c, TRUE)
    <3>1. PICK c : isActive(disc)
                   /\ disc' \in CharacteristicCallback([disc EXCEPT !.characteristics[i] = c], c, TRUE)
      BY <2>2
    <3>2. PICK t : t = [disc EXCEPT !.characteristics[i] = c]
      OBVIOUS
    <3>3. Whole(t) /\ t.cut = disc.cut /\ isActive(t)
      BY <1>1, <3>1, <3>2 DEF Whole, isActive, Fields
    <3> QED
      BY <1>3, <3>1, <3>2, <3>3, CharacteristicRests DEF Keeps
  <2> QED
    BY <1>2, <1>6, <2>1, <2>2 DEF NextCharacteristic, Discovering, isActive
<1>7. CASE NoCharacteristics
  BY <1>2, <1>7 DEF NoCharacteristics
<1>8. CASE MoreCharacteristics
  <2>1. PICK d : d = [disc EXCEPT !.numCharacteristics = 0]
    OBVIOUS
  <2>2. Whole(d) /\ d.cut = disc.cut /\ (isActive(disc) => isActive(d))
    BY <1>1, <2>1 DEF Whole, isActive, Fields
  <2>3. \/ disc' = disc
        \/ isActive(disc) /\ \E complete : disc' \in terminateCharacteristicDiscovery(d, complete)
        \/ isActive(disc) /\ \E r : disc' = [d EXCEPT !.request = r]
    BY <1>8, <2>1 DEF MoreCharacteristics, Discovering, isActive
  <2>4. CASE isActive(disc) /\ \E r : disc' = [d EXCEPT !.request = r]
    BY <2>2, <2>4 DEF Whole, Rests, isActive, Fields
  <2> QED
    BY <1>2, <1>3, <2>2, <2>3, <2>4, CharacteristicsRest DEF Keeps
<1>9. CASE NextService
  <2> DEFINE s == disc.services[disc.serviceIndex]
             reported == IF disc.filter.characteristic = ANY
                         THEN Callback(disc, Service(s), TRUE) ELSE {disc}
             Skip(d) == {[d EXCEPT !.serviceIndex = @ + 1]}
  <2>1. \/ disc' \in Skip(disc)
        \/ \E d \in reported : disc' \in IF isActive(d) /\ d.filter.wanted
                                       THEN launchCharacteristicDiscovery(d) ELSE Skip(d)
    BY <1>9 DEF NextService
  <2>2. isActive(disc)
    BY <1>9 DEF NextService, isActive
  <2> HIDE DEF s
  <2>3. \A d \in reported : d = disc \/ d \in Callback(disc, Service(s), TRUE)
    OBVIOUS
  <2>4. \A d \in reported : Keeps(disc, d)
    BY <1>1, <2>2, <2>3, CallbackRests DEF Keeps, Rests
  <2> HIDE DEF reported
  <2>5. ASSUME NEW d, Keeps(disc, d), disc' \in Skip(d)
        PROVE  disc'.cut = disc.cut /\ Rests(disc')
    BY <2>5 DEF Keeps, Whole, Rests, isActive, Fields
  <2>6. Keeps(disc, disc)
    BY <1>1 DEF Keeps
  <2>7. ASSUME NEW d, Keeps(disc, d), isActive(d), disc' \in launchCharacteristicDiscovery(d)
        PROVE  disc'.cut = disc.cut /\ Rests(disc')
    BY <2>7, AskingRests DEF Keeps
  <2> HIDE DEF Skip
  <2> QED
    BY <2>1, <2>4, <2>5, <2>6, <2>7
<1>10. CASE MoreServices
  <2>1. PICK d : d = [disc EXCEPT !.numServices = 0, !.serviceIndex = 0]
    OBVIOUS
  <2>2. Whole(d) /\ d.cut = disc.cut /\ d.state = disc.state
        /\ d.discoveredCharacteristic = disc.discoveredCharacteristic
    BY <1>1, <2>1 DEF Whole, Fields
  <2>3. PICK x : /\ disc' = Closed(x, Head(events))
                 /\ \/ x = disc
                    \/ \E r : x = [d EXCEPT !.request = r]
                    \/ x = terminateServiceDiscovery(d)
    BY <1>10, <2>1 DEF MoreServices
  <2>4. Keeps(disc, x)
    <3>1. CASE x = disc
      BY <1>1, <3>1 DEF Keeps
    <3>2. CASE \E r : x = [d EXCEPT !.request = r]
      BY <2>2, <3>2 DEF Keeps, Whole, Rests, isActive, Fields
    <3>3. CASE x = terminateServiceDiscovery(d)
      BY <2>2, <3>3, EndRests DEF Keeps
    <3> QED
      BY <2>3, <3>1, <3>2, <3>3
  <2>5. disc' = x \/ disc' = terminateServiceDiscovery(x)
    BY <2>3 DEF Closed
  <2> QED
    BY <2>4, <2>5, EndRests DEF Keeps
<1> QED
  BY <1>4, <1>5, <1>6, <1>7, <1>8, <1>9, <1>10 DEF Handler

\* What ReportsComplete says, from the invariant.
LEMMA ReportRightIsComplete ==
  ASSUME Table, DiscoveryInv, ReportRight, launches > 0
  PROVE  /\ InOrder(disc)
         /\ Heard(disc) \subseteq Expected(disc.filter)
         /\ \A r \in Expected(disc.filter), q \in Heard(disc) :
              r.handle < q.handle => r \in Heard(disc)
         /\ (disc.told # <<>> /\ Last(disc.told) = End /\ ~disc.stopped)
               => Heard(disc) = Expected(disc.filter)
<1>0. IsTable /\ SRV_DISC_END_HANDLE \in Nat
  BY DEF Table
<1>1. PICK h \in Nat : ToldTo(disc, h)
  BY <1>0 DEF ReportRight, Right, Telling, Handles
<1>2. InOrder(disc) /\ Heard(disc) = {r \in Expected(disc.filter) : r.handle < h}
  BY <1>1 DEF ToldTo
<1>3. \A r \in Expected(disc.filter) : r.handle \in Nat /\ r.handle <= SRV_DISC_END_HANDLE
  BY <1>0, ExpectedOf
<1>4. ASSUME NEW r \in Expected(disc.filter), NEW q \in Heard(disc), r.handle < q.handle
      PROVE  r \in Heard(disc)
  <2>1. q \in Expected(disc.filter) /\ q.handle < h
    BY <1>2
  <2>2. r.handle \in Nat /\ q.handle \in Nat
    BY <1>3, <2>1
  <2>3. r.handle < h
    BY <1>4, <2>1, <2>2
  <2> QED
    BY <1>2, <2>3
<1>5. ASSUME disc.told # <<>>, Last(disc.told) = End, ~disc.stopped
      PROVE  Heard(disc) = Expected(disc.filter)
  <2>1. ~isActive(disc)
    BY <1>5, DiscoveryInvIsEndsOnce DEF EndsOnce
  <2>2. Over(disc)
    BY <2>1 DEF isActive, ReportRight, Right, AwaitsServices, AtServices, AwaitsCharacteristics,
       HasCharacteristics
  <2>3. PICK y \in Nat : y = SRV_DISC_END_HANDLE + 1
    BY <1>0
  <2>4. ToldTo(disc, y)
    BY <1>5, <2>2, <2>3 DEF Over
  <2>5. \A r \in Expected(disc.filter) : r.handle < y
    BY <1>0, <1>3, <2>3
  <2> QED
    BY <2>4, <2>5 DEF ToldTo
<1> QED
  BY <1>2, <1>4, <1>5

\* The invariant is inductive.
LEMMA ReportsKeep ==
  ASSUME Trouble = {}, Withstood, DiscoveryInv, IndexInv, ReportInv, Next
  PROVE  ReportInv'
<1>1. peer' \in Peers
  BY DEF ReportInv, Next, Handler, bleGattcEventHandler, FirstCharacteristic, NextCharacteristic,
     NoCharacteristics, MoreCharacteristics, NextService, MoreServices, Goto, Launch, Terminate,
     PeerAnswers, PeerRefuses, OtherEvent, LinkLost, Connect
<1>2. Table
  <2>1. IsTable /\ SRV_DISC_END_HANDLE \in Nat
    BY PeerIsTable DEF ReportInv
  <2> QED
    BY <2>1 DEF Table, Sound, Withstood
<1>3. Whole(disc) /\ Rests(disc)
  BY Known DEF ReportInv, Rests, IsDisc, Whole
<1>4. "last" \notin Trouble /\ "uuid" \notin Trouble /\ "terminate" \notin Trouble
  OBVIOUS
<1>5. ASSUME Rests(disc'), ~disc'.cut /\ launches' > 0 => ReportRight'
      PROVE  ReportInv'
  BY <1>1, <1>5 DEF ReportInv, Rests, isActive
<1>6. CASE Handler
  <2>1. disc'.cut = disc.cut /\ Rests(disc')
    BY <1>3, <1>6, HandlerRests
  <2>2. launches' = launches
    BY <1>6 DEF Handler, bleGattcEventHandler, FirstCharacteristic, NextCharacteristic,
       NoCharacteristics, MoreCharacteristics, NextService, MoreServices, Goto
  <2>3. ASSUME ReportRight
        PROVE  ReportRight'
    BY <1>2, <1>4, <1>6, <2>3, EventHandlerReports, FirstCharacteristicReports,
       NextCharacteristicReports, NoCharacteristicsReports, MoreCharacteristicsReports,
       NextServiceReports, MoreServicesReports DEF Handler
  <2> QED
    BY <1>5, <2>1, <2>2, <2>3 DEF ReportInv
<1>7. CASE Launch
  <2>1. CASE isActive(disc)
    <3>1. disc' = disc /\ UNCHANGED <<pc, i, events, link, peer>>
      BY <1>7, <2>1 DEF Launch
    <3>2. launches > 0
      BY <2>1, Known
    <3>3. ASSUME ReportRight
          PROVE  ReportRight'
      <4>1. Rest' = Rest
        BY <3>1 DEF Rest
      <4> QED
        BY <3>1, <3>3, <4>1, Then DEF ReportRight
    <3> QED
      BY <1>3, <1>5, <3>1, <3>2, <3>3 DEF ReportInv
  <2>2. CASE ~isActive(disc)
    <3>1. disc.discoveredCharacteristic = None
      BY <2>2 DEF ReportInv
    <3>2. Rests(disc')
      <4>1. PICK f \in Filters :
              LET d == [disc EXCEPT !.filter = f, !.numServices = 0, !.serviceIndex = 0,
                                    !.state = "SERVICE_DISCOVERY_ACTIVE",
                                    !.told = <<>>, !.stopped = FALSE, !.cut = ~link]
              IN disc' = IF isActive(disc) THEN disc
                         ELSE IF Accepts(d)
                         THEN [d EXCEPT !.request = [kind |-> "services", from |-> 1]]
                         ELSE Stopped(d)
        BY <1>7 DEF Launch
      <4>2. PICK cut : cut = ~link
        OBVIOUS
      <4>3. PICK d : d = [disc EXCEPT !.filter = f, !.numServices = 0, !.serviceIndex = 0,
                                      !.state = "SERVICE_DISCOVERY_ACTIVE",
                                      !.told = <<>>, !.stopped = FALSE, !.cut = cut]
        OBVIOUS
      <4>4. Whole(d) /\ isActive(d)
        BY <1>3, <4>3 DEF Whole, Fields, isActive
      <4>5. (\E r : disc' = [d EXCEPT !.request = r]) \/ disc' = Stopped(d)
        BY <2>2, <4>1, <4>2, <4>3
      <4>6. CASE \E r : disc' = [d EXCEPT !.request = r]
        BY <4>4, <4>6 DEF Whole, Fields, isActive, Rests
      <4> QED
        BY <4>4, <4>5, <4>6, EndRests DEF Keeps
    <3> QED
      BY <1>2, <1>5, <1>7, <2>2, <3>1, <3>2, LaunchReports
  <2> QED
    BY <2>1, <2>2
<1>8. CASE Terminate
  <2>1. disc'.cut = disc.cut /\ Rests(disc') /\ launches' = launches
    <3>1. disc' = Stopped(disc) /\ launches' = launches
      BY <1>8 DEF Terminate
    <3> QED
      BY <1>3, <3>1, EndRests DEF Keeps
  <2> QED
    BY <1>4, <1>5, <1>8, <2>1, TerminateReports DEF ReportInv
<1>9. CASE PeerAnswers
  <2>1. disc'.cut = disc.cut /\ Rests(disc') /\ launches' = launches
    <3>1. disc' = [disc EXCEPT !.request = NoRequest] /\ launches' = launches
      BY <1>9 DEF PeerAnswers
    <3> QED
      BY <1>3, <3>1 DEF Whole, Fields, Rests, isActive
  <2> QED
    BY <1>2, <1>4, <1>5, <1>9, <2>1, PeerAnswersReports DEF ReportInv
<1>10. CASE OtherEvent
  <2>1. disc' = disc /\ launches' = launches
    BY <1>10 DEF OtherEvent
  <2> QED
    BY <1>3, <1>5, <1>10, <2>1, OtherEventReports DEF ReportInv
<1>11. CASE LinkLost \/ PeerRefuses
  <2>1. disc' = [disc EXCEPT !.request = NoRequest, !.cut = TRUE]
    BY <1>11 DEF LinkLost, PeerRefuses
  <2>2. disc'.cut /\ Rests(disc')
    BY <1>3, <2>1 DEF Whole, Fields, Rests, isActive
  <2> QED
    BY <1>5, <2>2
<1>12. CASE Connect
  <2>1. ~link /\ disc' = disc /\ launches' = launches
    BY <1>12 DEF Connect
  <2>2. ~(~disc.cut /\ launches > 0)
    BY <2>1 DEF ReportInv, ReportRight
  <2> QED
    BY <1>3, <1>5, <2>1, <2>2
<1> QED
  BY <1>6, <1>7, <1>8, <1>9, <1>10, <1>11, <1>12 DEF Next

\* A stuttering step.
LEMMA ReportsStutter ==
  ASSUME ReportInv, UNCHANGED vars
  PROVE  ReportInv'
<1>1. UNCHANGED <<disc, pc, i, events, link, peer, launches>>
  BY DEF vars
<1>2. ASSUME ReportRight
      PROVE  ReportRight'
  <2>1. Rest' = Rest
    BY <1>1 DEF Rest
  <2> QED
    BY <1>1, <1>2, <2>1, Then DEF ReportRight
<1> QED
  BY <1>1, <1>2 DEF ReportInv, isActive

\* Nothing is launched at first.
LEMMA InitReportInv == Init => ReportInv
<1> SUFFICES ASSUME Init PROVE ReportInv
  OBVIOUS
<1>1. peer \in Peers /\ launches = 0 /\ disc.discoveredCharacteristic = None
  BY DEF Init, Discovery
<1> QED
  BY <1>1 DEF ReportInv

\* For every peer, every size of the caches and of an answer and every way in which answers, the
\* loss of the link, terminate() and launch() overtake each other: as long as the link is up and no
\* answer has been an error, the application is told of attributes the filter asks for, in the
\* order of their handles, none twice and none left out before another; and a discovery that ends
\* by itself has told all of them
\* (setupDiscoveredServices, progressCharacteristicDiscovery, progressServiceDiscovery and the
\* requests that go on behind the caches).
THEOREM ReportsAreComplete ==
  ASSUME Trouble = {}, Withstood
  PROVE  Spec => []ReportsComplete
<1> DEFINE Inv == DiscoveryInv /\ IndexInv /\ ReportInv
<1>1. Init => Inv
  BY InitDiscoveryInv, InitIndexInv, InitReportInv
<1>2. ASSUME Inv, [Next]_vars
      PROVE  Inv'
  <2>1. DiscoveryInv' /\ IndexInv'
    BY <1>2, IndexKeeps
  <2>2. CASE Next
    BY <1>2, <2>1, <2>2, ReportsKeep
  <2>3. CASE UNCHANGED vars
    BY <1>2, <2>1, <2>3, ReportsStutter
  <2> QED
    BY <1>2, <2>2, <2>3
<1>3. Inv => ReportsComplete
  <2> SUFFICES ASSUME Inv, ~disc.cut, launches > 0
               PROVE  /\ InOrder(disc)
                      /\ Heard(disc) \subseteq Expected(disc.filter)
                      /\ \A r \in Expected(disc.filter), q \in Heard(disc) :
                           r.handle < q.handle => r \in Heard(disc)
                      /\ (disc.told # <<>> /\ Last(disc.told) = End /\ ~disc.stopped)
                            => Heard(disc) = Expected(disc.filter)
    BY DEF ReportsComplete
  <2>1. ReportRight
    BY DEF ReportInv
  <2>2. Table
    <3>1. IsTable /\ SRV_DISC_END_HANDLE \in Nat
      BY PeerIsTable DEF ReportInv
    <3> QED
      BY <3>1 DEF Table, Sound, Withstood
  <2> QED
    BY <2>1, <2>2, ReportRightIsComplete
<1> QED
  BY <1>1, <1>2, <1>3, PTL DEF Spec
=============================================================================
