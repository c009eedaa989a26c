---------------------------- MODULE GattDiscovery ----------------------------
(***************************************************************************)
(* Service discovery of the BLE port (nRF5xServiceDiscovery): one request  *)
(* after another to the peer, the answers cached, filtered and reported to *)
(* the application, which may end the discovery in any of its callbacks.   *)
(* bleGattcEventHandler drives it after every event of the SoftDevice,     *)
(* whatever the event is about.                                            *)
(***************************************************************************)
EXTENDS Integers, SequencesExt

CONSTANTS
  BLE_DB_DISCOVERY_MAX_SRV, BLE_DB_DISCOVERY_MAX_CHAR_PER_SRV,
  SRV_DISC_END_HANDLE,  \* 0xFFFF
  Peers,        \* the attribute tables a peer may have: see DiscoveryAssumption
  Filters,      \* [service, characteristic, wanted]: UUIDs or ANY; wanted: is
                \* there a callback for characteristics?
  ANY,          \* BLE_UUID_UNKNOWN
  MaxCount,     \* entries of an answer of the peer
  MaxLaunches,  \* bound
  Trouble       \* what the environment may do that the code does not withstand

(***************************************************************************)
(* "event":     an event of another kind while characteristics are awaited *)
(* "terminate": terminate() outside the callbacks, when the answer that is *)
(*              awaited is not a UUID                                      *)
(* "last":      terminate() when a service's last characteristic is        *)
(*              reported                                                   *)
(* "uuid":      the peer does not tell a UUID it is asked for              *)
(***************************************************************************)
ASSUME DiscoveryAssumption ==
  /\ BLE_DB_DISCOVERY_MAX_SRV \in Nat \ {0}
  /\ BLE_DB_DISCOVERY_MAX_CHAR_PER_SRV \in Nat \ {0}
  /\ MaxCount \in Nat \ {0} /\ MaxLaunches \in Nat /\ SRV_DISC_END_HANDLE \in Nat
  /\ Trouble \subseteq {"event", "terminate", "last", "uuid"}
  /\ \A table \in Peers : \A s \in table :
       /\ s.handle \in 1 .. s.end /\ s.end \in 1 .. SRV_DISC_END_HANDLE
       /\ \A t \in table \ {s} : s.end < t.handle \/ t.end < s.handle
       /\ \A c \in s.chars :
            /\ c.handle \in s.handle + 1 .. s.end /\ c.value \in c.handle + 1 .. s.end
            /\ \A b \in s.chars \ {c} : c.value < b.handle \/ b.value < c.handle

VARIABLES
  disc,    \* the discovery: see Discovery
  pc, i,   \* where the handler of the event at the head of events is
  events,  \* events of the SoftDevice not handled yet
  link,    \* is the peer connected?
  peer,    \* its attribute table
  launches

vars == <<disc, pc, i, events, link, peer, launches>>

None == [uuid |-> "none", handle |-> 0, value |-> 0, last |-> 0]
NoRequest == [kind |-> "none"]
End == [kind |-> "end"]

\* stopped: has the application ended it, or launch() returned an error?
\* cut: since the launch, has the link been lost or a request been answered with an error?
Discovery ==
  [state |-> "INACTIVE", serviceIndex |-> 0, numServices |-> 0, numCharacteristics |-> 0,
   services |-> [k \in 0 .. BLE_DB_DISCOVERY_MAX_SRV - 1 |->
                   [uuid |-> "none", handle |-> 0, end |-> 0]],
   characteristics |-> [k \in 0 .. BLE_DB_DISCOVERY_MAX_CHAR_PER_SRV - 1 |-> None],
   discoveredCharacteristic |-> None,
   serviceUUIDDiscoveryQueue |-> <<>>, charUUIDDiscoveryQueue |-> <<>>,
   filter |-> [service |-> ANY, characteristic |-> ANY, wanted |-> FALSE],
   request |-> NoRequest,     \* what the SoftDevice is asking the peer
   told |-> <<>>,             \* the callbacks since the last launch
   stopped |-> FALSE, cut |-> FALSE]

isActive(d) == d.state # "INACTIVE"

\* The SoftDevice has one procedure of the client at a time.
Accepts(d) == link /\ d.request = NoRequest

(***************************************************************************)
(* Callbacks.  Each gives the set of the states it may leave behind.       *)
(***************************************************************************)
terminateServiceDiscovery(d) ==
  [d EXCEPT !.state = "INACTIVE", !.discoveredCharacteristic = None,
            !.told = IF isActive(d) THEN Append(@, End) ELSE @]

Stopped(d) == [terminateServiceDiscovery(d) EXCEPT !.stopped = TRUE]

Callback(d, report, mayStop) ==
  LET told == [d EXCEPT !.told = Append(@, report)]
  IN {told} \cup IF mayStop THEN {Stopped(told)} ELSE {}

Service(s) == [kind |-> "service", uuid |-> s.uuid, handle |-> s.handle, end |-> s.end]
Characteristic(c) ==
  [kind |-> "characteristic", uuid |-> c.uuid, handle |-> c.handle, value |-> c.value,
   last |-> c.last]

MatchesService(f, s) == f.service \in {ANY, s.uuid}
MatchesCharacteristic(f, c) ==
  f.wanted /\ (f.characteristic = ANY \/ (f.characteristic = c.uuid /\ f.service # ANY))

CharacteristicCallback(d, c, mayStop) ==
  IF MatchesCharacteristic(d.filter, c) THEN Callback(d, Characteristic(c), mayStop) ELSE {d}

\* A plausible fault: the index stays at the service.
terminateCharacteristicDiscoveryHere(d, complete) ==
  {[d EXCEPT !.state = "SERVICE_DISCOVERY_ACTIVE", !.discoveredCharacteristic = None]}
\* The last characteristic of the service reaches to its end.  Whatever the
\* callback does, the state then is SERVICE_DISCOVERY_ACTIVE.
terminateCharacteristicDiscovery(d, complete) ==
  LET c == [d.discoveredCharacteristic EXCEPT !.last = d.services[d.serviceIndex].end]
      reported == IF d.discoveredCharacteristic # None /\ complete
                  THEN CharacteristicCallback(d, c, "last" \in Trouble) ELSE {d}
  IN IF d.state # "CHARACTERISTIC_DISCOVERY_ACTIVE"
     THEN {[d EXCEPT !.serviceIndex = @ + 1]}
     ELSE {[e EXCEPT !.state = "SERVICE_DISCOVERY_ACTIVE", !.serviceIndex = @ + 1,
                     !.discoveredCharacteristic = None] : e \in reported}

(***************************************************************************)
(* UUIDs of 128 bits are read one at a time.  If a read is refused, so is  *)
(* every other now: the services keep the UUID that was at their index.    *)
(***************************************************************************)
ReadUUID(of, handle) == [kind |-> "uuid", of |-> of, handle |-> handle]

\* A plausible fault: the last of the queue is asked for.
triggerFirstServiceFromBehind(d) ==
  LET q == d.serviceUUIDDiscoveryQueue
  IN IF q # <<>> /\ Accepts(d)
     THEN [d EXCEPT !.state = "DISCOVER_SERVICE_UUIDS",
                    !.request = ReadUUID("service", d.services[Last(q)].handle)]
     ELSE [d EXCEPT !.serviceUUIDDiscoveryQueue = <<>>, !.state = "SERVICE_DISCOVERY_ACTIVE"]
triggerFirstService(d) ==
  LET q == d.serviceUUIDDiscoveryQueue
  IN IF q # <<>> /\ Accepts(d)
     THEN [d EXCEPT !.state = "DISCOVER_SERVICE_UUIDS",
                    !.request = ReadUUID("service", d.services[Head(q)].handle)]
     ELSE [d EXCEPT !.serviceUUIDDiscoveryQueue = <<>>,
                    !.state = IF q # <<>> \/ @ = "DISCOVER_SERVICE_UUIDS"
                              THEN "SERVICE_DISCOVERY_ACTIVE" ELSE @]

triggerFirstChar(d) ==
  LET q == d.charUUIDDiscoveryQueue
  IN IF q # <<>> /\ Accepts(d)
     THEN [d EXCEPT !.state = "DISCOVER_CHARACTERISTIC_UUIDS",
                    !.request = ReadUUID("characteristic", d.characteristics[Head(q)].handle)]
     ELSE [d EXCEPT !.charUUIDDiscoveryQueue = <<>>,
                    !.state = IF q # <<>> \/ @ = "DISCOVER_CHARACTERISTIC_UUIDS"
                              THEN "CHARACTERISTIC_DISCOVERY_ACTIVE" ELSE @]

\* An answer that is not as asked takes the index off the queue and asks no
\* more.
processDiscoverUUIDResponse(d, e) ==
  IF d.state = "DISCOVER_SERVICE_UUIDS"
  THEN LET next == [d EXCEPT !.serviceUUIDDiscoveryQueue = Tail(@)]
       IN IF e.ok /\ e.of = "service"
          THEN triggerFirstService(
                 [next EXCEPT !.services[Head(d.serviceUUIDDiscoveryQueue)].uuid = e.uuid])
          ELSE next
  ELSE IF d.state = "DISCOVER_CHARACTERISTIC_UUIDS"
  THEN LET next == [d EXCEPT !.charUUIDDiscoveryQueue = Tail(@)]
       IN IF e.ok /\ e.of = "characteristic"
          THEN triggerFirstChar(
                 [next EXCEPT !.characteristics[Head(d.charUUIDDiscoveryQueue)].uuid = e.uuid])
          ELSE next
  ELSE d

(***************************************************************************)
(* Answers are cached as far as there is room; the rest is asked for again.*)
(***************************************************************************)
Limit(n, max) == IF n > max THEN max ELSE n
Enqueued(q, a) == IF a.long THEN Append(q, a.index) ELSE q
Unknown(found, n) ==
  FoldLeft(Enqueued, <<>>, [k \in 1 .. n |-> [index |-> k - 1, long |-> found[k].long]])

\* The n services that fit; a UUID that is not known yet is the one that was there.
CachedServices(d, found, n) ==
  [k \in 0 .. BLE_DB_DISCOVERY_MAX_SRV - 1 |->
     IF k >= n THEN d.services[k]
     ELSE [uuid |-> IF found[k + 1].long THEN d.services[k].uuid ELSE found[k + 1].uuid,
           handle |-> found[k + 1].handle, end |-> found[k + 1].end]]
setupDiscoveredServices(d, found) ==
  LET n == Limit(Len(found), BLE_DB_DISCOVERY_MAX_SRV)
  IN triggerFirstService([d EXCEPT !.serviceIndex = 0, !.numServices = n,
                                   !.services = CachedServices(d, found, n),
                                   !.serviceUUIDDiscoveryQueue = Unknown(found, n)])

CachedCharacteristics(d, found, n) ==
  [k \in 0 .. BLE_DB_DISCOVERY_MAX_CHAR_PER_SRV - 1 |->
     IF k >= n THEN d.characteristics[k]
     ELSE [uuid |-> IF found[k + 1].long THEN d.characteristics[k].uuid ELSE found[k + 1].uuid,
           handle |-> found[k + 1].handle, value |-> found[k + 1].value,
           last |-> d.characteristics[k].last]]
setupDiscoveredCharacteristics(d, found) ==
  LET n == Limit(Len(found), BLE_DB_DISCOVERY_MAX_CHAR_PER_SRV)
  IN triggerFirstChar([d EXCEPT !.numCharacteristics = n,
                                !.characteristics = CachedCharacteristics(d, found, n),
                                !.charUUIDDiscoveryQueue = Unknown(found, n)])

(***************************************************************************)
(* bleGattcEventHandler: the event, then the characteristics, then the     *)
(* services.                                                               *)
(***************************************************************************)
Handled(d, e) ==
  CASE e.kind = "services" ->
         IF e.ok THEN {setupDiscoveredServices(d, e.found)} ELSE {terminateServiceDiscovery(d)}
    [] e.kind = "characteristics" ->
         IF e.ok THEN {setupDiscoveredCharacteristics(d, e.found)}
         ELSE terminateCharacteristicDiscovery(d, TRUE)
    [] e.kind = "uuid" -> IF isActive(d) THEN {processDiscoverUUIDResponse(d, e)} ELSE {d}
    [] OTHER -> {d}

bleGattcEventHandler ==
  /\ pc = "idle" /\ events # <<>>
  /\ disc' \in Handled(disc, Head(events))
  /\ pc' = "progressCharacteristicDiscovery" /\ i' = 0
  /\ UNCHANGED <<events, link, peer, launches>>

Goto(step) == pc' = step /\ UNCHANGED <<events, link, peer, launches>>
Discovering == disc.state = "CHARACTERISTIC_DISCOVERY_ACTIVE"

\* The last characteristic of the answer before ends where the first of this
\* one begins.
FirstCharacteristic ==
  /\ pc = "progressCharacteristicDiscovery"
  /\ IF ~Discovering THEN Goto("progressServiceDiscovery") /\ UNCHANGED disc
     ELSE /\ Goto("characteristics")
          /\ IF disc.discoveredCharacteristic # None /\ disc.numCharacteristics > 0
             THEN LET c == [disc.discoveredCharacteristic EXCEPT
                              !.last = disc.characteristics[0].handle - 1]
                  IN disc' \in CharacteristicCallback(
                                 [disc EXCEPT !.discoveredCharacteristic = c], c, TRUE)
             ELSE UNCHANGED disc
  /\ UNCHANGED i

\* A plausible fault: the loop goes on after terminate().
NextCharacteristicUnchecked ==
  /\ pc = "characteristics" /\ i < disc.numCharacteristics
  /\ IF i = disc.numCharacteristics - 1
     THEN /\ disc' = [disc EXCEPT !.discoveredCharacteristic = disc.characteristics[i]]
          /\ Goto("moreCharacteristics") /\ UNCHANGED i
     ELSE LET c == [disc.characteristics[i] EXCEPT !.last = disc.characteristics[i + 1].handle - 1]
          IN /\ disc' \in CharacteristicCallback([disc EXCEPT !.characteristics[i] = c], c, TRUE)
             /\ Goto("characteristics") /\ i' = i + 1
NextCharacteristic ==
  /\ pc = "characteristics" /\ i < disc.numCharacteristics
  /\ IF ~Discovering
     THEN Goto("progressServiceDiscovery") /\ UNCHANGED <<disc, i>>
     ELSE IF i = disc.numCharacteristics - 1
     THEN /\ disc' = [disc EXCEPT !.discoveredCharacteristic = disc.characteristics[i]]
          /\ Goto("moreCharacteristics") /\ UNCHANGED i
     ELSE LET c == [disc.characteristics[i] EXCEPT !.last = disc.characteristics[i + 1].handle - 1]
          IN /\ disc' \in CharacteristicCallback([disc EXCEPT !.characteristics[i] = c], c, TRUE)
             /\ Goto("characteristics") /\ i' = i + 1

NoCharacteristics ==
  /\ pc = "characteristics" /\ i >= disc.numCharacteristics
  /\ Goto("moreCharacteristics") /\ UNCHANGED <<disc, i>>

\* A plausible fault: one too far behind the last characteristic.
NextHandleTooFar(d) ==
  IF d.numCharacteristics = 0 THEN SRV_DISC_END_HANDLE
  ELSE (d.characteristics[d.numCharacteristics - 1].value + 2) % (SRV_DISC_END_HANDLE + 1)
\* Behind the last characteristic of the answer; without any, beyond the service.  Behind
\* the last handle it is 0, which is none: the SoftDevice refuses to search from there.
NextHandle(d) ==
  IF d.numCharacteristics = 0 THEN SRV_DISC_END_HANDLE
  ELSE (d.characteristics[d.numCharacteristics - 1].value + 1) % (SRV_DISC_END_HANDLE + 1)

MoreCharacteristics ==
  /\ pc = "moreCharacteristics"
  /\ LET start == NextHandle(disc)
         end == disc.services[disc.serviceIndex].end
         d == [disc EXCEPT !.numCharacteristics = 0]
     IN disc' \in
          IF ~Discovering THEN {disc}
          ELSE IF start >= end THEN terminateCharacteristicDiscovery(d, TRUE)
          ELSE IF Accepts(d) /\ start # 0
          THEN {[d EXCEPT !.request = [kind |-> "characteristics", from |-> start, to |-> end]]}
          ELSE terminateCharacteristicDiscovery(d, FALSE)
  /\ Goto("progressServiceDiscovery") /\ UNCHANGED i

launchCharacteristicDiscovery(d) ==
  LET s == d.services[d.serviceIndex]
      started == [d EXCEPT !.state = "CHARACTERISTIC_DISCOVERY_ACTIVE", !.numCharacteristics = 0]
  IN IF Accepts(d)
     THEN {[started EXCEPT !.request = [kind |-> "characteristics",
                                        from |-> s.handle, to |-> s.end]]}
     ELSE terminateCharacteristicDiscovery(started, FALSE)

\* One service of the cache: reported, then its characteristics asked for.
NextService ==
  /\ pc = "progressServiceDiscovery"
  /\ disc.state = "SERVICE_DISCOVERY_ACTIVE" /\ disc.serviceIndex < disc.numServices
  /\ LET s == disc.services[disc.serviceIndex]
         reported == IF disc.filter.characteristic = ANY
                     THEN Callback(disc, Service(s), TRUE) ELSE {disc}
         Skip(d) == {[d EXCEPT !.serviceIndex = @ + 1]}
     IN disc' \in IF ~MatchesService(disc.filter, s) THEN Skip(disc)
                  ELSE UNION {IF isActive(d) /\ d.filter.wanted
                              THEN launchCharacteristicDiscovery(d) ELSE Skip(d) : d \in reported}
  /\ Goto("progressServiceDiscovery") /\ UNCHANGED i

\* btle_handler, behind bleGattcEventHandler.
Closed(d, e) == IF e.kind = "disconnected" THEN terminateServiceDiscovery(d) ELSE d

\* More services beyond those of the cache; or the end of the handler.
MoreServices ==
  /\ pc = "progressServiceDiscovery"
  /\ ~(disc.state = "SERVICE_DISCOVERY_ACTIVE" /\ disc.serviceIndex < disc.numServices)
  /\ LET end == disc.services[disc.serviceIndex - 1].end
         d == [disc EXCEPT !.numServices = 0, !.serviceIndex = 0]
         next == IF ~(disc.state = "SERVICE_DISCOVERY_ACTIVE" /\ disc.numServices > 0
                      /\ disc.serviceIndex > 0) THEN disc
                 ELSE IF end # SRV_DISC_END_HANDLE /\ Accepts(d)
                 THEN [d EXCEPT !.request = [kind |-> "services", from |-> end]]
                 ELSE terminateServiceDiscovery(d)
     IN disc' = Closed(next, Head(events))
  /\ pc' = "idle" /\ i' = 0 /\ events' = Tail(events)
  /\ UNCHANGED <<link, peer, launches>>

Handler == bleGattcEventHandler \/ FirstCharacteristic \/ NextCharacteristic
           \/ NoCharacteristics \/ MoreCharacteristics \/ NextService \/ MoreServices

(***************************************************************************)
(* The application, from main().                                           *)
(***************************************************************************)
Launch ==
  /\ pc = "idle" /\ launches < MaxLaunches
  /\ launches' = launches + 1
  /\ \E f \in Filters :
       LET d == [disc EXCEPT !.filter = f, !.numServices = 0, !.serviceIndex = 0,
                             !.state = "SERVICE_DISCOVERY_ACTIVE",
                             !.told = <<>>, !.stopped = FALSE, !.cut = ~link]
       IN disc' = IF isActive(disc) THEN disc
                  ELSE IF Accepts(d)
                  THEN [d EXCEPT !.request = [kind |-> "services", from |-> 1]]
                  ELSE Stopped(d)
  /\ UNCHANGED <<pc, i, events, link, peer>>

Terminate ==
  /\ pc = "idle" /\ isActive(disc)
  /\ \/ disc.state \in {"DISCOVER_SERVICE_UUIDS", "DISCOVER_CHARACTERISTIC_UUIDS"}
     \/ "terminate" \in Trouble
  /\ disc' = Stopped(disc)
  /\ UNCHANGED <<pc, i, events, link, peer, launches>>

(***************************************************************************)
(* The SoftDevice and the peer, at any time.                               *)
(***************************************************************************)
Event(kind) == [kind |-> kind]

\* The first n of the attributes of S, in the order of their handles.
Leading(S, n) ==
  {q \in [1 .. n -> S] : \A k \in 1 .. n :
                           {a \in S : a.handle < q[k].handle} = {q[j] : j \in 1 .. k - 1}}

Found(kind, S) ==
  IF S = {} THEN {[kind |-> kind, ok |-> FALSE, found |-> <<>>]}
  ELSE {[kind |-> kind, ok |-> TRUE, found |-> q] : q \in UNION {Leading(S, n) : n \in 1 .. MaxCount}}

AllCharacteristics == UNION {s.chars : s \in peer}

\* The UUID of the service or of the characteristic at handle h.
UUIDAt(h) == (CHOOSE a \in peer \cup AllCharacteristics : a.handle = h).uuid

Answers(r) ==
  CASE r.kind = "services" -> Found(r.kind, {s \in peer : s.handle >= r.from})
    [] r.kind = "characteristics" ->
         Found(r.kind, {c \in AllCharacteristics : c.handle \in r.from .. r.to})
    [] r.kind = "uuid" ->
         {[kind |-> "uuid", of |-> r.of, handle |-> r.handle, ok |-> ok, uuid |-> UUIDAt(r.handle)]
            : ok \in {TRUE} \cup IF "uuid" \in Trouble THEN {FALSE} ELSE {}}

PeerAnswers ==
  /\ disc.request # NoRequest
  /\ \E e \in Answers(disc.request) : events' = Append(events, e)
  /\ disc' = [disc EXCEPT !.request = NoRequest]
  /\ UNCHANGED <<pc, i, link, peer, launches>>

\* The answer is an error other than "attribute not found": handled as that one is.
PeerRefuses ==
  /\ disc.request.kind \in {"services", "characteristics"}
  /\ events' = Append(events, [kind |-> disc.request.kind, ok |-> FALSE, found |-> <<>>])
  /\ disc' = [disc EXCEPT !.request = NoRequest, !.cut = TRUE]
  /\ UNCHANGED <<pc, i, link, peer, launches>>

\* A notification, a sent packet, new connection parameters...
OtherEvent ==
  /\ link /\ events = <<>>
  /\ "event" \in Trouble \/ ~Discovering
  /\ events' = <<Event("other")>>
  /\ UNCHANGED <<disc, pc, i, link, peer, launches>>

LinkLost ==
  /\ link /\ link' = FALSE
  /\ events' = Append(events, Event("disconnected"))
  /\ disc' = [disc EXCEPT !.request = NoRequest, !.cut = TRUE]
  /\ UNCHANGED <<pc, i, peer, launches>>

Connect ==
  /\ ~link /\ events = <<>> /\ link' = TRUE
  /\ peer' \in Peers
  /\ UNCHANGED <<disc, pc, i, events, launches>>

Init ==
  /\ disc = Discovery /\ pc = "idle" /\ i = 0 /\ events = <<>>
  /\ link = TRUE /\ peer \in Peers /\ launches = 0

Next ==
  \/ Handler \/ Launch \/ Terminate \/ PeerAnswers \/ PeerRefuses
  \/ OtherEvent \/ LinkLost \/ Connect

\* The SoftDevice dispatches its events.  The peer owes no answer, and its link may last.
Spec == Init /\ [][Next]_vars /\ WF_vars(Handler)

-----------------------------------------------------------------------------
(******************************** properties *******************************)

\* A characteristic reaches to the next one of its service, or to the end of it.
LastHandle(s, c) ==
  LET later == {b.handle : b \in {a \in s.chars : c.handle < a.handle}}
  IN IF later = {} THEN s.end ELSE Min(later) - 1

\* What is to be reported of the peer for a filter.
ReportsOf(f, s) ==
  IF ~MatchesService(f, s) THEN {}
  ELSE (IF f.characteristic = ANY THEN {Service(s)} ELSE {})
       \cup {Characteristic([uuid |-> c.uuid, handle |-> c.handle, value |-> c.value,
                             last |-> LastHandle(s, c)])
              : c \in {a \in s.chars : f.wanted /\ f.characteristic \in {ANY, a.uuid}}}
Expected(f) == UNION {ReportsOf(f, s) : s \in peer}

\* What the application was told of.
Heard(d) == {d.told[k] : k \in DOMAIN d.told} \ {End}

\* In the order of the peer's table, and so none twice.
InOrder(d) ==
  \A j, k \in DOMAIN d.told : j < k /\ d.told[k] # End => d.told[j].handle < d.told[k].handle

\* ServiceDiscovery.h:102, "complete service discovery: callbacks being called for
\* every service and characteristic": while the link is there and no answer is an
\* error, the callbacks come in the order of the peer's table, none twice, each with
\* the right UUID and handles and none left out; and when the discovery ends by
\* itself, none is missing.  (An error ends it as if it were complete.)
ReportsComplete ==
  ~disc.cut /\ launches > 0 =>
    /\ InOrder(disc)
    /\ Heard(disc) \subseteq Expected(disc.filter)
    /\ \A r \in Expected(disc.filter), h \in Heard(disc) :
         r.handle < h.handle => r \in Heard(disc)
    /\ (disc.told # <<>> /\ Last(disc.told) = End /\ ~disc.stopped)
          => Heard(disc) = Expected(disc.filter)

\* The application is told the end of a discovery once, and nothing behind it: when
\* the discovery ends by itself or with the link, and when the application calls
\* terminate() in any callback but the one for a service's last characteristic, or
\* outside the callbacks while a UUID is awaited.  In the two cases left to Trouble
\* the code breaks it: terminateCharacteristicDiscovery makes the discovery active
\* again behind that callback, and so does a late answer that is not a UUID, though
\* terminate() is to end it (ServiceDiscovery.h:64, 124-125).
EndsOnce ==
  /\ \A k \in 1 .. Len(disc.told) - 1 : disc.told[k] # End
  /\ launches > 0 => isActive(disc) = (disc.told = <<>> \/ Last(disc.told) # End)

\* The answer to a UUID read meets the index it was asked for at the head of its
\* queue (dequeue of an empty queue is the index -1), and the characteristics of a
\* service meet that service in the cache.
AnswersMeetTheirIndex ==
  /\ (pc = "idle" /\ events # <<>> /\ Head(events).kind = "uuid") =>
       LET d == disc
       IN /\ d.state = "DISCOVER_SERVICE_UUIDS" =>
               /\ d.serviceUUIDDiscoveryQueue # <<>>
               /\ d.services[Head(d.serviceUUIDDiscoveryQueue)].handle = Head(events).handle
          /\ d.state = "DISCOVER_CHARACTERISTIC_UUIDS" =>
               /\ d.charUUIDDiscoveryQueue # <<>>
               /\ d.characteristics[Head(d.charUUIDDiscoveryQueue)].handle = Head(events).handle
  /\ disc.state \in {"CHARACTERISTIC_DISCOVERY_ACTIVE", "DISCOVER_CHARACTERISTIC_UUIDS"} =>
       disc.serviceIndex < disc.numServices

\* A discovery ends, by itself or with the link, or the peer leaves a request
\* unanswered for good: no answer leaves it active with nothing asked.  A silent peer
\* does keep it active, and every launch() refused: on BLE_GATTC_EVT_TIMEOUT the
\* driver does nothing (btle.cpp:209-214).  So does a UUID the peer does not tell,
\* which Trouble excludes: processDiscoverUUIDResponse then asks for no other.
DiscoveryEnds == isActive(disc) ~> ~isActive(disc) \/ [](disc.request # NoRequest)
=============================================================================
