# Verification of the BLE water pump

TLA+ models of the firmware in `main.cpp`, of the parts of the BLE port and of
the SDK that it is linked with and that keep state, and of its Linux client
`pumpble.py`; TLC runs that check them on small instances, and TLAPS proofs of
what matters most, for every value of the constants.

Paths and line numbers refer to the repository. `PROJECT.json` maps every
definition to the lines it stands for and lists the hazards the properties are
aimed at.

## 1. The system

    pumpble.py ──D-Bus──> bluetoothd ──radio──> SoftDevice ──SWI2──> signalEvent
       two threads                                 │  ^               (flag)
                                     attribute     │  │ sd_* calls       │
                                     table, link,  v  │                  v
                                     event queue  main() loop ── waitForEvent
                                     flash         │   ^  callbacks
                                     pump pin <────┘   │ cnt
                                                 ticker interrupt, 1 s
                                                 watchdog, 3 s ── reset

| Component | State it keeps | Operations | What is hard | What makes it correct |
|---|---|---|---|---|
| Firmware (`main.cpp`) | `cnt`, `PUMPING_STOP_AT_CNT`, `PUMPING_ENABLED`, the pump pin, `CONNECTED_AT`, `DISCONNECT_AT` | boot, the loop, four callbacks, ticker interrupt, resets | the interrupt between any two statements, a loop delayed in callbacks, hangs, deadlines read late, two writers of the pump attribute | the pump runs as long as asked and always stops; a central is thrown out in time and never early; the board comes back |
| Battery gauge (`main.cpp`) | none | converter reading to percent | 32-bit arithmetic, division towards zero, a cast to a byte | in range, no overflow, monotone |
| BLE port: event pump (`nRF5xn.cpp`, `btle.cpp`, `softdevice_handler.c`) | `isEventsSignaled`, connection handle, SoftDevice queue | signal, drain, sleep, dispatch | interrupt against drain against sleep; events that are old when they are dispatched | no event is left behind or slept on |
| Gap and advertising payload (`Gap.h`, `nRF5xGap.cpp`, `GapAdvertisingData.h`) | 31 bytes and a length; what the SoftDevice holds | add, extend, update, set, clear | byte moves at the capacity; a refusal after a change | the bytes are the fields that were added; the air and the buffer agree |
| GattServer (`nRF5xGattServer.cpp`, `custom_helper.cpp`) | handles, characteristics, UUID table | add a service, write and notify, nine kinds of events, reset | an addition that fails half-way, handles of an earlier configuration, events of a link that is gone, full buffers, system attributes not there yet | handles resolve; a value written is stored; the application hears of every write and subscription; every request is answered |
| Service discovery (`nRF5xServiceDiscovery.cpp`, `btle_discovery.cpp`) | state, indices, two caches, two UUID queues | launch, terminate, four kinds of answers, every other event | answers in parts, callbacks that stop it, late answers, unrelated events, the link lost anywhere | everything is reported, once and in order; it ends once and always |
| Block storage (`pstorage.c`) | command queue, state machine, flags, retries; the swap page | register, store, update, clear, load, flash events | pages shared by blocks, a busy SoftDevice, retries, power loss between operations | a command changes its words only; events find their command; a command ends |
| Record storage (`fds.c` on `fstorage.c`) | pages, command and chunk queues, garbage collector, operation queue | write, update, reserve, clear, find, open, collect, initialise | space counted ahead of writing, collection against commands and searches, torn writes, retries | a store of records that only writes and clears change; nothing is written over; a reported record is there |
| Client (`pumpble.py`) | `STOP_THREAD`, main loop, link, request | connect, run, callbacks, time out, tear down | three tear-downs race, each may raise | it ends, and not before its time |
| Device manager, peer manager, DFU, scheduler, memory pool, ticker HAL, mbed | | | | not modelled, see 7 |

The parts meet in five places: the SoftDevice's event queue (radio and flash to
callbacks), the attribute table (central and `main()` both write it), the flash
(one operation at a time, of any user), the volatile `cnt` (interrupt to
everything in `main.cpp`), and the reset, which takes all state with it except
the flash and, possibly, the watchdog.

## 2. Modules

| Module | What it is |
|---|---|
| `WaterPump`, `MCWaterPump` | the firmware with its event pump and its surroundings |
| `PumpPromise` | what the firmware promises about the pump, request by request; `WaterPump` implements it |
| `PumpClient`, `MCPumpClient` | `pumpble.py` with its two threads |
| `BatteryGauge` | reading to level |
| `AdvertisingData`, `MCAdvertisingData` | the byte buffer of an advertisement and the Gap calls that change it |
| `AdvertisingFields` | the list of fields the buffer stands for; `AdvertisingData` implements it |
| `GattServer`, `MCGattServer` | the server between its application and the SoftDevice |
| `GattDiscovery`, `MCGattDiscovery` | service discovery between the application and a peer |
| `Pstorage`, `MCPstorage` | the block storage with its flash |
| `BlockStore` | a memory of words changed by one command at a time; `Pstorage` implements it |
| `Fstorage`, `Fds` | the queue of flash operations with its flash, and the records on it |
| `FdsRecords`, `MCFds` | what is promised of the records over several steps |
| `RecordStore` | a set of records changed one at a time; `Fds` implements it |
| `WaterPump_proofs`, `AdvertisingData_proofs`, `GattServer_proofs`, `GattDiscovery_proofs`, `Pstorage_proofs`, `Fds_proofs` | the theorems; those of the firmware, its client and its battery gauge are in the first |
| `Fds_facts` | what `Fds_proofs` rests on: what the operators of `Fds` compute, and what a page holds at every word |
| `FoldFacts` | induction over numbers and over folds, for the proofs |

An `MC` module holds values for constants and bounds; no configuration replaces a
definition. Next to a mapped definition stands, where a property needs one, a
faulty form of it, marked `(Bug)` or "A plausible fault"; it is not part of the
model, and TLC finds the property violated when it takes the place of the other.

### WaterPump

Variables have the names of the code. `pc` says where `main()` stands:

| `pc` | code | actions |
|---|---|---|
| `boot`, `start` | 313-314, 315-323 | `BootWait`, `BootStart` |
| `init`, `spin`, `enter` | 324, 326, 327-328 | `BleInit` (with `bleInitComplete`), `BleInitFails`, `EnterLoop` |
| `loop`, `deadline` | 330-334, 335-339 | `UptimeReset`, `UptimeGoesOn`, `CheckDeadline` |
| `poll`, `latch`, `uptime`, `feed` | 340, 341, 343-345, 346 | `PollTick`, `LatchTick`, `UpdateUptimeState`, `WdtReset` |
| `pump`, `stopped` | 347-353, 354-360 | `StopPump`, `KeepPump`, `PublishStop` |
| `events`, `sleep` | `nRF5xn.cpp` 205-217 | `ProcessEvents`, `Sleep` |
| `drain` | `intern_softdevice_events_execute` | `NoMoreEvents`, `OnConnected`, `OnDisconnected`, `OnDataWritten`, `OnEmptyWrite` |
| `connected` | 281 | `SetDeadline` |
| `switch`, `publish` | 254-255, 257 | `SwitchPumpOn`, `PublishPumping` |

Every read of `cnt`, every change of the pin and every change of an attribute is
a step of its own, so the ticker (`Tick`) and the SoftDevice come between any
two. Statements that touch nothing those two can touch are joined to their
neighbour. One tick of the ticker is the unit of time. `Tick` counts and advances the watchdog, which fires
(`WdtFires`) before the tick that would exceed its period; that is how a hang of
`main()` ends. A soft reset may or may not leave the watchdog running
(`UptimeReset` tries both).

What is assumed of the surroundings, and where:

* the SoftDevice queues events in order, sets the flag through `signalEvent` for
  each, changes an attribute and acknowledges before the application hears of it
  (`Signal`, `SoftDeviceIsWritten`); it still takes writes while a disconnection
  that `main()` asked for is under way; it may refuse to advertise;
* `sd_app_evt_wait` returns at once if an interrupt came since its last call (`irq`);
* at most one tick falls between lines 253 and 255 (guard of `Tick`);
* `main()` may be held up for any time everywhere else, up to what the watchdog allows.

### PumpClient

`main` and `thread` say where the two threads stand. A callback runs in the main
thread, inside `manager.run()`, and its disconnection and its `stop()` are separate
steps. `Disconnect` may raise wherever it is called, and each caller then skips
what its lines skip. Nothing is assumed of the link, of an answer or of the
order in which they come, except that half a second is enough for the main
thread to get from line 223 to 224.

### AdvertisingData

A buffer is the array and `_payloadLen`; `AppendField`, `FindField`,
`UpdateField`, `ExtendField`, `AddData` and `UpdateData` are the methods of those
names (`ExtendField` is the list branch of `addField`). `Offer` is the pattern
of the Gap calls: change a copy, hand it to `setAdvertisingData`, keep it if that
returned no error. Line 474 moves one byte too many; if it lands on the length,
what line 485 then adds to is undefined, and `ExtendField` has both outcomes.
In `AdvertisingFields` a new value joins a list on either side, since code and
comments do not agree on which (section 4).

### GattServer

`server` is the object: counts, `p_characteristics`, `nrfCharacteristicHandles`
and the static table of `custom_helper.cpp`. `table`, `vsBases`, `value`, `cccd`,
`sysAttrs`, `tx`, `indicated` and `queue` are the SoftDevice's. `AddService` is
the loop of `addService` with each return out of its middle; `Write` has a
disjunct for each way through lines 212 to 297 (`Hvx`, `HvxRefused`, the plain
`sd_ble_gatts_value_set`); `hwCallback` has one for each event it switches over.
The SoftDevice may refuse any answer the driver gives it, `sd_ble_gatts_sys_attr_set`
(412) or a reply to a request for authorization (472, 524), as busy or for want of
memory (`ble_gatts.h`:560, 595-597). The driver does not look at the result and gives
no answer twice: `pending.refused` tells such a request (`Unanswered`). The central
writes values and descriptors, which the driver adds open for writing
(`custom_helper.cpp`:346).
The application is the one of `main.cpp`: it adds its services, advertises, and
advertises again after a disconnection; it answers an authorization in its
callback. `Shutdown` empties the SoftDevice and calls `reset()`. Lengths, offsets
and permissions are abstracted: what they lead to is the refusal of a write.
`owed`, `heard`, `unsent` and `last` record what the application was told and
what was written last. The write of a descriptor is owed to no one, as no index is
found for its handle (434-437); an authorized write whose reply was refused is
reported although it was not made (484-491).

### GattDiscovery

`disc` is the object with its queues; `pc` and `i` say where the handling of the
event at the head of `events` stands, because each callback to the application
is a step, in which it may terminate the discovery. One step of the handler is
the whole stretch of code between two callbacks, `progressCharacteristicDiscovery`
and the walk over the services behind every event included.

The SoftDevice refuses a request only when the link is lost or a procedure of the
discovery itself is under way (busy); the application uses no other client
procedure and does not launch within a callback. A peer answers with any number
of entries up to `MaxCount`, with none when there are no more, with any other error
(`PeerRefuses`), which `btle_discovery.cpp`:40-42 and 53-54 take for "no more", or not at
all. An error answer therefore ends the discovery, or that of a service, as if
complete; `ReportsComplete` asks for completeness only where the link was kept and no request was
answered with an error (`cut`). `Trouble` names
what the code does not withstand; the runs and proofs say which of it they
admit:

| `Trouble` | breaks |
|---|---|
| `event`: any other event while characteristics are awaited | `ReportsComplete` (finding 5) |
| `last`: terminated in the callback for the last characteristic of a service | `EndsOnce`: `progressCharacteristicDiscovery` starts it again |
| `uuid`: the peer refuses to tell a UUID | `DiscoveryEnds`: no further UUID is asked for, and none is awaited |
| `terminate`: terminated from `main()` while an answer other than a UUID is awaited | `EndsOnce`: the late answer sets the state to active |

`last` and `terminate` are told of in hazard 39 of `PROJECT.json`, against what `ServiceDiscovery.h`:64 and
124-125 say of `terminate()`, and `uuid` in hazard 40.

### Pstorage

`e` is the state machine (`Engine` lists its fields under their names in
`pstorage.c`) with the operation the SoftDevice is at. A handler, a client's call
or a flash event, runs to its end and is one action: a chain of operators, each
named for the function it stands for, that ends in `FlashCall` (an operation is
started, or refused as busy), in `IDLE` or in `ERROR`. Flash bits only clear
(`Over`), so a word written twice is `Mixed`. `PowerLoss` cuts the operation under
way at any word.

Sizes are in words, and no block lies across the end of a page (`BlocksAssumption`):
with the one data page of `pstorage_platform.h`:69 no such block can be registered. What
the code would do to one is told in section 4. `tail_word_size_calculate` takes 16-bit
parameters (1174, `pstorage_platform.h`:90), so addresses lose their upper bits (`AsSize`); the
flash of a module is smaller than the 64 pages beyond which the tail would come out wrong.
As in `Fstorage` the SoftDevice takes no operation between the end of one and the dispatch of
its event (`nrf_soc.h`:865 says busy until the command has completed, and no more), so no call
comes between the two.
A loss of power in the middle of a command is not repaired by the code, which has
no record of what the swap page holds: the refinement says no more than that the
pages of that command are the ones that suffer.

### Fstorage and Fds

`Fstorage` has the flash, the queue of operations with its retries, the events
not dispatched, and another user of the flash; `Fds` adds the state of `fds.c`
and one action per call of `fds.h`. Each flash event is dispatched with
everything it leads to: `FlashEvent` is `fs_sys_event_handler`, the callback
`fs_callback`, the advance of the command at the head, of the initialisation or
of the collection, and `queue_process`.

* Calls and events run in the main context, one after another. The critical
  section macros are empty in this build, so nothing else would be sound.
* `fs_sys_event_handler` is called by nobody in the repository; it is modelled as
  `pstorage_sys_event_handler`, its counterpart, is called.
* The SoftDevice only refuses with busy, and takes no operation before the event of the last
  one was dispatched; else `fstorage.c`:524 would take a foreign event for its own.
* A record is shorter than `FS_MAX_WRITE_SIZE_WORDS`: one operation per store.
* A client zeroes a descriptor before it reuses it and closes a record before it
  updates it. A `Patient` client, the one of the passing run, asks for no second
  collection and searches and opens nothing while one is queued. For any other
  finding 4 applies, and 1982 sets a collector at work back to its beginning, by
  which every record can be lost.
* A failed operation stays at the head of the queue with `FS_FLAG_PROCESSING` set and is not begun again
  (`fstorage.c`:386-394, 309-316); only another user's event moves the queue on, and is then taken for the end of
  the failed operation. With `Meddles` FALSE, as in the runs and the theorems, no other user begins while an operation is flagged
  as begun. With TRUE the code breaks `WrittenWhenReported`, `StoreKept`, `SpaceAccounted`, `WrittenOnce` and
  `SearchSeesAll`, in 17 to 22 steps: the failed write is reported as made, and the failed copy of a record is followed by the
  erasing of its page. `CommandsEnd` holds.
* A call of the client inside a callback is modelled as one just before the event.
* Page tags and erases are whole: a torn tag, or power lost in a collection after
  the old page was erased and before the new one was tagged, leaves `fds_init`
  without a page to start from (1158, 1576). Words of records tear anywhere.

### BatteryGauge

`map` with C's division, the voltage of the divider as the one or two integers
the truncated float can be, and `Percent` for `map(mV, 1800, 3200, 0, 100)`.

## 3. Runs

| Run | Specification, bounds | Shows |
|---|---|---|
| `pump` | `HangingSpec`; connection limit 2, uptime limit 4, watchdog 1, writes of 0, 2 and nothing, 2 queued writes (513,237 states) | `TypeOK`, `CntBounded`, `PumpOverrunBounded`, `PumpStateTruthful`, `NoStrandedEvent`, `ConnectionBounded`, `NeverCutEarly`, `PromiseKept`, `PumpStops`, `OnAirAgain` |
| `client` | `ClientSpec`; all 30 half-seconds, times -5, 0, 10, 300 (3,336 states) | `ClientTypeOK`, `WaitsForAnswer`, `Terminates` |
| `advertising` | `InsideSpec`; 8 bytes, a list type and two others, values of 0 to 2 bytes (13,270 states) | `LengthIsOfData`, `OnAirIsPayload`, `KeepsFields` |
| `gatt_server` | `Spec`; 2 services with 3 characteristics, the third cannot be added whole; 5 attributes, 2 buffers, 2 events, any number of connections and shutdowns, any answer refused (159,386 states) | `TypeOK`, `HandlesResolve`, `ValueIsLastWritten`, `ToldOfWrites`, `SubscriptionsKnown`, `DataSentExact`, `RequestsAnswered` |
| `discovery` | `Spec`, no `Trouble`; caches of 2 services and 2 characteristics, peers with 3 services and 4 characteristics, answers of up to 3 entries, error answers, 2 launches (1,058,454 states) | `ReportsComplete`, `EndsOnce`, `AnswersMeetTheirIndex`, `DiscoveryEnds` |
| `pstorage` | `Spec`; 3 pages of 3 words, queue of 2, 2 tries, 2 commands, 1 foreign operation, 1 loss of power (85,872 states) | `TypeOK`, `ErasesItsPages`, `EventsAreAttributed`, `StoreKept`, `CommandEnds` |
| `fds` | `Spec`, `Patient`, not `Meddles`; 2 pages of 14 words, 5 calls and events in all: of them 2 writes, 2 failed or foreign operations, one each of update, clear, clear by instance, collection, search, opening, reservation, loss of power (314,654 states) | `TypeOK`, `WrittenOnce`, `SpaceAccounted`, `SearchSeesAll`, `OpenRecordsStay`, `WrittenWhenReported`, `StoreKept`, `CommandsEnd` |
| `advertising_length`, `pstorage_load`, `gatt_repopulate`, `fds_open_in_gc`, `discovery_event` | `Spec`, small instances | violated: findings 1 to 5 |

What the properties say is in the comment above each. The ones to look at first:

* `PromiseKept`: seen through the writes that wait, `cnt`, the pin and the deadline, the firmware
  behaves as `PumpPromise`: each write is served in its turn, read once (`Read`) and run
  with its own seconds (`Run`), n to n + 1 ticks plus slack of less than two watchdog periods;
  a later request replaces an earlier one, an empty write is passed over (`Ignore`), and only a reset
  (`PowerCycle`) loses a request or cuts a run short.
* `PumpStateTruthful`: once the writes are handled the characteristic is empty, or zero with the pump
  off and the duration of the run under way with the pump on, although two write it: neither the value of an
  older run, shorter or longer, nor what is left of this one.
* `ErasesItsPages`: the swap page is erased only when every word beside the command on a page
  it erased before is back in its place.
* `HandlesResolve`, `ToldOfWrites`: whatever a failed addition or an earlier
  configuration left behind, a handle leads to its own characteristic, and no
  write of a central is lost on the way to the application.
* `ReportsComplete`: what the application is told is what the peer has, in its
  order, through caches smaller than the table and UUIDs asked for one by one.
* `StoreKept`, twice: commands of `pstorage` change their own words only, through
  erasing and restoring the pages their neighbours share; the records of `fds`
  change by one record at a time, through collection and loss of power.

### Why the bounds are enough

*Pump.* A delay falls before the reload of the watchdog or behind it, and each
may be one period; so a pass of the loop can step over a deadline, which tells
`>=` from `=`. An uptime of four spans two connections of two ticks, an extension
of a run by a later write, and a reset in the middle of one; two queued writes can overtake
each other with a tick in between. A connection's own two events come on top of
`MaxPending`, so a whole short connection can hide in the queue.
*Client.* Nothing is scaled.
*Advertising.* Eight bytes hold two headers and four bytes of data, or three
fields with two bytes between them, so each move happens with a field behind,
with none, and at the capacity; the value of two different bytes tells orders apart.
`InsideSpec` leaves out the steps that extend a list to the very last byte
(`Overruns`), since after finding 1 nothing can be said; extension up to the byte
before is included.
*GattServer.* The SoftDevice's room, the driver's tables of characteristics and
descriptors are each smaller than the services need, so an addition fails at each of its returns.
Connections and shutdowns are not bounded: each may bring events and handles of an
earlier life; with two events (and the disconnection) in the queue a write or a request
is handled after its link is gone.
*Discovery.* Three services do not fit in a cache of two and three characteristics
not in theirs, so every walk continues with a second request; a service without
characteristics, long UUIDs at both levels and two ends of the table (the last
possible handle and one before) are in the peers; the second launch meets what
the first left.
*Pstorage.* With three pages a command can begin in one, cover one and end in
another; three words a page allow a head, a body and a tail at once. A second
command waits while the first is refused, fails, and is retried to the last try. The
block layouts are seven blocks of a word, and three modules of one block.
*Fds.* Fourteen words are a tag, two short records and the slack in which the
third does not fit until a page was collected. Five calls and events suffice for
write, clear, collection, and a failure or a loss of power in it, followed by the
initialisation, which is not counted.

Deadlock is checked for `pump`, `advertising`, `gatt_server` and `discovery`; the
client is a program that ends, and the two storages stop when the bounded number
of commands is done.

### Fairness

* `WaterPump!HangingSpec` assumes of the clocks that the ticker and the watchdog run on, and
  of `main()` only that it does not hang in two straight lines of code without
  calls into the stack: from the reload at 315 to the attachment of the ticker, and
  between 253 and 255. Anywhere else `main()` may stop for good; `PumpStops` and
  `OnAirAgain` then rest on the watchdog.
* `PumpClient`: both threads are scheduled; nothing is assumed of the library's events.
* `GattServer`: events are dispatched (`hwCallback`), and the SoftDevice takes up a
  request when the system attributes it asked for are set (`SoftDeviceResumes`). That it takes an
  answer is not assumed: `RequestsAnswered` exempts the request whose answer it refused.
* `GattDiscovery`: events are handled and the application's callbacks return
  (`Handler`). A peer owes no answer: the SoftDevice's time-out ends nothing, since the disconnection on
  `BLE_GATTC_EVT_TIMEOUT` is commented out (`btle.cpp`:209-214), so `DiscoveryEnds` says that a
  discovery ends unless one of its requests is never answered.
* `Pstorage`, `Fds`: the SoftDevice finishes what it accepts and its events are
  dispatched. Nothing is assumed of the clients, of other users or of power. `CommandsEnd` names the two
  cases in which the queue of `fds` stands still: a failed operation that is not repeated
  (`NeverRepeated`), and a step that finds nothing to do for the command that has come to the head
  (`StandsStill`, 1320, 1411).

## 4. Findings

Each has a run whose counterexample shows it, on a small instance.

1. `advertising_length`: `addField` overwrites `_payloadLen` when a list fills the
   payload exactly (`GapAdvertisingData.h`:474). The firmware adds each type once
   and does not get there.
2. `pstorage_load`: a block is loaded as blank while a neighbour on its page is
   cleared or updated (`pstorage.c`:1464), and success is returned.
3. `gatt_repopulate`: the table of UUID bases survives `shutdown()`
   (`custom_helper.cpp`:31), so services added again in another order are
   published under each other's UUIDs.
4. `fds_open_in_gc`: a record opened while its page is being collected is erased
   (`fds.c`:602 looks once), against what `fds.h`:471 guarantees.
5. `discovery_event`: any other event while characteristics are awaited ends the
   discovery of the service, and with it the whole, as if complete
   (`btle_discovery.cpp`:125).

Met while reading, without a run: the board resets after 3600 seconds, not the
1024 of `README.md`:14, and the reset cuts a run of the pump short; a write of 0
runs the pump to the next tick with the characteristic at 0; `clearAdvertisingPayload`
never reaches the SoftDevice, which refuses an empty payload, so that what is on the air stays while
`getAdvertisingPayload()` is empty (`Gap.h`:955; `OnAirIsPayload` exempts it). A value added to a list of
services is put in front of the others (`GapAdvertisingData.h`:474-482), where 228-229, 446, 456 and `Gap.h`:1061 say that it is
appended. With more than one data page, a block of `pstorage` may lie
across the end of a page (`pstorage.c`:241); an update of its second part then saves and
erases the page before, since 425 leaves out the offset within the block. In discovery, a
relaunch starts at a service's end handle and not behind it (`nRF5xServiceDiscovery.cpp`:215), a
discovery ends as complete when a request is answered with any error (`btle_discovery.cpp`:40-42, 53-54), goes on after `terminate()` in
two cases and is active for good in another (`Trouble`), a refused UUID read leaves the stale UUID although the comment at 241 says invalid, and a filter for
a characteristic with any service calls neither callback (135, 193). So a service of one handle at the
end of an answer, which no peer of the runs has, is asked for again without end; and behind a
characteristic whose value is at the last handle the search goes on at 0 (166), which is refused, and
this characteristic is not reported. In `fds.c`, a clear of what is not there
is never reported (1320, 1411), `fds_update` leaves the old record ID in the
descriptor (1757-1774), a torn header counts as ID 0xFFFFFFFF, from which the IDs wrap
(270), `fds_reserve_cancel` gives back the data and not the header (1835), and
`fds_close` after a collection counts down on another page. With more than one data page (the
default is one) an opened record may be erased by a collection also when it was opened before it:
a descriptor that `fds_update` changed names the page of the new record and still points to the old one
(1758-1774), and `fds_open` counts the opening on the former (1629).

## 5. What is proved

Each theorem holds for every value of the constants that satisfies the module's
named assumption, which asks for sizes and bounds to be numbers, positive where a
zero makes no sense, for marker values to differ, for the bytes of a payload to be bytes,
for a characteristic to be in one service and once, and for a peer's table to be in order.

| Module | Theorem | Property | Argument |
|---|---|---|---|
| `WaterPump_proofs` | `TypeCorrect` | `TypeOK` | inductive |
| | `CounterBounded` | `CntBounded` | `ClockInv` |
| | `PumpOverrun` | `PumpOverrunBounded` | `PumpInv` |
| | `PromiseIsKept` | `PromiseKept` (refinement) | `PumpInv` |
| | `NoEventStranded` | `NoStrandedEvent` | inductive |
| | `ConnectionIsBounded`, `ConnectionIsNeverCutEarly` | `ConnectionBounded`, `NeverCutEarly` | `QueueInv`, `LinkInv`, `DeadlineInv` |
| | `PumpStateIsTruthful` | `PumpStateTruthful` | `PumpStateInv` |
| | `ClientTypeCorrect`, `ClientWaits` | `ClientTypeOK`, `WaitsForAnswer` | `ClientInv` |
| | `MapStaysInRange`, `MapDoesNotOverflow`, `LevelFollowsVoltage`, `LevelAtTheEnds` | | arithmetic |
| `AdvertisingData_proofs` | `AirAndPayloadAgree` | `OnAirIsPayload` | `OfferKeeps` |
| | `LengthIsTheData` | `LengthIsOfData` | `LayoutInv` |
| | `KeepsTheFields` | `KeepsFields` (refinement) | `LayoutInv` |
| `GattServer_proofs` | `ValuesAreStored` | `ValueIsLastWritten` | inductive |
| | `HandlesAlwaysResolve` | `HandlesResolve` | `TableInv`, along the fold of `addService` |
| | `TypesAreOK` | `TypeOK` | `BaseInv` |
| | `DataSentIsExact` | `DataSentExact` | `BaseInv`, along the queue |
| | `WritesAreTold` | `ToldOfWrites` | `BaseInv`, along the queue |
| | `SubscriptionsAreKnown` | `SubscriptionsKnown` | `HeardInv` |
| `GattDiscovery_proofs` | `DiscoveryEndsOnce` | `EndsOnce` | `DiscoveryInv` |
| | `AnswersMeetTheIndex` | `AnswersMeetTheirIndex` | `IndexInv` |
| | `ReportsAreComplete` | `ReportsComplete` | `ReportInv` |
| `Pstorage_proofs` | `StoreIsKept` | `StoreKept` (refinement) | `EngineInv` |
| | `InvHolds` | `Inv` | inductive |
| | `ErasesOnlyItsPages` | `ErasesItsPages` | `EngineInv` |
| | `EventsFindTheirCommand` | `EventsAreAttributed` | `EngineInv` |
| | `TypesAreOK` | `TypeOK` | `EngineInv` |
| `Fds_proofs` | `AlwaysSteady` | `Steady` | inductive |
| | `TypeCorrect` | `TypeOK` | `Steady` |
| | `NeverRewritten` | `WrittenOnce` | `Steady` |
| | `SpaceIsAccounted` | `SpaceAccounted` | `Steady` |

*Pump.* The bounds are not inductive: that `cnt` is at most two periods
late says nothing of where `main()` stands, and one more tick would break it.
`ClockInv` and `PumpInv` therefore split the delay in two: what has passed since
the last reload is `wdt`, at most one period, and what passed between the check
and that reload is at most another. From the uptime check to the reload
(`BeforeReload`) the first bound is sharper, and right after the reload the pump's
deadline is looked at, so only at `pc = "pump"` may it be a whole period old. For
connections `QueueInv` says in which order news can stand in the queue, `LinkInv`
what the application then knows of the link, and `DeadlineInv` adds the clock
argument. `PromiseIsKept` maps each step to a step or stutter of `PumpPromise`
under `PumpInv`; the requests that wait are the writes in the queue and the one that is being handled
(`Inbox`), and the deadline of `PumpPromise` is the one of the code (`PromisedEnd`). For the attribute `PumpStateInv` says how a wrong value is made
good: `main()` is about to publish, or the last write in the queue has a value,
which will be published when its turn comes. (If the last write is empty, so is
the attribute, and says nothing.) `NEVER` must be large enough (`ParametersAssumption`).

*Client.* A tear-down that runs before the time is up or an answer came would
break `WaitsForAnswer`; `TeardownInv` says of each place of either thread why it
was allowed to get there, `FailuresInv` how often a disconnection can have failed.

*Payload.* The calls work on a copy; `OfferKeeps` shows that what is offered is
kept and advertised, or neither, whatever the buffer made of it. `LayoutInv`, on which
the other two rest, says that the payload stands for some list of fields: there are
offsets, each as far behind the one before as that field is long, at which the bytes are
those of the field, and the last field ends at the length. Of each way to move bytes
(`Written`, `Removed`, `Extended`) a lemma says for which list and which offsets the
result stands. The readers `FindField`, `Fields` and `End` are recursive functions:
`LooksAhead` shows that they exist, since each reads on only further behind, and
induction from the last field forward what they return. Both hold of `InsideSpec`, which
leaves out the one byte written behind the array (finding 1).

*GattServer.* `ValuesAreStored` has one case per way through `write()`, of the
central and of the authorization replies: each either stores and remembers, or does
neither. The others rest on `BaseInv`. Its first part, `TableInv`, says that what the driver has
registered up to `characteristicCount` is one entry per value of the table, in
order, and nothing behind it counts; `addService` is a fold that may stop
anywhere, so this is proved of one round and carried along the fold (`FoldIn` of `FoldFacts`). The
other parts say what can stand in the queue: the news of a connection begins it, that of
its loss ends it (`LinkInv`), every event carries a handle of the table
(`CarriesInv`), and at most one request waits (`PendingInv`). Dispatching takes an
event from the front of a fold and the SoftDevice adds one at its end
(`FoldFirst`, `FoldLast`), which is how `DataSentExact` and `ToldOfWrites` are kept. For
`SubscriptionsKnown`, which speaks only of an empty queue, `HeardInv` says of every CCCD that
the last subscription in the queue, or what was heard if there is none, is what the SoftDevice holds.

*Discovery.* `EndsOnce` fails when an answer that is awaited finds a discovery
that was ended meanwhile and sets its state to active again. `DiscoveryInv` says
that this answer finds the state it was asked from: of the events ahead of it
none moves the discovery. Its parts say what was told (`Told`), which request
goes with which state (`Asked`), which answers can stand in the queue and in
which order (`Queued`), that nothing foreign comes while characteristics are
awaited or services are walked over (`Calm`), and where the discovery and the handler
stand while an answer is awaited (`Expecting`). The
theorem assumes `Trouble` is at most `uuid`: `last` and `terminate` break the
property, and `event` is finding 5. `IndexInv`, under the same assumption, adds for
`AnswersMeetTheirIndex` that a long UUID is awaited for the cached attribute at the
index of the state, and that nothing ahead of its answer moves either.

`ReportsComplete` compares what the application was told with what the filter asks for of
the whole table (`Expected`), and it is not inductive, since it says nothing of what is
still to come. `ReportInv` says of every place the discovery can stand at up to which
handle of the table it has told (`ToldTo`): between services this is the service at
the index, or the one behind the caches (`AtServices`); within a service the characteristic
at hand, but for the one that is kept back until its last handle is known (`Position`,
`Through`, `Kept`); and a request asks from where the reports stand (`RequestRight`), and
its answer, which may hold any number of entries, begins there (`EventRight`). That a cache
holds the first attributes behind that handle, without a gap, is `Gapless`. A
theorem that the discovery tells all needs a peer and an application that the code
withstands: no `Trouble`, and `Withstood`, which leaves out a service of one handle, a value at the
last handle of all and a filter for one characteristic of any service. TLC finds a
counterexample without any one of them.

*Pstorage.* `EngineInv` has three parts: the machine is at a place of the running
command (`Place`: which of the functions, which page, which words of head and tail),
the flash holds there what the place needs (`Contents`: the swap page holds the saved
words, words yet to be written are blank), and the operation under way is the one
of the place (`IsOpOf`). `Shows` says which memory of `BlockStore` a place stands for: during
a swap some words are to be read from the swap page. Of an operation any first part
keeps `Contents` and `Shows` (`Worked`), which is why a refusal, a failure and a retry are
harmless; the whole of it leads to the next place (`Done`). A handler is a chain of
operators, and a lemma for each says that it ends in one of the outcomes of
`Outcome`: it goes on (a stutter of `BlockStore`), it gives up with the pages of its
command spoilt at most (`Fail`), or it has reported and started the next (`Report`). The
queue bound, the tries and the sizes of pages and modules do not matter; of the
blocks `BlocksAssumption` is needed.

*Records.* `Steady` says of the flash, at every word of a page, what stands there: a tag, then
records one behind the other, complete ones or the beginning of one, then blank words
(`FlashOK`). While the storage is in use, `Layout` compares it with the RAM: the kind of each page and
where its last record ends (`KindsOK`, `EndsOK`), what each queued command is to write there and that it is reserved (`SpaceOK`, a sum along
the queue), the chunks of each record (`ChunksOK`), the place of the collection (`GcOK`) and of the
command at the head (`Place`, `Progress`). It is stated of the flash as it will be when the operation under way is done (`Now`), because
the RAM is ahead of the flash by that operation, and every first part of that operation leaves
a flash that is sound (`SafeOp`), so a failure or a loss of power in it does no harm. Each handler ends in such a state:
`Fds_facts` says what the operators compute, `Fds_proofs` goes through the commands, the collection, `fds_init` and the calls.
The hypothesis is `Foreseen`: a `Patient` client, since another may set a collection at work back to its
beginning (1982); not `Meddles`, without which TLC finds counterexamples; and a retry bound above zero, as in the code
(`FS_CMD_MAX_RETRIES` is 3), by which the first failure of an operation does not end it.

*Battery.* `map` is in its output range for any input, no intermediate result
leaves 32 bits for any reading of the converter, a lower voltage never shows a higher
level, and 0 and 100 are shown exactly below 1.814 V and from 3.2 V.

## 6. What is only model-checked

Liveness (`PumpStops`, `OnAirAgain`, `Terminates`, `RequestsAnswered`,
`DiscoveryEnds`, `CommandEnds`, `CommandsEnd`): the proof system has no fairness.
Induction over data
is out of its reach as the library states it, over operators; `FoldFacts` states it
over sets of numbers, which is enough for folds with a known step and for functions
that read ahead, and so the folds of `GattServer` and of `GattDiscovery` and the readers of
`AdvertisingData` are proved. Of `Fds`, `SearchSeesAll`, `WrittenWhenReported` and the refinement `StoreKept` are only
model-checked; so is `OpenRecordsStay`, which is false with more than one data page (section 4).

In the run `fds` an operation that failed is never repeated, so none fails twice, and the branch that
gives one up (`fstorage.c`:391) does not come about.

## 7. What is not modelled

* Of the firmware: LED and serial port; the set-up of the converter and its busy-wait, in
  which `main()` may hang like anywhere; `rr_error()`, which the code reaches only if a
  pointer set at initialisation is null.
* Of GattServer: descriptors with a user description (`nRF5xGattServer.cpp`:118-122), which nobody writes.
* Of the port: scanning, connecting as a central, white lists, privacy and the scan response of Gap, which the firmware does
  not use; `read()` and `areUpdatesEnabled()` of GattServer, which change nothing; the
  discovery of descriptors, reads and writes of the Gatt client and `reset()` of the
  discovery.
* Of the storages: the raw mode of `pstorage`, which is not compiled; `fds_register`,
  `fds_descriptor_from_rec_id`, and more than one user of `fstorage`.
* Of the client: `--discovery`, which only prints, and its interruption.
* Device manager and security, peer manager, firmware update, event scheduler and memory
  pool: linked by the Makefile, but never initialised or called, so their state
  never changes in this program.
* The ticker HAL under `nrf_hal_src` is not in the Makefile, which links a prebuilt
  mbed; the mbed runtime and the SoftDevice are binaries and appear as external actions.

Most of the repository's lines are headers of the vendor and of mbed (register and
bit definitions, DSP library, templates for callbacks) that hold no behaviour of
this system; of the code with behaviour that the firmware executes, what has state
is in the modules above.
