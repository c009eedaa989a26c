----------------------------- MODULE WaterPump -----------------------------
(***************************************************************************)
(* The firmware of main.cpp: the one thread that runs main(), the BLE      *)
(* callbacks it calls from waitForEvent(), the ticker interrupt, the       *)
(* watchdog, and the two soft-reset failsafes.  The radio and the central  *)
(* at its other end are the SoftDevice's business; they appear here as     *)
(* the actions SoftDevice... that preempt the thread, put an event in the  *)
(* queue and raise the event interrupt.                                    *)
(*                                                                         *)
(* Time is counted in ticks of the one-second ticker.  The interrupt may   *)
(* come between any two steps of main, so each read of the volatile cnt    *)
(* is a step of its own; statements that touch nothing an interrupt or     *)
(* the SoftDevice touches are joined to their neighbours.                  *)
(***************************************************************************)
EXTENDS Integers, Sequences

CONSTANTS
  DISCONNECT_AFTER_SECONDS,  \* ticks after which a central is thrown out
  RESET_AFTER_SECONDS,       \* uptime after which the board resets itself
  WDT_TICKS,                 \* ticks the watchdog lets pass without a reload
  NEVER,                     \* 999999, the value of DISCONNECT_AT with no deadline
  Seconds,                   \* the bytes a central may write to the pump
  MaxPending                 \* bound: events in the queue beyond which nobody writes

ASSUME ParametersAssumption ==
  /\ DISCONNECT_AFTER_SECONDS \in Nat \ {0}
  /\ RESET_AFTER_SECONDS \in Nat \ {0}
  /\ WDT_TICKS \in Nat \ {0}
  /\ NEVER \in Nat
  /\ NEVER > RESET_AFTER_SECONDS + 2 * WDT_TICKS + DISCONNECT_AFTER_SECONDS
  /\ Seconds \subseteq 0..255
  /\ MaxPending \in Nat

\* The pump characteristic has a variable length of at most one byte, so a
\* central may also write nothing at all: the value is then no byte.
NoByte == -1

PumpValue == Seconds \cup {0, NoByte}

Event ==
  [type : {"connected", "disconnected"}, value : {0}]
    \cup [type : {"write"}, value : Seconds \cup {NoByte}]

VARIABLES
  pc,                  \* where main() stands
  pump_for_seconds,    \* the local of onDataWrittenCallback, with its last value
  cnt,                 \* ticks since boot, incremented by the ticker interrupt
  prev_cnt,            \* the local of main()
  wdt,                 \* ticks since the watchdog was last reloaded
  PUMPING_STOP_AT_CNT,
  PUMPING_ENABLED,
  powerswitch1,        \* the pin that drives the pump
  CONNECTED_AT,
  DISCONNECT_AT,
  pumpState,           \* attribute 0xA101 in the SoftDevice's table
  uptimeState,         \* attribute 0xA201
  link,                \* what the radio does
  m_connectionHandle,  \* is nRF5xGap's handle that of a connection?
  queue,               \* SoftDevice events not fetched yet
  isEventsSignaled,    \* the flag the event interrupt sets
  irq                  \* an application interrupt since the last sd_app_evt_wait

pumpVars == <<PUMPING_STOP_AT_CNT, PUMPING_ENABLED, powerswitch1>>
deadlineVars == <<CONNECTED_AT, DISCONNECT_AT>>
radioVars == <<link, queue, isEventsSignaled, irq>>
vars == <<pc, pump_for_seconds, cnt, prev_cnt, wdt, pumpVars, deadlineVars,
          pumpState, uptimeState, m_connectionHandle, radioVars>>

Init ==
  /\ pc = "boot" /\ pump_for_seconds = 0
  /\ cnt = 0 /\ prev_cnt = 0 /\ wdt = 0
  /\ PUMPING_STOP_AT_CNT = 0 /\ PUMPING_ENABLED = FALSE /\ powerswitch1 = FALSE
  /\ CONNECTED_AT = 0 /\ DISCONNECT_AT = NEVER
  /\ pumpState = 0 /\ uptimeState = 0
  /\ link = "idle" /\ m_connectionHandle = FALSE
  /\ queue = <<>> /\ isEventsSignaled = FALSE /\ irq = FALSE

\* Any reset: RAM, pins and radio start afresh, the watchdog from w.
Reboot(w) ==
  /\ pc' = "boot" /\ pump_for_seconds' = 0
  /\ cnt' = 0 /\ prev_cnt' = 0 /\ wdt' = w
  /\ PUMPING_STOP_AT_CNT' = 0 /\ PUMPING_ENABLED' = FALSE /\ powerswitch1' = FALSE
  /\ CONNECTED_AT' = 0 /\ DISCONNECT_AT' = NEVER
  /\ pumpState' = 0 /\ uptimeState' = 0
  /\ link' = "idle" /\ m_connectionHandle' = FALSE
  /\ queue' = <<>> /\ isEventsSignaled' = FALSE /\ irq' = FALSE

-----------------------------------------------------------------------------
(***************************** calls to the port ***************************)

\* ble.disconnect(): the SoftDevice accepts it only for the handle of a live
\* connection; main() ignores the result.
GapDisconnect ==
  link' = IF m_connectionHandle /\ link = "connected" THEN "closing" ELSE link

\* gap().startAdvertising(): sd_ble_gap_adv_start may fail, and nobody looks.
GapStartAdvertising == link' \in {"advertising", link}

-----------------------------------------------------------------------------
(******************************** start of main() **************************)

\* wdt_init(); wait_ms(1000): a second of the watchdog's time goes by.
BootWait ==
  /\ pc = "boot"
  /\ wdt < WDT_TICKS
  /\ wdt' = wdt + 1
  /\ pc' = "start"
  /\ UNCHANGED <<pump_for_seconds, cnt, prev_cnt, pumpVars, deadlineVars,
                 pumpState, uptimeState, m_connectionHandle, radioVars>>

BootStart ==
  /\ pc = "start"
  /\ wdt' = 0
  /\ powerswitch1' = FALSE
  /\ cnt' = 0
  /\ pc' = "init"
  /\ UNCHANGED <<pump_for_seconds, prev_cnt, PUMPING_STOP_AT_CNT, PUMPING_ENABLED,
                 deadlineVars, pumpState, uptimeState, m_connectionHandle, radioVars>>

\* ble.init(): the stack comes up and bleInitComplete runs inside the call.
BleInit ==
  /\ pc = "init"
  /\ GapStartAdvertising
  /\ pumpState' = 0
  /\ uptimeState' = 0
  /\ pc' = "enter"
  /\ UNCHANGED <<pump_for_seconds, cnt, prev_cnt, wdt, pumpVars, deadlineVars,
                 m_connectionHandle, queue, isEventsSignaled, irq>>

\* btle_init() fails: nRF5xn::init returns without calling back, and main()
\* spins on hasInitialized() for good.
BleInitFails ==
  /\ pc = "init"
  /\ pc' = "spin"
  /\ UNCHANGED <<pump_for_seconds, cnt, prev_cnt, wdt, pumpVars, deadlineVars,
                 pumpState, uptimeState, m_connectionHandle, radioVars>>

EnterLoop ==
  /\ pc = "enter"
  /\ prev_cnt' = 0
  /\ wdt' = 0
  /\ pc' = "loop"
  /\ UNCHANGED <<pump_for_seconds, cnt, pumpVars, deadlineVars, pumpState,
                 uptimeState, m_connectionHandle, radioVars>>

-----------------------------------------------------------------------------
(******************************* the main loop *****************************)

\* rr_reset() when the uptime is over.  A soft reset may leave the watchdog
\* running where it stands.
UptimeReset ==
  /\ pc = "loop"
  /\ cnt > RESET_AFTER_SECONDS
  /\ \E w \in {0, wdt} : Reboot(w)

\* (Bug) The reset waits until the pump is off.
UptimeGoesOnWhilePumping ==
  /\ pc = "loop"
  /\ cnt <= RESET_AFTER_SECONDS \/ powerswitch1
  /\ pc' = "deadline"
  /\ UNCHANGED <<pump_for_seconds, cnt, prev_cnt, wdt, pumpVars, deadlineVars,
                 pumpState, uptimeState, m_connectionHandle, radioVars>>

UptimeGoesOn ==
  /\ pc = "loop"
  /\ cnt <= RESET_AFTER_SECONDS
  /\ pc' = "deadline"
  /\ UNCHANGED <<pump_for_seconds, cnt, prev_cnt, wdt, pumpVars, deadlineVars,
                 pumpState, uptimeState, m_connectionHandle, radioVars>>

\* (Bug) cnt == DISCONNECT_AT, which a delayed pass of the loop steps over.
CheckDeadlineExactly ==
  /\ pc = "deadline"
  /\ pc' = "poll"
  /\ IF cnt = DISCONNECT_AT
       THEN GapDisconnect /\ DISCONNECT_AT' = NEVER
       ELSE UNCHANGED <<link, DISCONNECT_AT>>
  /\ UNCHANGED <<pump_for_seconds, cnt, prev_cnt, wdt, pumpVars, CONNECTED_AT,
                 pumpState, uptimeState, m_connectionHandle, queue, isEventsSignaled, irq>>

\* if(cnt >= DISCONNECT_AT): throw the central out, once.
CheckDeadline ==
  /\ pc = "deadline"
  /\ pc' = "poll"
  /\ IF cnt >= DISCONNECT_AT
       THEN GapDisconnect /\ DISCONNECT_AT' = NEVER
       ELSE UNCHANGED <<link, DISCONNECT_AT>>
  /\ UNCHANGED <<pump_for_seconds, cnt, prev_cnt, wdt, pumpVars, CONNECTED_AT,
                 pumpState, uptimeState, m_connectionHandle, queue, isEventsSignaled, irq>>

\* if(cnt != prev_cnt)
PollTick ==
  /\ pc = "poll"
  /\ pc' = IF cnt # prev_cnt THEN "latch" ELSE "events"
  /\ UNCHANGED <<pump_for_seconds, cnt, prev_cnt, wdt, pumpVars, deadlineVars,
                 pumpState, uptimeState, m_connectionHandle, radioVars>>

LatchTick ==
  /\ pc = "latch"
  /\ prev_cnt' = cnt
  /\ pc' = "uptime"
  /\ UNCHANGED <<pump_for_seconds, cnt, wdt, pumpVars, deadlineVars, pumpState,
                 uptimeState, m_connectionHandle, radioVars>>

UpdateUptimeState ==
  /\ pc = "uptime"
  /\ uptimeState' = cnt
  /\ pc' = "feed"
  /\ UNCHANGED <<pump_for_seconds, cnt, prev_cnt, wdt, pumpVars, deadlineVars,
                 pumpState, m_connectionHandle, radioVars>>

WdtReset ==
  /\ pc = "feed"
  /\ wdt' = 0
  /\ pc' = "pump"
  /\ UNCHANGED <<pump_for_seconds, cnt, prev_cnt, pumpVars, deadlineVars,
                 pumpState, uptimeState, m_connectionHandle, radioVars>>

\* (Bug) Stops only when the deadline is hit exactly.
PumpExpiredExactly == PUMPING_ENABLED /\ cnt = PUMPING_STOP_AT_CNT

\* if(PUMPING_ENABLED) and if(cnt >= PUMPING_STOP_AT_CNT)
PumpExpired == PUMPING_ENABLED /\ cnt >= PUMPING_STOP_AT_CNT

StopPump ==
  /\ pc = "pump"
  /\ PumpExpired
  /\ powerswitch1' = FALSE
  /\ PUMPING_ENABLED' = FALSE
  /\ PUMPING_STOP_AT_CNT' = 0
  /\ pc' = "stopped"
  /\ UNCHANGED <<pump_for_seconds, cnt, prev_cnt, wdt, deadlineVars, pumpState,
                 uptimeState, m_connectionHandle, radioVars>>

KeepPump ==
  /\ pc = "pump"
  /\ ~PumpExpired
  /\ pc' = "events"
  /\ UNCHANGED <<pump_for_seconds, cnt, prev_cnt, wdt, pumpVars, deadlineVars,
                 pumpState, uptimeState, m_connectionHandle, radioVars>>

\* updatePumpState(0)
PublishStop ==
  /\ pc = "stopped"
  /\ pumpState' = 0
  /\ pc' = "events"
  /\ UNCHANGED <<pump_for_seconds, cnt, prev_cnt, wdt, pumpVars, deadlineVars,
                 uptimeState, m_connectionHandle, radioVars>>

\* ble.waitForEvent(), first half: processEvents() clears the flag and then
\* drains the queue; without the flag it does not look at the queue.
ProcessEvents ==
  /\ pc = "events"
  /\ isEventsSignaled' = FALSE
  /\ pc' = IF isEventsSignaled THEN "drain" ELSE "sleep"
  /\ UNCHANGED <<pump_for_seconds, cnt, prev_cnt, wdt, pumpVars, deadlineVars,
                 pumpState, uptimeState, m_connectionHandle, link, queue, irq>>

\* (Bug) The flag is cleared after the queue was drained, not before.
SleepAndClearFlag ==
  /\ pc = "sleep"
  /\ irq
  /\ irq' = FALSE
  /\ isEventsSignaled' = FALSE
  /\ pc' = "loop"
  /\ UNCHANGED <<pump_for_seconds, cnt, prev_cnt, wdt, pumpVars, deadlineVars,
                 pumpState, uptimeState, m_connectionHandle, link, queue>>

\* second half: sd_app_evt_wait() returns at once if an application interrupt
\* came since its last call, else it sleeps until one does.
Sleep ==
  /\ pc = "sleep"
  /\ irq
  /\ irq' = FALSE
  /\ pc' = "loop"
  /\ UNCHANGED <<pump_for_seconds, cnt, prev_cnt, wdt, pumpVars, deadlineVars,
                 pumpState, uptimeState, m_connectionHandle, link, queue, isEventsSignaled>>

-----------------------------------------------------------------------------
(************ intern_softdevice_events_execute and the callbacks ***********)

NoMoreEvents ==
  /\ pc = "drain"
  /\ queue = <<>>
  /\ pc' = "sleep"
  /\ UNCHANGED <<pump_for_seconds, cnt, prev_cnt, wdt, pumpVars, deadlineVars,
                 pumpState, uptimeState, m_connectionHandle, radioVars>>

\* The next event is of type t and leaves the queue.
Fetch(t) ==
  /\ pc = "drain"
  /\ queue # <<>>
  /\ Head(queue).type = t
  /\ queue' = Tail(queue)

\* btle_handler, then the first statement of connectionCallback.
OnConnected ==
  /\ Fetch("connected")
  /\ m_connectionHandle' = TRUE
  /\ CONNECTED_AT' = cnt
  /\ pc' = "connected"
  /\ UNCHANGED <<pump_for_seconds, cnt, prev_cnt, wdt, pumpVars, DISCONNECT_AT,
                 pumpState, uptimeState, link, isEventsSignaled, irq>>

SetDeadline ==
  /\ pc = "connected"
  /\ DISCONNECT_AT' = cnt + DISCONNECT_AFTER_SECONDS
  /\ pc' = "drain"
  /\ UNCHANGED <<pump_for_seconds, cnt, prev_cnt, wdt, pumpVars, CONNECTED_AT,
                 pumpState, uptimeState, m_connectionHandle, radioVars>>

\* (Bug) The handle of the lost connection is kept.
OnDisconnectedKeepHandle ==
  /\ Fetch("disconnected")
  /\ GapStartAdvertising
  /\ UNCHANGED <<pc, pump_for_seconds, cnt, prev_cnt, wdt, pumpVars, deadlineVars,
                 pumpState, uptimeState, m_connectionHandle, isEventsSignaled, irq>>

\* btle_handler, then disconnectionCallback, which leaves DISCONNECT_AT alone.
OnDisconnected ==
  /\ Fetch("disconnected")
  /\ m_connectionHandle' = FALSE
  /\ GapStartAdvertising
  /\ UNCHANGED <<pc, pump_for_seconds, cnt, prev_cnt, wdt, pumpVars, deadlineVars,
                 pumpState, uptimeState, isEventsSignaled, irq>>

\* (Bug) A deadline off by n ticks.
WriteWithDeadline(n) ==
  /\ Fetch("write")
  /\ Head(queue).value # NoByte
  /\ pump_for_seconds' = Head(queue).value
  /\ PUMPING_STOP_AT_CNT' = cnt + Head(queue).value + 1 + n
  /\ pc' = "switch"
  /\ UNCHANGED <<cnt, prev_cnt, wdt, PUMPING_ENABLED, powerswitch1, deadlineVars,
                 pumpState, uptimeState, m_connectionHandle, link, isEventsSignaled, irq>>

OnDataWrittenTooShort == WriteWithDeadline(-1)

OnDataWrittenUnderflow == WriteWithDeadline(-2)

\* onDataWrittenCallback up to the deadline.
OnDataWritten ==
  /\ Fetch("write")
  /\ Head(queue).value # NoByte
  /\ pump_for_seconds' = Head(queue).value
  /\ PUMPING_STOP_AT_CNT' = cnt + Head(queue).value + 1
  /\ pc' = "switch"
  /\ UNCHANGED <<cnt, prev_cnt, wdt, PUMPING_ENABLED, powerswitch1, deadlineVars,
                 pumpState, uptimeState, m_connectionHandle, link, isEventsSignaled, irq>>

\* params->len is not 1.
OnEmptyWrite ==
  /\ Fetch("write")
  /\ Head(queue).value = NoByte
  /\ UNCHANGED <<pc, pump_for_seconds, cnt, prev_cnt, wdt, pumpVars, deadlineVars,
                 pumpState, uptimeState, m_connectionHandle, link, isEventsSignaled, irq>>

SwitchPumpOn ==
  /\ pc = "switch"
  /\ PUMPING_ENABLED' = TRUE
  /\ powerswitch1' = TRUE
  /\ pc' = "publish"
  /\ UNCHANGED <<pump_for_seconds, cnt, prev_cnt, wdt, PUMPING_STOP_AT_CNT, deadlineVars,
                 pumpState, uptimeState, m_connectionHandle, radioVars>>

\* (Bug) What is left of the run is published.
PublishRemaining ==
  /\ pc = "publish"
  /\ pumpState' = PUMPING_STOP_AT_CNT - cnt
  /\ pc' = "drain"
  /\ UNCHANGED <<pump_for_seconds, cnt, prev_cnt, wdt, pumpVars, deadlineVars, uptimeState,
                 m_connectionHandle, radioVars>>

\* updatePumpState(pump_for_seconds)
PublishPumping ==
  /\ pc = "publish"
  /\ pumpState' = pump_for_seconds
  /\ pc' = "drain"
  /\ UNCHANGED <<pump_for_seconds, cnt, prev_cnt, wdt, pumpVars, deadlineVars, uptimeState,
                 m_connectionHandle, radioVars>>

-----------------------------------------------------------------------------
(***************************** what preempts main() ************************)

\* (Bug) A counter too narrow to exceed RESET_AFTER_SECONDS.
NarrowTick ==
  /\ pc \notin {"boot", "start"}
  /\ wdt < WDT_TICKS
  /\ cnt' = (cnt + 1) % (RESET_AFTER_SECONDS + 1)
  /\ wdt' = wdt + 1
  /\ irq' = TRUE
  /\ UNCHANGED <<pc, pump_for_seconds, prev_cnt, pumpVars, deadlineVars, pumpState,
                 uptimeState, m_connectionHandle, link, queue, isEventsSignaled>>

\* The one-second ticker, attached by BootStart.  The watchdog runs from the
\* same clock: it fires before the tick that would exceed its period.  Between
\* the statements of lines 253 and 255 no more than one tick can come.
Tick ==
  /\ pc \notin {"boot", "start"}
  /\ wdt < WDT_TICKS
  /\ pc = "switch" => PUMPING_STOP_AT_CNT = cnt + pump_for_seconds + 1
  /\ cnt' = cnt + 1
  /\ wdt' = wdt + 1
  /\ irq' = TRUE
  /\ UNCHANGED <<pc, pump_for_seconds, prev_cnt, pumpVars, deadlineVars, pumpState,
                 uptimeState, m_connectionHandle, link, queue, isEventsSignaled>>

WdtFires ==
  /\ wdt = WDT_TICKS
  /\ Reboot(0)

\* The SoftDevice queues an event and raises SWI2, whose handler signalEvent
\* sets the flag.
Signal(t, v) ==
  /\ queue' = Append(queue, [type |-> t, value |-> v])
  /\ isEventsSignaled' = TRUE
  /\ irq' = TRUE

SoftDeviceConnects ==
  /\ link = "advertising"
  /\ link' = "connected"
  /\ Signal("connected", 0)
  /\ UNCHANGED <<pc, pump_for_seconds, cnt, prev_cnt, wdt, pumpVars, deadlineVars,
                 pumpState, uptimeState, m_connectionHandle>>

\* A central writes the pump characteristic: the SoftDevice changes the
\* attribute and acknowledges before the application hears of it.
SoftDeviceIsWritten ==
  /\ link \in {"connected", "closing"}
  /\ Len(queue) < MaxPending
  /\ \E v \in Seconds \cup {NoByte} :
       /\ pumpState' = v
       /\ Signal("write", v)
  /\ UNCHANGED <<pc, pump_for_seconds, cnt, prev_cnt, wdt, pumpVars, deadlineVars,
                 uptimeState, m_connectionHandle, link>>

\* The central leaves, is lost, or acknowledges our disconnection.
SoftDeviceDisconnects ==
  /\ link \in {"connected", "closing"}
  /\ link' = "idle"
  /\ Signal("disconnected", 0)
  /\ UNCHANGED <<pc, pump_for_seconds, cnt, prev_cnt, wdt, pumpVars, deadlineVars,
                 pumpState, uptimeState, m_connectionHandle>>

-----------------------------------------------------------------------------
Boot == BootWait \/ BootStart \/ BleInit \/ BleInitFails \/ EnterLoop

Loop ==
  \/ UptimeReset \/ UptimeGoesOn \/ CheckDeadline
  \/ PollTick \/ LatchTick \/ UpdateUptimeState \/ WdtReset
  \/ StopPump \/ KeepPump \/ PublishStop
  \/ ProcessEvents \/ Sleep

Callbacks ==
  \/ NoMoreEvents \/ OnConnected \/ SetDeadline \/ OnDisconnected
  \/ OnDataWritten \/ OnEmptyWrite \/ SwitchPumpOn \/ PublishPumping

Main == Boot \/ Loop \/ Callbacks

SoftDevice == SoftDeviceConnects \/ SoftDeviceIsWritten \/ SoftDeviceDisconnects

Next == Main \/ Tick \/ WdtFires \/ SoftDevice

Spec == Init /\ [][Next]_vars

\* Clocks do not stop, and main() does not hang in the straight line from
\* the first reload to the ticker's attachment nor between lines 253 and 255.
\* It may hang anywhere else: nothing is assumed of its scheduling.
ClockFairness ==
  WF_vars(Tick) /\ WF_vars(WdtFires) /\ WF_vars(BootStart) /\ WF_vars(SwitchPumpOn)

HangingSpec == Spec /\ ClockFairness

-----------------------------------------------------------------------------
(******************************** properties *******************************)

\* Every variable holds a value of its kind.
TypeOK ==
  /\ pc \in {"boot", "start", "init", "spin", "enter", "loop", "deadline", "poll",
             "latch", "uptime", "feed", "pump", "stopped", "events", "sleep",
             "drain", "connected", "switch", "publish"}
  /\ pump_for_seconds \in Seconds \cup {0}
  /\ cnt \in Nat /\ prev_cnt \in Nat
  /\ wdt \in 0..WDT_TICKS
  /\ PUMPING_STOP_AT_CNT \in Nat
  /\ PUMPING_ENABLED \in BOOLEAN /\ powerswitch1 \in BOOLEAN
  /\ CONNECTED_AT \in Nat /\ DISCONNECT_AT \in Nat
  /\ pumpState \in PumpValue /\ uptimeState \in Nat
  /\ link \in {"idle", "advertising", "connected", "closing"}
  /\ m_connectionHandle \in BOOLEAN
  /\ queue \in Seq(Event)
  /\ isEventsSignaled \in BOOLEAN /\ irq \in BOOLEAN

\* Wherever main() is delayed, the uptime reset or the watchdog ends the run
\* before cnt is two watchdog periods past its limit: neither the 32 bits of
\* cnt nor the NEVER of DISCONNECT_AT is ever reached.
CntBounded == cnt <= RESET_AFTER_SECONDS + 2 * WDT_TICKS

\* A pump that is on is at most two watchdog periods late in stopping, however
\* long main() is held up in a callback, in draining events or in a fault.
PumpOverrunBounded ==
  powerswitch1 => cnt < PUMPING_STOP_AT_CNT + 2 * WDT_TICKS

Queued(t) == \E i \in DOMAIN queue : queue[i].type = t

\* Nothing is being done about the pump: no write is queued and main() is not
\* between the pin and the attribute.
PumpSettled ==
  /\ pc \notin {"switch", "publish", "stopped"}
  /\ ~Queued("write")

\* The attribute says of the pump what is so: of the run under way, the duration that
\* onDataWrittenCallback last took from a write, and no later deadline than that allows.
PumpStateAgrees ==
  /\ ~powerswitch1 => pumpState \in {0, NoByte}
  /\ powerswitch1 =>
       /\ pumpState \in {pump_for_seconds, NoByte}
       /\ PUMPING_STOP_AT_CNT <= cnt + pump_for_seconds + 1

\* Once settled, a central that reads attribute 0xA101 learns of no other run
\* than the one under way, although the SoftDevice and main() both write it:
\* zero (or nothing) with the pump off, and with the pump on the duration that
\* its deadline came from (or nothing), neither that of an older run nor one that a
\* later publication of main() put over it.
PumpStateTruthful == PumpSettled => PumpStateAgrees

\* main() never goes to sleep on an event: a queued event either has the flag
\* that makes the next processEvents() fetch it, or main() is fetching; and
\* sd_app_evt_wait() will not block on it.
NoStrandedEvent ==
  queue # <<>> =>
    /\ isEventsSignaled \/ pc \in {"drain", "connected", "switch", "publish"}
    /\ pc = "sleep" => irq

\* The application has not yet set the deadline of the latest connection.
ConnectionUnknown == pc = "connected" \/ Queued("connected")

\* A central the application knows of has a deadline, and is thrown out at
\* most two watchdog periods after it.
ConnectionBounded ==
  link = "connected" /\ ~ConnectionUnknown =>
    /\ DISCONNECT_AT # NEVER
    /\ cnt < DISCONNECT_AT + 2 * WDT_TICKS

\* disconnectionCallback leaves DISCONNECT_AT behind, yet the old deadline
\* never cuts the next connection: main() throws out only a central it knows
\* of, after the full time it was granted.
NeverCutEarly ==
  [][link = "connected" /\ link' = "closing" =>
       ~ConnectionUnknown /\ cnt >= CONNECTED_AT + DISCONNECT_AFTER_SECONDS]_vars

\* What the events in the queue ask of the pump, and before them the write that
\* onDataWrittenCallback is about to serve.
AskedBy(event) == IF event.type = "write" THEN event.value ELSE NoByte
Messages(events) == [i \in DOMAIN events |-> AskedBy(events[i])]

Inbox == IF pc = "switch" THEN <<pump_for_seconds>> \o Messages(queue) ELSE Messages(queue)

\* When the run under way, or about to be, is to end.
PromisedEnd == IF powerswitch1 \/ pc = "switch" THEN PUMPING_STOP_AT_CNT ELSE 0

Promise == INSTANCE PumpPromise WITH
  Seconds <- Seconds,
  Nothing <- NoByte,
  Slack <- 2 * WDT_TICKS - 1,
  inbox <- Inbox,
  now <- cnt,
  on <- powerswitch1,
  due <- PromisedEnd

\* The firmware keeps the pump's promise, resets counting as power cycles: every write
\* is served once, in its turn and with the seconds it asks for, wherever the ticker
\* falls between the statements that set the deadline and switch the pump.
PromiseKept == Promise!Spec

\* The pump never stays on, even if main() hangs and a central keeps asking.
PumpStops == powerswitch1 ~> ~powerswitch1

\* A board that is neither advertising nor connected, because the stack did not
\* come up, an event waits or advertising could not be started, is on the air
\* again or resets.
OnAirAgain == link = "idle" ~> (link # "idle" \/ pc = "boot")

-----------------------------------------------------------------------------
(*************************** inductive invariants **************************)

BeforeLoop == {"boot", "start", "init", "spin", "enter"}

\* From the uptime check to the reload of the watchdog.
BeforeReload == {"deadline", "poll", "latch", "uptime", "feed"}

\* The ticks of the watchdog's period are all the delay there can be since the
\* last check of the uptime, or since the last reload.
ClockInv ==
  /\ cnt <= RESET_AFTER_SECONDS + WDT_TICKS + wdt
  /\ pc \in BeforeLoop \cup BeforeReload => cnt <= RESET_AFTER_SECONDS + wdt

\* The same for the pump's deadline, which is checked right after a reload.
PumpInv ==
  /\ powerswitch1 <=> PUMPING_ENABLED
  /\ pc \in BeforeLoop => ~PUMPING_ENABLED
  /\ PUMPING_ENABLED \/ pc = "switch" => cnt - wdt < PUMPING_STOP_AT_CNT + WDT_TICKS
  /\ pc # "pump" /\ (PUMPING_ENABLED \/ pc = "switch") => cnt - wdt < PUMPING_STOP_AT_CNT
  /\ pc = "switch" =>
       /\ pump_for_seconds \in Seconds
       /\ PUMPING_STOP_AT_CNT \in {cnt + pump_for_seconds, cnt + pump_for_seconds + 1}

\* Order in the queue: one connection at a time, and none is announced behind
\* the news that the last one ended.
QueueInv ==
  \A i, j \in DOMAIN queue :
    /\ queue[i].type = "disconnected" /\ queue[j].type = "disconnected" => i = j
    /\ queue[i].type = "connected" /\ queue[j].type = "connected" => i = j
    /\ queue[i].type = "disconnected" /\ queue[j].type = "connected" => j < i

\* What the application knows of the link, given what the queue still holds.
LinkInv ==
  /\ pc \in BeforeLoop => ~m_connectionHandle
  /\ pc \in {"boot", "start", "init", "spin"} => link = "idle" /\ queue = <<>>
  /\ Queued("disconnected") => link = "idle"
  /\ Queued("connected") =>
       link # "advertising" /\ ~m_connectionHandle /\ pc # "connected"
  /\ link = "advertising" => ~m_connectionHandle
  /\ pc = "connected" => m_connectionHandle
  /\ link = "connected" /\ ~ConnectionUnknown => m_connectionHandle

\* The deadline of the connection, if the application knows of one.
DeadlineInv ==
  /\ CONNECTED_AT <= cnt
  /\ pc \in BeforeLoop => CONNECTED_AT = 0
  /\ pc = "connected" => cnt - wdt <= CONNECTED_AT
  /\ m_connectionHandle /\ pc # "connected" =>
       DISCONNECT_AT >= CONNECTED_AT + DISCONNECT_AFTER_SECONDS
  /\ link = "connected" /\ ~ConnectionUnknown =>
       /\ DISCONNECT_AT # NEVER
       /\ cnt - wdt < DISCONNECT_AT + WDT_TICKS
       /\ pc \in BeforeReload \ {"deadline"} => cnt - wdt < DISCONNECT_AT

\* The last of the writes in the queue has a value, which is then published.
PumpStateToCome ==
  \E i \in DOMAIN queue :
    /\ queue[i].type = "write" /\ queue[i].value # NoByte
    /\ \A j \in DOMAIN queue : queue[j].type = "write" => j <= i

\* A write may put any value in the attribute while main() is anywhere; it is made
\* good when that write, or the last one behind it that has a value, is published.
PumpStateInv ==
  /\ powerswitch1 => PUMPING_STOP_AT_CNT <= cnt + pump_for_seconds + 1
  /\ pc = "publish" => powerswitch1
  /\ pc = "stopped" => ~powerswitch1
  /\ pc \notin {"switch", "publish", "stopped"} => PumpStateAgrees \/ PumpStateToCome
=============================================================================
