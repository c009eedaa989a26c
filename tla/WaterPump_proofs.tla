-------------------------- MODULE WaterPump_proofs --------------------------
(***************************************************************************)
(* Proofs about the pump: the level of its battery, its firmware, and the  *)
(* client on the Linux side, for every choice of their constants.          *)
(***************************************************************************)
EXTENDS WaterPump, PumpClient, BatteryGauge, SequenceTheorems, TLAPS

(***************************************************************************)
(* The battery level.                                                      *)
(***************************************************************************)
\* Division in C yields an integer.
LEMMA QuotientIsInteger ==
  ASSUME NEW a \in Int, NEW b \in Int, b > 0
  PROVE  Quotient(a, b) \in Int
BY DEF Quotient

\* map() stays within its output range whatever it is given, so that the level
\* survives its conversion to uint8_t (main.cpp:371).
THEOREM MapStaysInRange ==
  ASSUME NEW x \in Int, NEW in_min \in Int, NEW in_max \in Int,
         NEW out_min \in Int, NEW out_max \in Int, in_min < in_max, out_min <= out_max
  PROVE  map(x, in_min, in_max, out_min, out_max) \in out_min .. out_max
<1> DEFINE a == (x - in_min) * (out_max - out_min)
           b == in_max - in_min
<1>1. a \in Int /\ b \in Int /\ b > 0
  OBVIOUS
<1>2. Quotient(a, b) \in Int
  BY <1>1, QuotientIsInteger
<1> HIDE DEF a, b
<1>3. Within(Quotient(a, b) + out_min, out_min, out_max) \in out_min .. out_max
  BY <1>2 DEF Within
<1> QED
  BY <1>3 DEF map, a, b

\* What the converter can read is at most thirteen volts.
LEMMA MilliVoltsBounded ==
  ASSUME NEW reading \in Readings, NEW mV \in MilliVolts(reading)
  PROVE  mV \in Int /\ mV >= 0 /\ mV <= 13200
<1>1. Numerator(reading) = 8976000 * reading
  BY SMT DEF Numerator, Readings, R1, R2, REFERENCE_MILLIVOLTS, RR_ADC_RANGE
<1>2. RR_ADC_RANGE * R2 = 695640
  BY SMT DEF RR_ADC_RANGE, R2
<1>3. reading \in 0 .. 1023
  BY SMT DEF Readings, RR_ADC_RANGE
<1>4. LET volts == (8976000 * reading) \div 695640
      IN volts \in Int /\ volts >= 0 /\ volts <= 13200 /\ (reading > 0 => volts >= 1)
  BY SMT, <1>3
<1> DEFINE exact == Numerator(reading) \div (RR_ADC_RANGE * R2)
<1>5. mV = exact \/ (reading > 0 /\ mV = exact - 1)
  BY Zenon DEF MilliVolts
<1>6. exact \in Int /\ exact >= 0 /\ exact <= 13200 /\ (reading > 0 => exact >= 1)
  BY SMT, <1>1, <1>2, <1>4
<1> HIDE DEF exact
<1> QED
  BY SMT, <1>3, <1>5, <1>6

\* No step of map() leaves the 32 bits it is computed in, from an empty battery to
\* the full range of the converter.
THEOREM MapDoesNotOverflow ==
  ASSUME NEW reading \in Readings, NEW mV \in MilliVolts(reading)
  PROVE  /\ mV - 1800 \in Int32
         /\ (mV - 1800) * (100 - 0) \in Int32
         /\ Quotient((mV - 1800) * (100 - 0), 3200 - 1800) \in Int32
<1>1. mV \in Int /\ mV >= 0 /\ mV <= 13200
  BY SMT, MilliVoltsBounded
<1>2. Quotient((mV - 1800) * (100 - 0), 3200 - 1800) \in Int
  BY SMT, <1>1 DEF Quotient
<1>3. /\ Quotient((mV - 1800) * (100 - 0), 3200 - 1800) >= -1800
      /\ Quotient((mV - 1800) * (100 - 0), 3200 - 1800) <= 1800
  BY SMT, <1>1 DEF Quotient
<1> QED
  BY SMT, <1>1, <1>2, <1>3 DEF Int32

\* A battery that falls never shows a level that rises, across the change of sign in
\* the division, the clamps and the rounding of the voltage.
THEOREM LevelFollowsVoltage ==
  ASSUME NEW x \in Int, NEW y \in Int, x <= y
  PROVE  Percent(x) <= Percent(y)
<1> DEFINE q(z) == Quotient((z - 1800) * (100 - 0), 3200 - 1800)
<1>1. q(x) \in Int /\ q(y) \in Int
  BY SMT, QuotientIsInteger
<1>2. q(x) <= q(y)
  BY SMT DEF Quotient
<1> HIDE DEF q
<1>3. Within(q(x) + 0, 0, 100) <= Within(q(y) + 0, 0, 100)
  BY SMT, <1>1, <1>2 DEF Within
<1> QED
  BY SMT, <1>3 DEF Percent, map, q

\* The level is 0 below 1.814 V and 100 from 3.2 V on, and nowhere else.
THEOREM LevelAtTheEnds ==
  ASSUME NEW x \in Int
  PROVE  /\ Percent(x) = 0 <=> x < 1814
         /\ Percent(x) = 100 <=> x >= 3200
<1> DEFINE q == Quotient((x - 1800) * (100 - 0), 3200 - 1800)
<1>1. q \in Int
  BY SMT, QuotientIsInteger
<1>2. q <= 0 <=> x < 1814
  BY SMT DEF Quotient
<1>3. q >= 100 <=> x >= 3200
  BY SMT DEF Quotient
<1> HIDE DEF q
<1>4. /\ Within(q + 0, 0, 100) = 0 <=> q <= 0
      /\ Within(q + 0, 0, 100) = 100 <=> q >= 100
  BY SMT, <1>1 DEF Within
<1> QED
  BY SMT, <1>2, <1>3, <1>4 DEF Percent, map, q

-----------------------------------------------------------------------------
(***************************************************************************)
(* The firmware.                                                           *)
(***************************************************************************)
USE ParametersAssumption

\* A byte written to the pump is a natural number.
LEMMA SecondsAreNat == \A n \in Seconds : n \in Nat
  OBVIOUS

\* The value that onDataWrittenCallback handles is one of those bytes.
LEMMA WrittenByte ==
  ASSUME TypeOK, OnDataWritten
  PROVE  Head(queue).value \in Seconds /\ Head(queue).value \in Nat
<1>1. Head(queue) \in Event
  BY DEF TypeOK, OnDataWritten, Fetch
<1>2. Head(queue).value \in Seconds
  BY <1>1 DEF OnDataWritten, Fetch, Event
<1> QED
  BY <1>2, SecondsAreNat

\* The Boolean variables have a step of their own where one is set to FALSE.
FlagsOK ==
  /\ PUMPING_ENABLED \in BOOLEAN /\ powerswitch1 \in BOOLEAN
  /\ m_connectionHandle \in BOOLEAN
  /\ isEventsSignaled \in BOOLEAN /\ irq \in BOOLEAN

\* Every step keeps every variable within its type.
LEMMA TypePreserved == TypeOK /\ [Next]_vars => TypeOK'
<1> SUFFICES ASSUME TypeOK, [Next]_vars PROVE TypeOK'
  OBVIOUS
<1>1. CASE UNCHANGED vars
  BY <1>1 DEF vars, TypeOK, PumpValue, pumpVars, deadlineVars, radioVars
<1>2. CASE Boot
  <2>1. CASE BootWait
    BY <2>1 DEF BootWait, TypeOK, PumpValue, pumpVars, deadlineVars, radioVars
  <2>2. CASE BootStart
    <3>f. FlagsOK'
      BY <2>2 DEF BootStart, FlagsOK, TypeOK, pumpVars, radioVars
    <3> QED
      BY <2>2, <3>f DEF BootStart, FlagsOK, TypeOK, PumpValue, pumpVars,
         deadlineVars, radioVars
  <2>3. CASE BleInit
    BY <2>3 DEF BleInit, GapStartAdvertising, TypeOK, PumpValue, pumpVars,
       deadlineVars, radioVars
  <2>4. CASE BleInitFails
    BY <2>4 DEF BleInitFails, TypeOK, PumpValue, pumpVars, deadlineVars, radioVars
  <2>5. CASE EnterLoop
    BY <2>5 DEF EnterLoop, TypeOK, PumpValue, pumpVars, deadlineVars, radioVars
  <2> QED
    BY <1>2, <2>1, <2>2, <2>3, <2>4, <2>5 DEF Boot
<1>3. CASE Loop
  <2>1. CASE UptimeReset
    <3>f. FlagsOK'
      BY <2>1 DEF UptimeReset, Reboot, FlagsOK, TypeOK, pumpVars, radioVars
    <3> QED
      BY <2>1, <3>f DEF UptimeReset, Reboot, FlagsOK, TypeOK, PumpValue, pumpVars,
         deadlineVars, radioVars
  <2>2. CASE UptimeGoesOn
    BY <2>2 DEF UptimeGoesOn, TypeOK, PumpValue, pumpVars, deadlineVars, radioVars
  <2>3. CASE CheckDeadline
    BY <2>3 DEF CheckDeadline, GapDisconnect, TypeOK, PumpValue, pumpVars,
       deadlineVars, radioVars
  <2>4. CASE PollTick
    BY <2>4 DEF PollTick, TypeOK, PumpValue, pumpVars, deadlineVars, radioVars
  <2>5. CASE LatchTick \/ UpdateUptimeState
    BY <2>5 DEF LatchTick, UpdateUptimeState, TypeOK, PumpValue, pumpVars,
       deadlineVars, radioVars
  <2>6. CASE WdtReset
    BY <2>6 DEF WdtReset, TypeOK, PumpValue, pumpVars, deadlineVars, radioVars
  <2>7. CASE StopPump
    BY <2>7 DEF StopPump, TypeOK, PumpValue, pumpVars, deadlineVars, radioVars
  <2>8. CASE KeepPump \/ PublishStop
    BY <2>8 DEF KeepPump, PublishStop, TypeOK, PumpValue, pumpVars, deadlineVars,
       radioVars
  <2>9. CASE ProcessEvents \/ Sleep
    <3>f. FlagsOK'
      BY <2>9 DEF ProcessEvents, Sleep, FlagsOK, TypeOK, pumpVars, radioVars
    <3> QED
      BY <2>9, <3>f DEF ProcessEvents, Sleep, FlagsOK, TypeOK, PumpValue, pumpVars,
         deadlineVars, radioVars
  <2> QED
    BY <1>3, <2>1, <2>2, <2>3, <2>4, <2>5, <2>6, <2>7, <2>8, <2>9 DEF Loop
<1>4. CASE Callbacks
  <2>0. ASSUME NEW t, Fetch(t) PROVE Head(queue) \in Event /\ queue' \in Seq(Event)
    BY <2>0 DEF Fetch, TypeOK
  <2>1. CASE NoMoreEvents \/ SetDeadline
    BY <2>1 DEF NoMoreEvents, SetDeadline, TypeOK, PumpValue, pumpVars,
       deadlineVars, radioVars
  <2>2. CASE OnConnected
    <3>1. queue' \in Seq(Event)
      BY <2>0, <2>2 DEF OnConnected
    <3> QED
      BY <2>2, <3>1 DEF OnConnected, TypeOK, PumpValue, pumpVars, deadlineVars,
         radioVars
  <2>3. CASE OnDisconnected
    <3>1. queue' \in Seq(Event)
      BY <2>0, <2>3 DEF OnDisconnected
    <3>f. FlagsOK'
      BY <2>3 DEF OnDisconnected, FlagsOK, TypeOK, pumpVars
    <3> QED
      BY <2>3, <3>1, <3>f DEF OnDisconnected, GapStartAdvertising, FlagsOK, TypeOK,
         PumpValue, pumpVars, deadlineVars, radioVars
  <2>4. CASE OnDataWritten
    <3>1. queue' \in Seq(Event)
      BY <2>0, <2>4 DEF OnDataWritten
    <3>2. Head(queue).value \in Seconds /\ Head(queue).value \in Nat
      BY <2>4, WrittenByte
    <3>3. PUMPING_STOP_AT_CNT' \in Nat
      BY <2>4, <3>2 DEF OnDataWritten, TypeOK
    <3> QED
      BY <2>4, <3>1, <3>2, <3>3 DEF OnDataWritten, TypeOK, PumpValue, pumpVars,
         deadlineVars, radioVars
  <2>5. CASE OnEmptyWrite
    <3>1. queue' \in Seq(Event)
      BY <2>0, <2>5 DEF OnEmptyWrite
    <3> QED
      BY <2>5, <3>1 DEF OnEmptyWrite, TypeOK, PumpValue, pumpVars, deadlineVars,
         radioVars
  <2>6. CASE SwitchPumpOn \/ PublishPumping
    <3>f. FlagsOK'
      BY <2>6 DEF SwitchPumpOn, PublishPumping, FlagsOK, TypeOK, pumpVars, radioVars
    <3> QED
      BY <2>6, <3>f DEF SwitchPumpOn, PublishPumping, FlagsOK, TypeOK, PumpValue,
         pumpVars, deadlineVars, radioVars
  <2> QED
    BY <1>4, <2>1, <2>2, <2>3, <2>4, <2>5, <2>6 DEF Callbacks
<1>5. CASE Tick
  BY <1>5 DEF Tick, TypeOK, PumpValue, pumpVars, deadlineVars, radioVars
<1>6. CASE WdtFires
  <2>f. FlagsOK'
    BY <1>6 DEF WdtFires, Reboot, FlagsOK, TypeOK, pumpVars, radioVars
  <2> QED
    BY <1>6, <2>f DEF WdtFires, Reboot, FlagsOK, TypeOK, PumpValue, pumpVars,
       deadlineVars, radioVars
<1>7. CASE SoftDevice
  <2>1. CASE SoftDeviceConnects
    <3>1. queue' \in Seq(Event)
      BY <2>1 DEF SoftDeviceConnects, Signal, Event, TypeOK
    <3> QED
      BY <2>1, <3>1 DEF SoftDeviceConnects, Signal, TypeOK, PumpValue, pumpVars,
         deadlineVars, radioVars
  <2>2. CASE SoftDeviceIsWritten
    <3>1. queue' \in Seq(Event)
      BY <2>2 DEF SoftDeviceIsWritten, Signal, Event, TypeOK
    <3> QED
      BY <2>2, <3>1 DEF SoftDeviceIsWritten, Signal, TypeOK, PumpValue, pumpVars,
         deadlineVars, radioVars
  <2>3. CASE SoftDeviceDisconnects
    <3>1. queue' \in Seq(Event)
      BY <2>3 DEF SoftDeviceDisconnects, Signal, Event, TypeOK
    <3> QED
      BY <2>3, <3>1 DEF SoftDeviceDisconnects, Signal, TypeOK, PumpValue, pumpVars,
         deadlineVars, radioVars
  <2> QED
    BY <1>7, <2>1, <2>2, <2>3 DEF SoftDevice
<1> QED
  BY <1>1, <1>2, <1>3, <1>4, <1>5, <1>6, <1>7 DEF Next, Main

\* The firmware starts within its types.
LEMMA TypeInit == Init => TypeOK
<1>f. Init => FlagsOK
  BY DEF Init, FlagsOK
<1> QED
  BY <1>f DEF Init, FlagsOK, TypeOK, PumpValue

\* Every variable always holds a value of its kind.
THEOREM TypeCorrect == Spec => []TypeOK
BY TypeInit, TypePreserved, PTL DEF Spec

\* Reloads and the uptime check keep the counter within a period of the watchdog.
LEMMA ClockPreserved == TypeOK /\ ClockInv /\ [Next]_vars => ClockInv'
<1> SUFFICES ASSUME TypeOK, ClockInv, [Next]_vars PROVE ClockInv'
  OBVIOUS
<1>1. CASE UNCHANGED vars
  BY <1>1 DEF vars, TypeOK, ClockInv, BeforeLoop, BeforeReload, pumpVars,
     deadlineVars, radioVars
<1>2. CASE Boot
  <2>1. CASE BootWait
    BY <2>1 DEF BootWait, TypeOK, ClockInv, BeforeLoop, BeforeReload, pumpVars,
       deadlineVars, radioVars
  <2>2. CASE BootStart
    BY <2>2 DEF BootStart, TypeOK, ClockInv, BeforeLoop, BeforeReload, pumpVars,
       deadlineVars, radioVars
  <2>3. CASE BleInit
    BY <2>3 DEF BleInit, GapStartAdvertising, TypeOK, ClockInv, BeforeLoop,
       BeforeReload, pumpVars, deadlineVars, radioVars
  <2>4. CASE BleInitFails
    BY <2>4 DEF BleInitFails, TypeOK, ClockInv, BeforeLoop, BeforeReload, pumpVars,
       deadlineVars, radioVars
  <2>5. CASE EnterLoop
    BY <2>5 DEF EnterLoop, TypeOK, ClockInv, BeforeLoop, BeforeReload, pumpVars,
       deadlineVars, radioVars
  <2> QED
    BY <1>2, <2>1, <2>2, <2>3, <2>4, <2>5 DEF Boot
<1>3. CASE Loop
  <2>1. CASE UptimeReset
    BY <2>1 DEF UptimeReset, Reboot, TypeOK, ClockInv, BeforeLoop, BeforeReload,
       pumpVars, deadlineVars, radioVars
  <2>2. CASE UptimeGoesOn
    BY <2>2 DEF UptimeGoesOn, TypeOK, ClockInv, BeforeLoop, BeforeReload, pumpVars,
       deadlineVars, radioVars
  <2>3. CASE CheckDeadline
    BY <2>3 DEF CheckDeadline, GapDisconnect, TypeOK, ClockInv, BeforeLoop,
       BeforeReload, pumpVars, deadlineVars, radioVars
  <2>4. CASE PollTick
    BY <2>4 DEF PollTick, TypeOK, ClockInv, BeforeLoop, BeforeReload, pumpVars,
       deadlineVars, radioVars
  <2>5. CASE LatchTick \/ UpdateUptimeState
    BY <2>5 DEF LatchTick, UpdateUptimeState, TypeOK, ClockInv, BeforeLoop,
       BeforeReload, pumpVars, deadlineVars, radioVars
  <2>6. CASE WdtReset
    BY <2>6 DEF WdtReset, TypeOK, ClockInv, BeforeLoop, BeforeReload, pumpVars,
       deadlineVars, radioVars
  <2>7. CASE StopPump
    BY <2>7 DEF StopPump, PumpExpired, TypeOK, ClockInv, BeforeLoop, BeforeReload,
       pumpVars, deadlineVars, radioVars
  <2>8. CASE KeepPump \/ PublishStop
    BY <2>8 DEF KeepPump, PumpExpired, PublishStop, TypeOK, ClockInv, BeforeLoop,
       BeforeReload, pumpVars, deadlineVars, radioVars
  <2>9. CASE ProcessEvents
    BY <2>9 DEF ProcessEvents, TypeOK, ClockInv, BeforeLoop, BeforeReload, pumpVars,
       deadlineVars, radioVars
  <2>10. CASE Sleep
    BY <2>10 DEF Sleep, TypeOK, ClockInv, BeforeLoop, BeforeReload, pumpVars,
       deadlineVars, radioVars
  <2> QED
    BY <1>3, <2>1, <2>2, <2>3, <2>4, <2>5, <2>6, <2>7, <2>8, <2>9, <2>10 DEF Loop
<1>4. CASE Callbacks
  <2>1. CASE NoMoreEvents
    BY <2>1 DEF NoMoreEvents, TypeOK, ClockInv, BeforeLoop, BeforeReload, pumpVars,
       deadlineVars, radioVars
  <2>2. CASE OnConnected
    BY <2>2 DEF OnConnected, Fetch, TypeOK, ClockInv, BeforeLoop, BeforeReload,
       pumpVars, deadlineVars, radioVars
  <2>3. CASE SetDeadline
    BY <2>3 DEF SetDeadline, TypeOK, ClockInv, BeforeLoop, BeforeReload, pumpVars,
       deadlineVars, radioVars
  <2>4. CASE OnDisconnected
    BY <2>4 DEF OnDisconnected, Fetch, GapStartAdvertising, TypeOK, ClockInv,
       BeforeLoop, BeforeReload, pumpVars, deadlineVars, radioVars
  <2>5. CASE OnDataWritten
    BY <2>5 DEF OnDataWritten, Fetch, TypeOK, ClockInv, BeforeLoop, BeforeReload,
       pumpVars, deadlineVars, radioVars
  <2>6. CASE OnEmptyWrite
    BY <2>6 DEF OnEmptyWrite, Fetch, TypeOK, ClockInv, BeforeLoop, BeforeReload,
       pumpVars, deadlineVars, radioVars
  <2>7. CASE SwitchPumpOn
    BY <2>7 DEF SwitchPumpOn, TypeOK, ClockInv, BeforeLoop, BeforeReload, pumpVars,
       deadlineVars, radioVars
  <2>8. CASE PublishPumping
    BY <2>8 DEF PublishPumping, TypeOK, ClockInv, BeforeLoop, BeforeReload,
       pumpVars, deadlineVars, radioVars
  <2> QED
    BY <1>4, <2>1, <2>2, <2>3, <2>4, <2>5, <2>6, <2>7, <2>8 DEF Callbacks
<1>5. CASE Tick
  BY <1>5 DEF Tick, TypeOK, ClockInv, BeforeLoop, BeforeReload, pumpVars,
     deadlineVars, radioVars
<1>6. CASE WdtFires
  BY <1>6 DEF WdtFires, Reboot, TypeOK, ClockInv, BeforeLoop, BeforeReload,
     pumpVars, deadlineVars, radioVars
<1>7. CASE SoftDevice
  <2>1. CASE SoftDeviceConnects
    BY <2>1 DEF SoftDeviceConnects, Signal, TypeOK, ClockInv, BeforeLoop,
       BeforeReload, pumpVars, deadlineVars, radioVars
  <2>2. CASE SoftDeviceIsWritten
    BY <2>2 DEF SoftDeviceIsWritten, Signal, TypeOK, ClockInv, BeforeLoop,
       BeforeReload, pumpVars, deadlineVars, radioVars
  <2>3. CASE SoftDeviceDisconnects
    BY <2>3 DEF SoftDeviceDisconnects, Signal, TypeOK, ClockInv, BeforeLoop,
       BeforeReload, pumpVars, deadlineVars, radioVars
  <2> QED
    BY <1>7, <2>1, <2>2, <2>3 DEF SoftDevice
<1> QED
  BY <1>1, <1>2, <1>3, <1>4, <1>5, <1>6, <1>7 DEF Next, Main

\* The counter stays far from the width of its type and from NEVER.
THEOREM CounterBounded == Spec => []CntBounded
<1>1. Init => ClockInv
  BY DEF Init, ClockInv
<1>2. TypeOK /\ ClockInv => CntBounded
  BY DEF TypeOK, ClockInv, CntBounded
<1> QED
  BY <1>1, <1>2, TypeCorrect, ClockPreserved, PTL DEF Spec

\* The flag is raised with every event and cleared only by whoever then drains the queue.
LEMMA SignalPreserved == TypeOK /\ NoStrandedEvent /\ [Next]_vars => NoStrandedEvent'
<1> SUFFICES ASSUME TypeOK, NoStrandedEvent, [Next]_vars PROVE NoStrandedEvent'
  OBVIOUS
<1>1. CASE UNCHANGED vars
  BY <1>1 DEF vars, TypeOK, NoStrandedEvent, pumpVars, deadlineVars, radioVars
<1>2. CASE Boot
  <2>1. CASE BootWait
    BY <2>1 DEF BootWait, TypeOK, NoStrandedEvent, pumpVars, deadlineVars, radioVars
  <2>2. CASE BootStart
    BY <2>2 DEF BootStart, TypeOK, NoStrandedEvent, pumpVars, deadlineVars, radioVars
  <2>3. CASE BleInit
    BY <2>3 DEF BleInit, GapStartAdvertising, TypeOK, NoStrandedEvent, pumpVars,
       deadlineVars, radioVars
  <2>4. CASE BleInitFails
    BY <2>4 DEF BleInitFails, TypeOK, NoStrandedEvent, pumpVars, deadlineVars, radioVars
  <2>5. CASE EnterLoop
    BY <2>5 DEF EnterLoop, TypeOK, NoStrandedEvent, pumpVars, deadlineVars, radioVars
  <2> QED
    BY <1>2, <2>1, <2>2, <2>3, <2>4, <2>5 DEF Boot
<1>3. CASE Loop
  <2>1. CASE UptimeReset
    BY <2>1 DEF UptimeReset, Reboot, TypeOK, NoStrandedEvent, pumpVars,
       deadlineVars, radioVars
  <2>2. CASE UptimeGoesOn
    BY <2>2 DEF UptimeGoesOn, TypeOK, NoStrandedEvent, pumpVars, deadlineVars, radioVars
  <2>3. CASE CheckDeadline
    BY <2>3 DEF CheckDeadline, GapDisconnect, TypeOK, NoStrandedEvent, pumpVars,
       deadlineVars, radioVars
  <2>4. CASE PollTick
    BY <2>4 DEF PollTick, TypeOK, NoStrandedEvent, pumpVars, deadlineVars, radioVars
  <2>5. CASE LatchTick \/ UpdateUptimeState
    BY <2>5 DEF LatchTick, UpdateUptimeState, TypeOK, NoStrandedEvent, pumpVars,
       deadlineVars, radioVars
  <2>6. CASE WdtReset
    BY <2>6 DEF WdtReset, TypeOK, NoStrandedEvent, pumpVars, deadlineVars, radioVars
  <2>7. CASE StopPump
    BY <2>7 DEF StopPump, PumpExpired, TypeOK, NoStrandedEvent, pumpVars,
       deadlineVars, radioVars
  <2>8. CASE KeepPump \/ PublishStop
    BY <2>8 DEF KeepPump, PumpExpired, PublishStop, TypeOK, NoStrandedEvent,
       pumpVars, deadlineVars, radioVars
  <2>9. CASE ProcessEvents
    BY <2>9 DEF ProcessEvents, TypeOK, NoStrandedEvent, pumpVars, deadlineVars,
       radioVars
  <2>10. CASE Sleep
    BY <2>10 DEF Sleep, TypeOK, NoStrandedEvent, pumpVars, deadlineVars, radioVars
  <2> QED
    BY <1>3, <2>1, <2>2, <2>3, <2>4, <2>5, <2>6, <2>7, <2>8, <2>9, <2>10 DEF Loop
<1>4. CASE Callbacks
  <2>1. CASE NoMoreEvents
    BY <2>1 DEF NoMoreEvents, TypeOK, NoStrandedEvent, pumpVars, deadlineVars, radioVars
  <2>2. CASE OnConnected
    BY <2>2 DEF OnConnected, Fetch, TypeOK, NoStrandedEvent, pumpVars, deadlineVars,
       radioVars
  <2>3. CASE SetDeadline
    BY <2>3 DEF SetDeadline, TypeOK, NoStrandedEvent, pumpVars, deadlineVars, radioVars
  <2>4. CASE OnDisconnected
    BY <2>4 DEF OnDisconnected, Fetch, GapStartAdvertising, TypeOK, NoStrandedEvent,
       pumpVars, deadlineVars, radioVars
  <2>5. CASE OnDataWritten
    BY <2>5 DEF OnDataWritten, Fetch, TypeOK, NoStrandedEvent, pumpVars,
       deadlineVars, radioVars
  <2>6. CASE OnEmptyWrite
    BY <2>6 DEF OnEmptyWrite, Fetch, TypeOK, NoStrandedEvent, pumpVars,
       deadlineVars, radioVars
  <2>7. CASE SwitchPumpOn
    BY <2>7 DEF SwitchPumpOn, TypeOK, NoStrandedEvent, pumpVars, deadlineVars, radioVars
  <2>8. CASE PublishPumping
    BY <2>8 DEF PublishPumping, TypeOK, NoStrandedEvent, pumpVars, deadlineVars,
       radioVars
  <2> QED
    BY <1>4, <2>1, <2>2, <2>3, <2>4, <2>5, <2>6, <2>7, <2>8 DEF Callbacks
<1>5. CASE Tick
  BY <1>5 DEF Tick, TypeOK, NoStrandedEvent, pumpVars, deadlineVars, radioVars
<1>6. CASE WdtFires
  BY <1>6 DEF WdtFires, Reboot, TypeOK, NoStrandedEvent, pumpVars, deadlineVars,
     radioVars
<1>7. CASE SoftDevice
  <2>1. CASE SoftDeviceConnects
    BY <2>1 DEF SoftDeviceConnects, Signal, TypeOK, NoStrandedEvent, pumpVars,
       deadlineVars, radioVars
  <2>2. CASE SoftDeviceIsWritten
    BY <2>2 DEF SoftDeviceIsWritten, Signal, TypeOK, NoStrandedEvent, pumpVars,
       deadlineVars, radioVars
  <2>3. CASE SoftDeviceDisconnects
    BY <2>3 DEF SoftDeviceDisconnects, Signal, TypeOK, NoStrandedEvent, pumpVars,
       deadlineVars, radioVars
  <2> QED
    BY <1>7, <2>1, <2>2, <2>3 DEF SoftDevice
<1> QED
  BY <1>1, <1>2, <1>3, <1>4, <1>5, <1>6, <1>7 DEF Next, Main

\* main() never sleeps on an event.
THEOREM NoEventStranded == Spec => []NoStrandedEvent
<1>1. Init => NoStrandedEvent
  BY DEF Init, NoStrandedEvent
<1> QED
  BY <1>1, TypeCorrect, SignalPreserved, PTL DEF Spec

\* The deadline keeps ahead of the counter by what the watchdog may still allow.
LEMMA PumpPreserved == TypeOK /\ PumpInv /\ [Next]_vars => PumpInv'
<1> SUFFICES ASSUME TypeOK, PumpInv, [Next]_vars PROVE PumpInv'
  OBVIOUS
<1>1. CASE UNCHANGED vars
  BY <1>1 DEF vars, TypeOK, PumpInv, BeforeLoop, pumpVars, deadlineVars, radioVars
<1>2. CASE Boot
  <2>1. CASE BootWait
    BY <2>1 DEF BootWait, TypeOK, PumpInv, BeforeLoop, pumpVars, deadlineVars, radioVars
  <2>2. CASE BootStart
    BY <2>2 DEF BootStart, TypeOK, PumpInv, BeforeLoop, pumpVars, deadlineVars,
       radioVars
  <2>3. CASE BleInit
    BY <2>3 DEF BleInit, GapStartAdvertising, TypeOK, PumpInv, BeforeLoop, pumpVars,
       deadlineVars, radioVars
  <2>4. CASE BleInitFails
    BY <2>4 DEF BleInitFails, TypeOK, PumpInv, BeforeLoop, pumpVars, deadlineVars,
       radioVars
  <2>5. CASE EnterLoop
    BY <2>5 DEF EnterLoop, TypeOK, PumpInv, BeforeLoop, pumpVars, deadlineVars,
       radioVars
  <2> QED
    BY <1>2, <2>1, <2>2, <2>3, <2>4, <2>5 DEF Boot
<1>3. CASE Loop
  <2>1. CASE UptimeReset
    BY <2>1 DEF UptimeReset, Reboot, TypeOK, PumpInv, BeforeLoop, pumpVars,
       deadlineVars, radioVars
  <2>2. CASE UptimeGoesOn
    BY <2>2 DEF UptimeGoesOn, TypeOK, PumpInv, BeforeLoop, pumpVars, deadlineVars,
       radioVars
  <2>3. CASE CheckDeadline
    BY <2>3 DEF CheckDeadline, GapDisconnect, TypeOK, PumpInv, BeforeLoop, pumpVars,
       deadlineVars, radioVars
  <2>4. CASE PollTick
    BY <2>4 DEF PollTick, TypeOK, PumpInv, BeforeLoop, pumpVars, deadlineVars, radioVars
  <2>5. CASE LatchTick \/ UpdateUptimeState
    BY <2>5 DEF LatchTick, UpdateUptimeState, TypeOK, PumpInv, BeforeLoop, pumpVars,
       deadlineVars, radioVars
  <2>6. CASE WdtReset
    BY <2>6 DEF WdtReset, TypeOK, PumpInv, BeforeLoop, pumpVars, deadlineVars, radioVars
  <2>7. CASE StopPump
    BY <2>7 DEF StopPump, PumpExpired, TypeOK, PumpInv, BeforeLoop, pumpVars,
       deadlineVars, radioVars
  <2>8. CASE KeepPump \/ PublishStop
    BY <2>8 DEF KeepPump, PumpExpired, PublishStop, TypeOK, PumpInv, BeforeLoop,
       pumpVars, deadlineVars, radioVars
  <2>9. CASE ProcessEvents
    BY <2>9 DEF ProcessEvents, TypeOK, PumpInv, BeforeLoop, pumpVars, deadlineVars,
       radioVars
  <2>10. CASE Sleep
    BY <2>10 DEF Sleep, TypeOK, PumpInv, BeforeLoop, pumpVars, deadlineVars, radioVars
  <2> QED
    BY <1>3, <2>1, <2>2, <2>3, <2>4, <2>5, <2>6, <2>7, <2>8, <2>9, <2>10 DEF Loop
<1>4. CASE Callbacks
  <2>1. CASE NoMoreEvents
    BY <2>1 DEF NoMoreEvents, TypeOK, PumpInv, BeforeLoop, pumpVars, deadlineVars,
       radioVars
  <2>2. CASE OnConnected
    BY <2>2 DEF OnConnected, Fetch, TypeOK, PumpInv, BeforeLoop, pumpVars,
       deadlineVars, radioVars
  <2>3. CASE SetDeadline
    BY <2>3 DEF SetDeadline, TypeOK, PumpInv, BeforeLoop, pumpVars, deadlineVars,
       radioVars
  <2>4. CASE OnDisconnected
    BY <2>4 DEF OnDisconnected, Fetch, GapStartAdvertising, TypeOK, PumpInv,
       BeforeLoop, pumpVars, deadlineVars, radioVars
  <2>5. CASE OnDataWritten
    <3>1. Head(queue).value \in Seconds /\ Head(queue).value \in Nat
      BY <2>5, WrittenByte
    <3> QED
      BY <2>5, <3>1 DEF OnDataWritten, Fetch, TypeOK, PumpInv, BeforeLoop, pumpVars,
         deadlineVars, radioVars
  <2>6. CASE OnEmptyWrite
    BY <2>6 DEF OnEmptyWrite, Fetch, TypeOK, PumpInv, BeforeLoop, pumpVars,
       deadlineVars, radioVars
  <2>7. CASE SwitchPumpOn
    BY <2>7 DEF SwitchPumpOn, TypeOK, PumpInv, BeforeLoop, pumpVars, deadlineVars,
       radioVars
  <2>8. CASE PublishPumping
    BY <2>8 DEF PublishPumping, TypeOK, PumpInv, BeforeLoop, pumpVars, deadlineVars,
       radioVars
  <2> QED
    BY <1>4, <2>1, <2>2, <2>3, <2>4, <2>5, <2>6, <2>7, <2>8 DEF Callbacks
<1>5. CASE Tick
  BY <1>5 DEF Tick, TypeOK, PumpInv, BeforeLoop, pumpVars, deadlineVars, radioVars
<1>6. CASE WdtFires
  BY <1>6 DEF WdtFires, Reboot, TypeOK, PumpInv, BeforeLoop, pumpVars, deadlineVars,
     radioVars
<1>7. CASE SoftDevice
  <2>1. CASE SoftDeviceConnects
    BY <2>1 DEF SoftDeviceConnects, Signal, TypeOK, PumpInv, BeforeLoop, pumpVars,
       deadlineVars, radioVars
  <2>2. CASE SoftDeviceIsWritten
    BY <2>2 DEF SoftDeviceIsWritten, Signal, TypeOK, PumpInv, BeforeLoop, pumpVars,
       deadlineVars, radioVars
  <2>3. CASE SoftDeviceDisconnects
    BY <2>3 DEF SoftDeviceDisconnects, Signal, TypeOK, PumpInv, BeforeLoop,
       pumpVars, deadlineVars, radioVars
  <2> QED
    BY <1>7, <2>1, <2>2, <2>3 DEF SoftDevice
<1> QED
  BY <1>1, <1>2, <1>3, <1>4, <1>5, <1>6, <1>7 DEF Next, Main

\* However long main() is held up, the pump stops within two periods of the
\* watchdog of its deadline.
THEOREM PumpOverrun == Spec => []PumpOverrunBounded
<1>1. Init => PumpInv
  BY DEF Init, PumpInv, BeforeLoop
<1>2. TypeOK /\ PumpInv => PumpOverrunBounded
  BY DEF TypeOK, PumpInv, PumpOverrunBounded
<1> QED
  BY <1>1, <1>2, TypeCorrect, PumpPreserved, PTL DEF Spec

\* The steps that leave the counter, the pump and its requests alone.
Uninvolved ==
  \/ UNCHANGED vars
  \/ BootWait \/ BleInit \/ BleInitFails \/ EnterLoop
  \/ UptimeGoesOn \/ CheckDeadline \/ PollTick \/ LatchTick \/ UpdateUptimeState
  \/ WdtReset \/ KeepPump \/ PublishStop \/ ProcessEvents \/ Sleep
  \/ NoMoreEvents \/ SetDeadline \/ PublishPumping

Message == Seconds \cup {NoByte}

\* Each event of the queue is a message.
LEMMA MessagesAre ==
  ASSUME NEW q \in Seq(Event)
  PROVE  /\ Messages(q) \in Seq(Message) /\ Len(Messages(q)) = Len(q)
         /\ \A k \in 1 .. Len(q) : Messages(q)[k] = AskedBy(q[k])
         /\ q # <<>> => Messages(q) # <<>> /\ Head(Messages(q)) = AskedBy(Head(q))
<1>1. \A ev \in Event : AskedBy(ev) \in Message
  BY DEF Event, AskedBy, Message
<1>2. DOMAIN q = 1 .. Len(q) /\ Len(q) \in Nat
  OBVIOUS
<1>3. \A k \in 1 .. Len(q) : q[k] \in Event
  OBVIOUS
<1>4. Messages(q) = [k \in 1 .. Len(q) |-> AskedBy(q[k])]
  BY <1>2 DEF Messages
<1>5. Messages(q) \in Seq(Message)
  BY <1>1, <1>2, <1>3, <1>4
<1>6. Len(Messages(q)) = Len(q)
  BY <1>2, <1>4
<1>7. \A k \in 1 .. Len(q) : Messages(q)[k] = AskedBy(q[k])
  BY <1>4
<1>8. ASSUME q # <<>>
      PROVE  Messages(q) # <<>> /\ Head(Messages(q)) = AskedBy(Head(q))
  <2>1. Len(q) >= 1 /\ 1 \in 1 .. Len(q) /\ Head(q) = q[1]
    BY <1>8
  <2>2. Messages(q)[1] = AskedBy(q[1])
    BY <1>7, <2>1
  <2> QED
    BY <1>5, <1>6, <2>1, <2>2
<1> QED
  BY <1>5, <1>6, <1>7, <1>8

\* An event is fetched.
LEMMA MessageFetched ==
  ASSUME NEW q \in Seq(Event), q # <<>>
  PROVE  /\ Messages(Tail(q)) = Tail(Messages(q))
         /\ <<AskedBy(Head(q))>> \o Messages(Tail(q)) = Messages(q)
<1>0. Tail(q) \in Seq(Event)
  BY HeadTailProperties
<1>1. PICK r \in Seq(Event) : r = Tail(q)
  BY <1>0
<1>2. PICK m \in Seq(Message), n \in Seq(Message) : m = Messages(q) /\ n = Messages(r)
  BY MessagesAre
<1>3. PICK l \in Nat : l = Len(r) /\ Len(q) = l + 1 /\ \A k \in 1 .. l : r[k] = q[k + 1]
  <2>1. /\ Len(q) \in Nat /\ Len(r) \in Nat
        /\ Len(Tail(q)) = Len(q) - 1
        /\ \A k \in 1 .. Len(Tail(q)) : Tail(q)[k] = q[k + 1]
    BY HeadTailProperties, LenProperties
  <2>2. PICK l \in Nat : l = Len(r)
    BY <2>1
  <2>3. Len(q) = l + 1 /\ \A k \in 1 .. l : r[k] = q[k + 1]
    BY <1>1, <2>1, <2>2
  <2> QED
    BY <2>2, <2>3
<1>4. Len(m) = l + 1 /\ Len(n) = l /\ m # <<>> /\ Head(m) = AskedBy(Head(q))
  BY <1>2, <1>3, MessagesAre
<1>5. \A k \in 1 .. l : n[k] = m[k + 1]
  <2>1. \A k \in 1 .. l : n[k] = AskedBy(r[k])
    BY <1>2, <1>3, MessagesAre
  <2>2. \A k \in 1 .. l + 1 : m[k] = AskedBy(q[k])
    BY <1>2, <1>3, MessagesAre
  <2>3. \A k \in 1 .. l : k + 1 \in 1 .. l + 1
    OBVIOUS
  <2> QED
    BY <1>3, <2>1, <2>2, <2>3
<1>6. Tail(m) \in Seq(Message) /\ Len(Tail(m)) = l /\ \A k \in 1 .. l : Tail(m)[k] = m[k + 1]
  BY <1>4
<1>7. n = Tail(m)
  <2>1. Len(n) = Len(Tail(m)) /\ \A k \in 1 .. Len(n) : n[k] = Tail(m)[k]
    BY <1>4, <1>5, <1>6
  <2> QED
    BY <1>6, <2>1, SeqEqual
<1>8. <<Head(m)>> \o Tail(m) = m
  BY <1>4
<1> QED
  BY <1>1, <1>2, <1>4, <1>7, <1>8

\* An event comes.
LEMMA MessageComes ==
  ASSUME NEW q \in Seq(Event), NEW ev \in Event
  PROVE  Messages(Append(q, ev)) = Append(Messages(q), AskedBy(ev))
<1>0. Append(q, ev) \in Seq(Event)
  BY AppendProperties
<1>1. PICK r \in Seq(Event) : r = Append(q, ev)
  BY <1>0
<1>2. PICK m \in Seq(Message), n \in Seq(Message) : m = Messages(q) /\ n = Messages(r)
  BY MessagesAre
<1>3. PICK l \in Nat : l = Len(q) /\ Len(r) = l + 1 /\ r[l + 1] = ev /\ \A k \in 1 .. l : r[k] = q[k]
  BY <1>1
<1>4. Len(m) = l /\ Len(n) = l + 1
  BY <1>2, <1>3, MessagesAre
<1>5. PICK w \in Message : w = AskedBy(ev)
  BY DEF Event, AskedBy, Message
<1>6. n[l + 1] = w /\ \A k \in 1 .. l : n[k] = m[k]
  <2>1. \A k \in 1 .. l + 1 : n[k] = AskedBy(r[k])
    BY <1>2, <1>3, MessagesAre
  <2>2. \A k \in 1 .. l : m[k] = AskedBy(q[k])
    BY <1>2, <1>3, MessagesAre
  <2>3. l + 1 \in 1 .. l + 1 /\ \A k \in 1 .. l : k \in 1 .. l + 1
    OBVIOUS
  <2> QED
    BY <1>3, <1>5, <2>1, <2>2, <2>3
<1>7. PICK t \in Seq(Message) : t = Append(m, w)
  <2>1. Append(m, w) \in Seq(Message)
    BY AppendProperties
  <2> QED
    BY <2>1
<1>8. Len(t) = l + 1 /\ t[l + 1] = w /\ \A k \in 1 .. l : t[k] = m[k]
  BY <1>4, <1>7
<1>9. \A k \in 1 .. l + 1 : n[k] = t[k]
  <2>1. \A k \in 1 .. l + 1 : k = l + 1 \/ k \in 1 .. l
    OBVIOUS
  <2> QED
    BY <1>6, <1>8, <2>1
<1>10. n = t
  BY <1>4, <1>8, <1>9, SeqEqual
<1> QED
  BY <1>1, <1>2, <1>5, <1>7, <1>10

\* A message comes behind the one that is served.
LEMMA BehindIt ==
  ASSUME NEW n, NEW waiting \in Seq(Message), NEW m \in Message
  PROVE  <<n>> \o Append(waiting, m) = Append(<<n>> \o waiting, m)
<1>1. PICK S : S = Message \cup {n}
  OBVIOUS
<1>2. waiting \in Seq(S) /\ m \in S /\ <<n>> \in Seq(S)
  BY <1>1
<1>3. Append(waiting, m) = waiting \o <<m>>
  BY <1>2
<1>4. <<n>> \o (waiting \o <<m>>) = (<<n>> \o waiting) \o <<m>>
  BY <1>2, ConcatAssociative
<1>5. (<<n>> \o waiting) \in Seq(S)
  BY <1>2
<1>6. (<<n>> \o waiting) \o <<m>> = Append(<<n>> \o waiting, m)
  BY <1>2, <1>5
<1> QED
  BY <1>3, <1>4, <1>6

\* Every step of the firmware is a step of the promise or changes none of it.
LEMMA PromiseStep ==
  TypeOK /\ PumpInv /\ LinkInv /\ [Next]_vars
    => [Promise!Next]_<<Inbox, cnt, powerswitch1, PromisedEnd>>
<1> SUFFICES ASSUME TypeOK, PumpInv, LinkInv, [Next]_vars
             PROVE  Promise!Next \/ UNCHANGED <<Inbox, cnt, powerswitch1, PromisedEnd>>
  OBVIOUS
<1>q. queue \in Seq(Event)
  BY DEF TypeOK
<1>i. /\ Inbox = IF pc = "switch" THEN <<pump_for_seconds>> \o Messages(queue) ELSE Messages(queue)
      /\ Inbox' = IF pc' = "switch" THEN <<pump_for_seconds'>> \o Messages(queue')
                                   ELSE Messages(queue')
  BY DEF Inbox
<1>s. NoByte \notin Seconds
  BY SecondsAreNat DEF NoByte
<1>1. CASE Uninvolved
  <2>1. /\ UNCHANGED <<cnt, PUMPING_STOP_AT_CNT, powerswitch1, queue, pump_for_seconds>>
        /\ pc = "switch" <=> pc' = "switch"
    BY <1>1 DEF Uninvolved, vars, pumpVars, radioVars, BootWait, BleInit,
                BleInitFails, EnterLoop, UptimeGoesOn, CheckDeadline, PollTick,
                LatchTick, UpdateUptimeState, WdtReset, KeepPump, PublishStop,
                ProcessEvents, Sleep, NoMoreEvents, SetDeadline, PublishPumping
  <2> QED
    BY <1>i, <2>1 DEF PromisedEnd
<1>2. CASE BootStart \/ UptimeReset \/ WdtFires
  <2>1. queue' = <<>> /\ pc' # "switch" /\ cnt' = 0 /\ powerswitch1' = FALSE
    BY <1>2 DEF BootStart, UptimeReset, WdtFires, Reboot, LinkInv, radioVars
  <2>2. Inbox' = <<>>
    BY <1>i, <2>1 DEF Messages
  <2>3. Promise!PowerCycle
    BY <2>1, <2>2 DEF PromisedEnd, Promise!PowerCycle
  <2> QED
    BY <2>3 DEF Promise!Next
<1>3. CASE StopPump
  <2>1. UNCHANGED Inbox
    BY <1>3, <1>i DEF StopPump, radioVars
  <2>2. Promise!Stop
    BY <1>3, <2>1 DEF StopPump, PumpExpired, TypeOK, PumpInv, PromisedEnd, Promise!Stop
  <2> QED
    BY <2>2 DEF Promise!Next
<1>4. CASE OnDataWritten
  <2>1. Head(queue).value \in Seconds /\ Head(queue).value \in Nat
    BY <1>4, WrittenByte
  <2>2. /\ queue # <<>> /\ queue' = Tail(queue) /\ Head(queue).type = "write" /\ pc = "drain"
        /\ pc' = "switch" /\ pump_for_seconds' = Head(queue).value
        /\ PUMPING_STOP_AT_CNT' = cnt + Head(queue).value + 1
        /\ cnt' = cnt /\ powerswitch1' = powerswitch1
    BY <1>4 DEF OnDataWritten, Fetch
  <2>3. AskedBy(Head(queue)) = Head(queue).value
    BY <2>2 DEF AskedBy
  <2>4. Inbox = Messages(queue) /\ Inbox' = Inbox
    BY <1>i, <1>q, <2>2, <2>3, MessageFetched
  <2>5. Inbox # <<>> /\ Head(Inbox) = Head(queue).value
    BY <1>q, <2>2, <2>3, <2>4, MessagesAre
  <2>6. PromisedEnd' = cnt + Head(Inbox) + 1
    BY <2>2, <2>5 DEF PromisedEnd
  <2>7. Promise!Read
    BY <2>1, <2>2, <2>4, <2>5, <2>6 DEF Promise!Read
  <2> QED
    BY <2>7 DEF Promise!Next
<1>5. CASE OnConnected \/ OnDisconnected \/ OnEmptyWrite
  <2>1. /\ queue # <<>> /\ queue' = Tail(queue) /\ AskedBy(Head(queue)) = NoByte
        /\ pc = "drain" /\ pc' # "switch"
        /\ UNCHANGED <<cnt, PUMPING_STOP_AT_CNT, powerswitch1>>
    BY <1>5 DEF OnConnected, OnDisconnected, OnEmptyWrite, Fetch, AskedBy, pumpVars
  <2>2. Inbox = Messages(queue) /\ Inbox' = Tail(Inbox) /\ Inbox # <<>> /\ Head(Inbox) = NoByte
    BY <1>i, <1>q, <2>1, MessageFetched, MessagesAre
  <2>3. Promise!Ignore
    BY <2>1, <2>2 DEF PromisedEnd, Promise!Ignore
  <2> QED
    BY <2>3 DEF Promise!Next
<1>6. CASE SwitchPumpOn
  <2>1. /\ pc = "switch" /\ pc' = "publish" /\ powerswitch1' = TRUE /\ queue' = queue
        /\ UNCHANGED <<cnt, PUMPING_STOP_AT_CNT>>
    BY <1>6 DEF SwitchPumpOn, radioVars
  <2>2. /\ pump_for_seconds \in Seconds
        /\ PUMPING_STOP_AT_CNT \in {cnt + pump_for_seconds, cnt + pump_for_seconds + 1}
    BY <2>1 DEF PumpInv
  <2>3. Messages(queue) \in Seq(Message)
    BY <1>q, MessagesAre
  <2>4. Inbox # <<>> /\ Head(Inbox) = pump_for_seconds /\ Tail(Inbox) = Messages(queue)
    BY <1>i, <2>1, <2>2, <2>3
  <2>5. Inbox' = Tail(Inbox)
    BY <1>i, <2>1, <2>4
  <2>6. PromisedEnd = PUMPING_STOP_AT_CNT /\ PromisedEnd' = PUMPING_STOP_AT_CNT
    BY <2>1 DEF PromisedEnd
  <2>7. PromisedEnd - Head(Inbox) \in {cnt, cnt + 1}
    BY <2>2, <2>4, <2>6, SecondsAreNat DEF TypeOK
  <2>8. Promise!Run
    BY <2>1, <2>2, <2>4, <2>5, <2>6, <2>7 DEF Promise!Run
  <2> QED
    BY <2>8 DEF Promise!Next
<1>7. CASE Tick
  <2>1. powerswitch1 => cnt < PUMPING_STOP_AT_CNT + (2 * WDT_TICKS - 1)
    BY <1>7 DEF Tick, TypeOK, PumpInv
  <2>2. UNCHANGED <<Inbox, PromisedEnd>>
    BY <1>7, <1>i DEF Tick, pumpVars, PromisedEnd
  <2>3. Promise!Tick
    BY <1>7, <2>1, <2>2 DEF Tick, pumpVars, PromisedEnd, Promise!Tick
  <2> QED
    BY <2>3 DEF Promise!Next
<1>8. CASE SoftDevice
  <2>1. ASSUME NEW ev \in Event, queue' = Append(queue, ev),
               UNCHANGED <<pc, pump_for_seconds, cnt, pumpVars>>
        PROVE  Promise!Arrive
    <3>1. PICK m \in Message : m = AskedBy(ev)
      BY DEF Event, AskedBy, Message
    <3>2. Messages(queue') = Append(Messages(queue), m)
      BY <1>q, <2>1, <3>1, MessageComes
    <3>3. PICK waiting \in Seq(Message) : waiting = Messages(queue)
      BY <1>q, MessagesAre
    <3>4. <<pump_for_seconds>> \o Append(waiting, m) = Append(<<pump_for_seconds>> \o waiting, m)
      <4>1. PICK n : n = pump_for_seconds
        OBVIOUS
      <4>2. <<n>> \o Append(waiting, m) = Append(<<n>> \o waiting, m)
        BY BehindIt
      <4> QED
        BY <4>1, <4>2
    <3>5. Inbox' = Append(Inbox, m)
      BY <1>i, <2>1, <3>2, <3>3, <3>4
    <3>6. UNCHANGED <<cnt, powerswitch1, PromisedEnd>>
      BY <2>1 DEF pumpVars, PromisedEnd
    <3> QED
      BY <3>1, <3>5, <3>6 DEF Promise!Arrive, Message
  <2>2. CASE SoftDeviceConnects \/ SoftDeviceDisconnects
    <3>1. PICK t \in {"connected", "disconnected"} :
            Signal(t, 0) /\ UNCHANGED <<pc, pump_for_seconds, cnt, pumpVars>>
      BY <2>2 DEF SoftDeviceConnects, SoftDeviceDisconnects
    <3>2. [type |-> t, value |-> 0] \in Event
      BY DEF Event
    <3>3. Promise!Arrive
      BY <2>1, <3>1, <3>2 DEF Signal
    <3> QED
      BY <3>3 DEF Promise!Next
  <2>3. CASE SoftDeviceIsWritten
    <3>1. PICK v \in Seconds \cup {NoByte} :
            Signal("write", v) /\ UNCHANGED <<pc, pump_for_seconds, cnt, pumpVars>>
      BY <2>3 DEF SoftDeviceIsWritten
    <3>2. [type |-> "write", value |-> v] \in Event
      BY DEF Event
    <3>3. Promise!Arrive
      BY <2>1, <3>1, <3>2 DEF Signal
    <3> QED
      BY <3>3 DEF Promise!Next
  <2> QED
    BY <1>8, <2>2, <2>3 DEF SoftDevice
<1> QED
  BY <1>1, <1>2, <1>3, <1>4, <1>5, <1>6, <1>7, <1>8
  DEF Uninvolved, Next, Main, Boot, Loop, Callbacks

-----------------------------------------------------------------------------
\* What leaves and what stays when the head of the queue is fetched.
LEMMA Fetched ==
  ASSUME TypeOK, QueueInv, NEW t, Fetch(t)
  PROVE  /\ QueueInv'
         /\ Queued(t)
         /\ \A s : s # t => (Queued(s)' <=> Queued(s))
         /\ t \in {"connected", "disconnected"} => ~Queued(t)'
         /\ t = "disconnected" => ~Queued("connected")
<1>1. queue \in Seq(Event) /\ queue # <<>> /\ queue' = Tail(queue)
      /\ queue[1].type = t
  BY DEF TypeOK, Fetch
<1>2. 1 \in DOMAIN queue
  BY <1>1
<1>3. \A k \in DOMAIN queue' :
        k \in Nat /\ k + 1 \in DOMAIN queue /\ queue'[k] = queue[k + 1] /\ k + 1 # 1
  BY <1>1
<1>4. \A k \in DOMAIN queue :
        k # 1 => k \in Nat /\ k - 1 \in DOMAIN queue' /\ queue'[k - 1] = queue[k]
  BY <1>1
<1>5. QueueInv'
  BY <1>3 DEF QueueInv
<1>6. ASSUME NEW s, s # t PROVE Queued(s)' <=> Queued(s)
  <2>1. queue[1].type # s
    BY <1>1, <1>6
  <2>2. Queued(s) => Queued(s)'
    BY <1>4, <2>1 DEF Queued
  <2>3. Queued(s)' => Queued(s)
    BY <1>3 DEF Queued
  <2> QED
    BY <2>2, <2>3
<1>7. t \in {"connected", "disconnected"} => ~Queued(t)'
  BY <1>1, <1>2, <1>3 DEF QueueInv, Queued
<1>8. t = "disconnected" => ~Queued("connected")
  BY <1>1, <1>2, <1>4 DEF QueueInv, Queued
<1> QED
  BY <1>1, <1>2, <1>5, <1>6, <1>7, <1>8 DEF Queued

\* What an event of the SoftDevice adds to the queue.
LEMMA Signalled ==
  ASSUME TypeOK, QueueInv, NEW t, NEW v, Signal(t, v),
         t = "connected" => ~Queued("connected") /\ ~Queued("disconnected"),
         t = "disconnected" => ~Queued("disconnected")
  PROVE  /\ QueueInv'
         /\ Queued(t)'
         /\ \A s : s # t => (Queued(s)' <=> Queued(s))
<1> DEFINE e == [type |-> t, value |-> v]
           n == Len(queue) + 1
<1>1. queue \in Seq(Event) /\ queue' = Append(queue, e)
  BY DEF TypeOK, Signal
<1>2. e.type = t
  OBVIOUS
<1> HIDE DEF e
<1>3. n \in DOMAIN queue' /\ queue'[n] = e
  BY <1>1
<1>4. \A k \in DOMAIN queue' :
        k \in Nat /\ (k = n \/ (k \in DOMAIN queue /\ queue'[k] = queue[k] /\ k < n))
  BY <1>1
<1>5. \A k \in DOMAIN queue : k \in DOMAIN queue' /\ queue'[k] = queue[k]
  BY <1>1
<1> HIDE DEF n
<1>6. QueueInv'
  BY <1>2, <1>3, <1>4 DEF QueueInv, Queued
<1>7. Queued(t)'
  BY <1>2, <1>3 DEF Queued
<1>8. ASSUME NEW s, s # t PROVE Queued(s)' <=> Queued(s)
  BY <1>2, <1>3, <1>4, <1>5, <1>8 DEF Queued
<1> QED
  BY <1>6, <1>7, <1>8

\* A step that leaves the queue alone leaves alone what is queued.
LEMMA SameQueue ==
  ASSUME QueueInv, UNCHANGED queue
  PROVE  QueueInv' /\ \A t : Queued(t)' <=> Queued(t)
BY DEF QueueInv, Queued

\* Nothing is queued in an empty queue.
LEMMA EmptyQueue ==
  /\ queue = <<>> => QueueInv /\ \A t : ~Queued(t)
  /\ queue' = <<>> => QueueInv' /\ \A t : ~Queued(t)'
BY DEF QueueInv, Queued

\* The application forgets a connection before the radio may take the next.
LEMMA LinkPreserved ==
  TypeOK /\ QueueInv /\ LinkInv /\ [Next]_vars => QueueInv' /\ LinkInv'
<1> SUFFICES ASSUME TypeOK, QueueInv, LinkInv, [Next]_vars PROVE QueueInv' /\ LinkInv'
  OBVIOUS
<1>1. CASE UNCHANGED vars
  BY <1>1, SameQueue DEF vars, LinkInv, BeforeLoop, ConnectionUnknown, pumpVars,
     deadlineVars, radioVars
<1>2. CASE Boot
  <2>1. CASE BootWait
    <3>1. UNCHANGED queue
      BY <2>1 DEF BootWait, radioVars
    <3> QED
      BY <2>1, <3>1, SameQueue DEF BootWait, LinkInv, BeforeLoop, ConnectionUnknown,
         pumpVars, deadlineVars, radioVars
  <2>2. CASE BootStart
    <3>1. UNCHANGED queue
      BY <2>2 DEF BootStart, radioVars
    <3> QED
      BY <2>2, <3>1, SameQueue DEF BootStart, LinkInv, BeforeLoop,
         ConnectionUnknown, pumpVars, deadlineVars, radioVars
  <2>3. CASE BleInit
    <3>1. UNCHANGED queue
      BY <2>3 DEF BleInit, radioVars
    <3> QED
      BY <2>3, <3>1, SameQueue, EmptyQueue DEF BleInit, GapStartAdvertising,
         LinkInv, BeforeLoop, ConnectionUnknown, pumpVars, deadlineVars, radioVars
  <2>4. CASE BleInitFails
    <3>1. UNCHANGED queue
      BY <2>4 DEF BleInitFails, radioVars
    <3> QED
      BY <2>4, <3>1, SameQueue DEF BleInitFails, LinkInv, BeforeLoop,
         ConnectionUnknown, pumpVars, deadlineVars, radioVars
  <2>5. CASE EnterLoop
    <3>1. UNCHANGED queue
      BY <2>5 DEF EnterLoop, radioVars
    <3> QED
      BY <2>5, <3>1, SameQueue DEF EnterLoop, LinkInv, BeforeLoop,
         ConnectionUnknown, pumpVars, deadlineVars, radioVars
  <2> QED
    BY <1>2, <2>1, <2>2, <2>3, <2>4, <2>5 DEF Boot
<1>3. CASE Loop
  <2>1. CASE UptimeReset
    BY <2>1, EmptyQueue DEF UptimeReset, Reboot, LinkInv, BeforeLoop,
       ConnectionUnknown, pumpVars, deadlineVars, radioVars
  <2>2. CASE UptimeGoesOn
    <3>1. UNCHANGED queue
      BY <2>2 DEF UptimeGoesOn, radioVars
    <3> QED
      BY <2>2, <3>1, SameQueue DEF UptimeGoesOn, LinkInv, BeforeLoop,
         ConnectionUnknown, pumpVars, deadlineVars, radioVars
  <2>3. CASE CheckDeadline
    <3>1. UNCHANGED queue
      BY <2>3 DEF CheckDeadline, radioVars
    <3> QED
      BY <2>3, <3>1, SameQueue DEF CheckDeadline, GapDisconnect, LinkInv,
         BeforeLoop, ConnectionUnknown, pumpVars, deadlineVars, radioVars
  <2>4. CASE PollTick
    <3>1. UNCHANGED queue
      BY <2>4 DEF PollTick, radioVars
    <3> QED
      BY <2>4, <3>1, SameQueue DEF PollTick, LinkInv, BeforeLoop, ConnectionUnknown,
         pumpVars, deadlineVars, radioVars
  <2>5. CASE LatchTick \/ UpdateUptimeState
    <3>1. UNCHANGED queue
      BY <2>5 DEF LatchTick, UpdateUptimeState, radioVars
    <3> QED
      BY <2>5, <3>1, SameQueue DEF LatchTick, UpdateUptimeState, LinkInv,
         BeforeLoop, ConnectionUnknown, pumpVars, deadlineVars, radioVars
  <2>6. CASE WdtReset
    <3>1. UNCHANGED queue
      BY <2>6 DEF WdtReset, radioVars
    <3> QED
      BY <2>6, <3>1, SameQueue DEF WdtReset, LinkInv, BeforeLoop, ConnectionUnknown,
         pumpVars, deadlineVars, radioVars
  <2>7. CASE StopPump
    <3>1. UNCHANGED queue
      BY <2>7 DEF StopPump, radioVars
    <3> QED
      BY <2>7, <3>1, SameQueue DEF StopPump, PumpExpired, LinkInv, BeforeLoop,
         ConnectionUnknown, pumpVars, deadlineVars, radioVars
  <2>8. CASE KeepPump \/ PublishStop
    <3>1. UNCHANGED queue
      BY <2>8 DEF KeepPump, PublishStop, radioVars
    <3> QED
      BY <2>8, <3>1, SameQueue DEF KeepPump, PumpExpired, PublishStop, LinkInv,
         BeforeLoop, ConnectionUnknown, pumpVars, deadlineVars, radioVars
  <2>9. CASE ProcessEvents
    <3>1. UNCHANGED queue
      BY <2>9 DEF ProcessEvents, radioVars
    <3> QED
      BY <2>9, <3>1, SameQueue DEF ProcessEvents, LinkInv, BeforeLoop,
         ConnectionUnknown, pumpVars, deadlineVars, radioVars
  <2>10. CASE Sleep
    <3>1. UNCHANGED queue
      BY <2>10 DEF Sleep, radioVars
    <3> QED
      BY <2>10, <3>1, SameQueue DEF Sleep, LinkInv, BeforeLoop, ConnectionUnknown,
         pumpVars, deadlineVars, radioVars
  <2> QED
    BY <1>3, <2>1, <2>2, <2>3, <2>4, <2>5, <2>6, <2>7, <2>8, <2>9, <2>10 DEF Loop
<1>4. CASE Callbacks
  <2>1. CASE NoMoreEvents
    <3>1. UNCHANGED queue
      BY <2>1 DEF NoMoreEvents, radioVars
    <3> QED
      BY <2>1, <3>1, SameQueue DEF NoMoreEvents, LinkInv, BeforeLoop,
         ConnectionUnknown, pumpVars, deadlineVars, radioVars
  <2>2. CASE OnConnected
    <3>1. Fetch("connected")
      BY <2>2 DEF OnConnected
    <3>2. /\ QueueInv' /\ Queued("connected")
          /\ \A s : s # "connected" => (Queued(s)' <=> Queued(s))
          /\ "connected" \in {"connected", "disconnected"} => ~Queued("connected")'
          /\ "connected" = "disconnected" => ~Queued("connected")
      BY <3>1, Fetched
    <3> QED
      BY <2>2, <3>2 DEF OnConnected, Fetch, LinkInv, BeforeLoop, ConnectionUnknown,
         pumpVars, deadlineVars, radioVars
  <2>3. CASE SetDeadline
    <3>1. UNCHANGED queue
      BY <2>3 DEF SetDeadline, radioVars
    <3> QED
      BY <2>3, <3>1, SameQueue DEF SetDeadline, LinkInv, BeforeLoop,
         ConnectionUnknown, pumpVars, deadlineVars, radioVars
  <2>4. CASE OnDisconnected
    <3>1. Fetch("disconnected")
      BY <2>4 DEF OnDisconnected
    <3>2. /\ QueueInv' /\ Queued("disconnected")
          /\ \A s : s # "disconnected" => (Queued(s)' <=> Queued(s))
          /\ "disconnected" \in {"connected", "disconnected"} => ~Queued("disconnected")'
          /\ "disconnected" = "disconnected" => ~Queued("connected")
      BY <3>1, Fetched
    <3> QED
      BY <2>4, <3>2 DEF OnDisconnected, Fetch, GapStartAdvertising, LinkInv,
         BeforeLoop, ConnectionUnknown, pumpVars, deadlineVars, radioVars
  <2>5. CASE OnDataWritten
    <3>1. Fetch("write")
      BY <2>5 DEF OnDataWritten
    <3>2. /\ QueueInv' /\ Queued("write")
          /\ \A s : s # "write" => (Queued(s)' <=> Queued(s))
          /\ "write" \in {"connected", "disconnected"} => ~Queued("write")'
          /\ "write" = "disconnected" => ~Queued("connected")
      BY <3>1, Fetched
    <3> QED
      BY <2>5, <3>2 DEF OnDataWritten, Fetch, LinkInv, BeforeLoop,
         ConnectionUnknown, pumpVars, deadlineVars, radioVars
  <2>6. CASE OnEmptyWrite
    <3>1. Fetch("write")
      BY <2>6 DEF OnEmptyWrite
    <3>2. /\ QueueInv' /\ Queued("write")
          /\ \A s : s # "write" => (Queued(s)' <=> Queued(s))
          /\ "write" \in {"connected", "disconnected"} => ~Queued("write")'
          /\ "write" = "disconnected" => ~Queued("connected")
      BY <3>1, Fetched
    <3> QED
      BY <2>6, <3>2 DEF OnEmptyWrite, Fetch, LinkInv, BeforeLoop, ConnectionUnknown,
         pumpVars, deadlineVars, radioVars
  <2>7. CASE SwitchPumpOn
    <3>1. UNCHANGED queue
      BY <2>7 DEF SwitchPumpOn, radioVars
    <3> QED
      BY <2>7, <3>1, SameQueue DEF SwitchPumpOn, LinkInv, BeforeLoop,
         ConnectionUnknown, pumpVars, deadlineVars, radioVars
  <2>8. CASE PublishPumping
    <3>1. UNCHANGED queue
      BY <2>8 DEF PublishPumping, radioVars
    <3> QED
      BY <2>8, <3>1, SameQueue DEF PublishPumping, LinkInv, BeforeLoop,
         ConnectionUnknown, pumpVars, deadlineVars, radioVars
  <2> QED
    BY <1>4, <2>1, <2>2, <2>3, <2>4, <2>5, <2>6, <2>7, <2>8 DEF Callbacks
<1>5. CASE Tick
  <2>1. UNCHANGED queue
    BY <1>5 DEF Tick
  <2> QED
    BY <1>5, <2>1, SameQueue DEF Tick, LinkInv, BeforeLoop, ConnectionUnknown,
       pumpVars, deadlineVars, radioVars
<1>6. CASE WdtFires
  BY <1>6, EmptyQueue DEF WdtFires, Reboot, LinkInv, BeforeLoop, ConnectionUnknown,
     pumpVars, deadlineVars, radioVars
<1>7. CASE SoftDevice
  <2>1. CASE SoftDeviceConnects
    <3>1. PICK v : Signal("connected", v)
      BY <2>1 DEF SoftDeviceConnects
    <3>2. /\ QueueInv' /\ Queued("connected")'
          /\ \A s : s # "connected" => (Queued(s)' <=> Queued(s))
      BY <2>1, <3>1, Signalled DEF SoftDeviceConnects, LinkInv
    <3> QED
      BY <2>1, <3>2 DEF SoftDeviceConnects, LinkInv, BeforeLoop, ConnectionUnknown,
         pumpVars, deadlineVars, radioVars
  <2>2. CASE SoftDeviceIsWritten
    <3>1. PICK v : Signal("write", v)
      BY <2>2 DEF SoftDeviceIsWritten
    <3>2. /\ QueueInv' /\ Queued("write")'
          /\ \A s : s # "write" => (Queued(s)' <=> Queued(s))
      BY <2>2, <3>1, Signalled DEF SoftDeviceIsWritten, LinkInv
    <3> QED
      BY <2>2, <3>2 DEF SoftDeviceIsWritten, LinkInv, BeforeLoop, ConnectionUnknown,
         pumpVars, deadlineVars, radioVars
  <2>3. CASE SoftDeviceDisconnects
    <3>1. PICK v : Signal("disconnected", v)
      BY <2>3 DEF SoftDeviceDisconnects
    <3>2. /\ QueueInv' /\ Queued("disconnected")'
          /\ \A s : s # "disconnected" => (Queued(s)' <=> Queued(s))
      BY <2>3, <3>1, Signalled DEF SoftDeviceDisconnects, LinkInv
    <3> QED
      BY <2>3, <3>2 DEF SoftDeviceDisconnects, LinkInv, BeforeLoop,
         ConnectionUnknown, pumpVars, deadlineVars, radioVars
  <2> QED
    BY <1>7, <2>1, <2>2, <2>3 DEF SoftDevice
<1> QED
  BY <1>1, <1>2, <1>3, <1>4, <1>5, <1>6, <1>7 DEF Next, Main

\* The deadline is the one of the connection the application knows of.
LEMMA DeadlinePreserved ==
  TypeOK /\ ClockInv /\ QueueInv /\ LinkInv /\ DeadlineInv /\ [Next]_vars => DeadlineInv'
<1> SUFFICES ASSUME TypeOK, ClockInv, QueueInv, LinkInv, DeadlineInv, [Next]_vars PROVE DeadlineInv'
  OBVIOUS
<1>1. CASE UNCHANGED vars
  BY <1>1, SameQueue DEF vars, TypeOK, ClockInv, LinkInv, DeadlineInv, BeforeLoop,
     BeforeReload, ConnectionUnknown, pumpVars, deadlineVars, radioVars
<1>2. CASE Boot
  <2>1. CASE BootWait
    <3>1. UNCHANGED queue
      BY <2>1 DEF BootWait, radioVars
    <3> QED
      BY <2>1, <3>1, SameQueue DEF BootWait, TypeOK, ClockInv, LinkInv, DeadlineInv,
         BeforeLoop, BeforeReload, ConnectionUnknown, pumpVars, deadlineVars,
         radioVars
  <2>2. CASE BootStart
    <3>1. UNCHANGED queue
      BY <2>2 DEF BootStart, radioVars
    <3> QED
      BY <2>2, <3>1, SameQueue DEF BootStart, TypeOK, ClockInv, LinkInv,
         DeadlineInv, BeforeLoop, BeforeReload, ConnectionUnknown, pumpVars,
         deadlineVars, radioVars
  <2>3. CASE BleInit
    <3>1. UNCHANGED queue
      BY <2>3 DEF BleInit, radioVars
    <3> QED
      BY <2>3, <3>1, SameQueue DEF BleInit, GapStartAdvertising, TypeOK, ClockInv,
         LinkInv, DeadlineInv, BeforeLoop, BeforeReload, ConnectionUnknown,
         pumpVars, deadlineVars, radioVars
  <2>4. CASE BleInitFails
    <3>1. UNCHANGED queue
      BY <2>4 DEF BleInitFails, radioVars
    <3> QED
      BY <2>4, <3>1, SameQueue DEF BleInitFails, TypeOK, ClockInv, LinkInv,
         DeadlineInv, BeforeLoop, BeforeReload, ConnectionUnknown, pumpVars,
         deadlineVars, radioVars
  <2>5. CASE EnterLoop
    <3>1. UNCHANGED queue
      BY <2>5 DEF EnterLoop, radioVars
    <3> QED
      BY <2>5, <3>1, SameQueue DEF EnterLoop, TypeOK, ClockInv, LinkInv,
         DeadlineInv, BeforeLoop, BeforeReload, ConnectionUnknown, pumpVars,
         deadlineVars, radioVars
  <2> QED
    BY <1>2, <2>1, <2>2, <2>3, <2>4, <2>5 DEF Boot
<1>3. CASE Loop
  <2>1. CASE UptimeReset
    BY <2>1, EmptyQueue DEF UptimeReset, Reboot, TypeOK, ClockInv, LinkInv,
       DeadlineInv, BeforeLoop, BeforeReload, ConnectionUnknown, pumpVars,
       deadlineVars, radioVars
  <2>2. CASE UptimeGoesOn
    <3>1. UNCHANGED queue
      BY <2>2 DEF UptimeGoesOn, radioVars
    <3> QED
      BY <2>2, <3>1, SameQueue DEF UptimeGoesOn, TypeOK, ClockInv, LinkInv,
         DeadlineInv, BeforeLoop, BeforeReload, ConnectionUnknown, pumpVars,
         deadlineVars, radioVars
  <2>3. CASE CheckDeadline
    <3>1. UNCHANGED queue
      BY <2>3 DEF CheckDeadline, radioVars
    <3> QED
      BY <2>3, <3>1, SameQueue DEF CheckDeadline, GapDisconnect, TypeOK, ClockInv,
         LinkInv, DeadlineInv, BeforeLoop, BeforeReload, ConnectionUnknown,
         pumpVars, deadlineVars, radioVars
  <2>4. CASE PollTick
    <3>1. UNCHANGED queue
      BY <2>4 DEF PollTick, radioVars
    <3> QED
      BY <2>4, <3>1, SameQueue DEF PollTick, TypeOK, ClockInv, LinkInv, DeadlineInv,
         BeforeLoop, BeforeReload, ConnectionUnknown, pumpVars, deadlineVars,
         radioVars
  <2>5. CASE LatchTick \/ UpdateUptimeState
    <3>1. UNCHANGED queue
      BY <2>5 DEF LatchTick, UpdateUptimeState, radioVars
    <3> QED
      BY <2>5, <3>1, SameQueue DEF LatchTick, UpdateUptimeState, TypeOK, ClockInv,
         LinkInv, DeadlineInv, BeforeLoop, BeforeReload, ConnectionUnknown,
         pumpVars, deadlineVars, radioVars
  <2>6. CASE WdtReset
    <3>1. UNCHANGED queue
      BY <2>6 DEF WdtReset, radioVars
    <3> QED
      BY <2>6, <3>1, SameQueue DEF WdtReset, TypeOK, ClockInv, LinkInv, DeadlineInv,
         BeforeLoop, BeforeReload, ConnectionUnknown, pumpVars, deadlineVars,
         radioVars
  <2>7. CASE StopPump
    <3>1. UNCHANGED queue
      BY <2>7 DEF StopPump, radioVars
    <3> QED
      BY <2>7, <3>1, SameQueue DEF StopPump, PumpExpired, TypeOK, ClockInv, LinkInv,
         DeadlineInv, BeforeLoop, BeforeReload, ConnectionUnknown, pumpVars,
         deadlineVars, radioVars
  <2>8. CASE KeepPump \/ PublishStop
    <3>1. UNCHANGED queue
      BY <2>8 DEF KeepPump, PublishStop, radioVars
    <3> QED
      BY <2>8, <3>1, SameQueue DEF KeepPump, PumpExpired, PublishStop, TypeOK,
         ClockInv, LinkInv, DeadlineInv, BeforeLoop, BeforeReload,
         ConnectionUnknown, pumpVars, deadlineVars, radioVars
  <2>9. CASE ProcessEvents
    <3>1. UNCHANGED queue
      BY <2>9 DEF ProcessEvents, radioVars
    <3> QED
      BY <2>9, <3>1, SameQueue DEF ProcessEvents, TypeOK, ClockInv, LinkInv,
         DeadlineInv, BeforeLoop, BeforeReload, ConnectionUnknown, pumpVars,
         deadlineVars, radioVars
  <2>10. CASE Sleep
    <3>1. UNCHANGED queue
      BY <2>10 DEF Sleep, radioVars
    <3> QED
      BY <2>10, <3>1, SameQueue DEF Sleep, TypeOK, ClockInv, LinkInv, DeadlineInv,
         BeforeLoop, BeforeReload, ConnectionUnknown, pumpVars, deadlineVars,
         radioVars
  <2> QED
    BY <1>3, <2>1, <2>2, <2>3, <2>4, <2>5, <2>6, <2>7, <2>8, <2>9, <2>10 DEF Loop
<1>4. CASE Callbacks
  <2>1. CASE NoMoreEvents
    <3>1. UNCHANGED queue
      BY <2>1 DEF NoMoreEvents, radioVars
    <3> QED
      BY <2>1, <3>1, SameQueue DEF NoMoreEvents, TypeOK, ClockInv, LinkInv,
         DeadlineInv, BeforeLoop, BeforeReload, ConnectionUnknown, pumpVars,
         deadlineVars, radioVars
  <2>2. CASE OnConnected
    <3>1. Fetch("connected")
      BY <2>2 DEF OnConnected
    <3>2. /\ Queued("connected")
          /\ \A s : s # "connected" => (Queued(s)' <=> Queued(s))
      BY <3>1, Fetched
    <3> QED
      BY <2>2, <3>2 DEF OnConnected, Fetch, TypeOK, ClockInv, LinkInv, DeadlineInv,
         BeforeLoop, BeforeReload, ConnectionUnknown, pumpVars, deadlineVars,
         radioVars
  <2>3. CASE SetDeadline
    <3>1. UNCHANGED queue
      BY <2>3 DEF SetDeadline, radioVars
    <3> QED
      BY <2>3, <3>1, SameQueue DEF SetDeadline, TypeOK, ClockInv, LinkInv,
         DeadlineInv, BeforeLoop, BeforeReload, ConnectionUnknown, pumpVars,
         deadlineVars, radioVars
  <2>4. CASE OnDisconnected
    <3>1. Fetch("disconnected")
      BY <2>4 DEF OnDisconnected
    <3>2. /\ Queued("disconnected")
          /\ \A s : s # "disconnected" => (Queued(s)' <=> Queued(s))
      BY <3>1, Fetched
    <3> QED
      BY <2>4, <3>2 DEF OnDisconnected, Fetch, GapStartAdvertising, TypeOK,
         ClockInv, LinkInv, DeadlineInv, BeforeLoop, BeforeReload,
         ConnectionUnknown, pumpVars, deadlineVars, radioVars
  <2>5. CASE OnDataWritten
    <3>1. Fetch("write")
      BY <2>5 DEF OnDataWritten
    <3>2. /\ Queued("write")
          /\ \A s : s # "write" => (Queued(s)' <=> Queued(s))
      BY <3>1, Fetched
    <3> QED
      BY <2>5, <3>2 DEF OnDataWritten, Fetch, TypeOK, ClockInv, LinkInv,
         DeadlineInv, BeforeLoop, BeforeReload, ConnectionUnknown, pumpVars,
         deadlineVars, radioVars
  <2>6. CASE OnEmptyWrite
    <3>1. Fetch("write")
      BY <2>6 DEF OnEmptyWrite
    <3>2. /\ Queued("write")
          /\ \A s : s # "write" => (Queued(s)' <=> Queued(s))
      BY <3>1, Fetched
    <3> QED
      BY <2>6, <3>2 DEF OnEmptyWrite, Fetch, TypeOK, ClockInv, LinkInv, DeadlineInv,
         BeforeLoop, BeforeReload, ConnectionUnknown, pumpVars, deadlineVars,
         radioVars
  <2>7. CASE SwitchPumpOn
    <3>1. UNCHANGED queue
      BY <2>7 DEF SwitchPumpOn, radioVars
    <3> QED
      BY <2>7, <3>1, SameQueue DEF SwitchPumpOn, TypeOK, ClockInv, LinkInv,
         DeadlineInv, BeforeLoop, BeforeReload, ConnectionUnknown, pumpVars,
         deadlineVars, radioVars
  <2>8. CASE PublishPumping
    <3>1. UNCHANGED queue
      BY <2>8 DEF PublishPumping, radioVars
    <3> QED
      BY <2>8, <3>1, SameQueue DEF PublishPumping, TypeOK, ClockInv, LinkInv,
         DeadlineInv, BeforeLoop, BeforeReload, ConnectionUnknown, pumpVars,
         deadlineVars, radioVars
  <2> QED
    BY <1>4, <2>1, <2>2, <2>3, <2>4, <2>5, <2>6, <2>7, <2>8 DEF Callbacks
<1>5. CASE Tick
  <2>1. UNCHANGED queue
    BY <1>5 DEF Tick, radioVars
  <2> QED
    BY <1>5, <2>1, SameQueue DEF Tick, TypeOK, ClockInv, LinkInv, DeadlineInv,
       BeforeLoop, BeforeReload, ConnectionUnknown, pumpVars, deadlineVars,
       radioVars
<1>6. CASE WdtFires
  BY <1>6, EmptyQueue DEF WdtFires, Reboot, TypeOK, ClockInv, LinkInv, DeadlineInv,
     BeforeLoop, BeforeReload, ConnectionUnknown, pumpVars, deadlineVars, radioVars
<1>7. CASE SoftDevice
  <2>1. CASE SoftDeviceConnects
    <3>1. PICK v : Signal("connected", v)
      BY <2>1 DEF SoftDeviceConnects
    <3>2. /\ Queued("connected")'
          /\ \A s : s # "connected" => (Queued(s)' <=> Queued(s))
      BY <2>1, <3>1, Signalled DEF SoftDeviceConnects, LinkInv
    <3> QED
      BY <2>1, <3>2 DEF SoftDeviceConnects, TypeOK, ClockInv, LinkInv, DeadlineInv,
         BeforeLoop, BeforeReload, ConnectionUnknown, pumpVars, deadlineVars,
         radioVars
  <2>2. CASE SoftDeviceIsWritten
    <3>1. PICK v : Signal("write", v)
      BY <2>2 DEF SoftDeviceIsWritten
    <3>2. /\ Queued("write")'
          /\ \A s : s # "write" => (Queued(s)' <=> Queued(s))
      BY <2>2, <3>1, Signalled DEF SoftDeviceIsWritten, LinkInv
    <3> QED
      BY <2>2, <3>2 DEF SoftDeviceIsWritten, TypeOK, ClockInv, LinkInv, DeadlineInv,
         BeforeLoop, BeforeReload, ConnectionUnknown, pumpVars, deadlineVars,
         radioVars
  <2>3. CASE SoftDeviceDisconnects
    <3>1. PICK v : Signal("disconnected", v)
      BY <2>3 DEF SoftDeviceDisconnects
    <3>2. /\ Queued("disconnected")'
          /\ \A s : s # "disconnected" => (Queued(s)' <=> Queued(s))
      BY <2>3, <3>1, Signalled DEF SoftDeviceDisconnects, LinkInv
    <3> QED
      BY <2>3, <3>2 DEF SoftDeviceDisconnects, TypeOK, ClockInv, LinkInv,
         DeadlineInv, BeforeLoop, BeforeReload, ConnectionUnknown, pumpVars,
         deadlineVars, radioVars
  <2> QED
    BY <1>7, <2>1, <2>2, <2>3 DEF SoftDevice
<1> QED
  BY <1>1, <1>2, <1>3, <1>4, <1>5, <1>6, <1>7 DEF Next, Main

\* The invariants behind what follows, in one.
ConnectionInv == TypeOK /\ ClockInv /\ QueueInv /\ LinkInv /\ DeadlineInv

LEMMA ConnectionInvariant == Spec => []ConnectionInv
<1>1. Init => ConnectionInv
  <2>1. Init => TypeOK
    BY TypeInit
  <2>2. Init => ClockInv /\ DeadlineInv
    BY EmptyQueue DEF Init, ClockInv, DeadlineInv, ConnectionUnknown, BeforeLoop,
       BeforeReload
  <2>3. Init => QueueInv /\ LinkInv
    BY EmptyQueue DEF Init, LinkInv, ConnectionUnknown, BeforeLoop
  <2> QED
    BY <2>1, <2>2, <2>3 DEF ConnectionInv
<1>2. ConnectionInv /\ [Next]_vars => ConnectionInv'
  BY TypePreserved, ClockPreserved, LinkPreserved, DeadlinePreserved DEF ConnectionInv
<1> QED
  BY <1>1, <1>2, PTL DEF Spec

\* A central the application knows of is thrown out within two periods of the
\* watchdog of its deadline.
THEOREM ConnectionIsBounded == Spec => []ConnectionBounded
<1>1. ConnectionInv => ConnectionBounded
  BY DEF ConnectionInv, TypeOK, DeadlineInv, ConnectionBounded
<1> QED
  BY <1>1, ConnectionInvariant, PTL

\* No deadline left over from an earlier connection cuts a later one.
THEOREM ConnectionIsNeverCutEarly == Spec => NeverCutEarly
<1> DEFINE Cut == link = "connected" /\ link' = "closing" =>
                    ~ConnectionUnknown /\ cnt >= CONNECTED_AT + DISCONNECT_AFTER_SECONDS
<1>1. ASSUME ConnectionInv, Next, link = "connected", link' = "closing"
      PROVE  CheckDeadline
  BY <1>1 DEF ConnectionInv, LinkInv, BeforeLoop, Next, Main, Boot, Loop, Callbacks,
     SoftDevice,
       BootWait, BootStart, BleInit, BleInitFails, EnterLoop, GapStartAdvertising,
       UptimeReset, UptimeGoesOn, PollTick, LatchTick, UpdateUptimeState, WdtReset,
       StopPump, KeepPump, PublishStop, ProcessEvents, Sleep, NoMoreEvents, OnConnected,
       SetDeadline, OnDisconnected, OnDataWritten, OnEmptyWrite, SwitchPumpOn,
       PublishPumping, Tick, WdtFires, Reboot, SoftDeviceConnects, SoftDeviceIsWritten,
       SoftDeviceDisconnects, radioVars
<1>2. ASSUME ConnectionInv, CheckDeadline, link = "connected", link' = "closing"
      PROVE  ~ConnectionUnknown /\ cnt >= CONNECTED_AT + DISCONNECT_AFTER_SECONDS
  BY <1>2 DEF ConnectionInv, TypeOK, LinkInv, DeadlineInv, CheckDeadline, GapDisconnect,
              ConnectionUnknown
<1>3. ConnectionInv /\ [Next]_vars => [Cut]_vars
  BY <1>1, <1>2
<1> QED
  BY <1>3, ConnectionInvariant, PTL DEF Spec, NeverCutEarly

\* The firmware keeps the promise: every write is served in its turn, for at least its n
\* ticks and at most n + 1 and two periods of the watchdog, and only a reset loses a
\* write or cuts a run short.
THEOREM PromiseIsKept == Spec => PromiseKept
<1>1. Init => Promise!Init
  <2>1. Messages(<<>>) = <<>>
    BY DEF Messages
  <2> QED
    BY <2>1 DEF Init, Promise!Init, PromisedEnd, Inbox
<1>2. Init => PumpInv
  BY DEF Init, PumpInv, BeforeLoop
<1>3. ConnectionInv => LinkInv
  BY DEF ConnectionInv
<1> QED
  BY <1>1, <1>2, <1>3, TypeCorrect, PumpPreserved, PromiseStep, ConnectionInvariant, PTL
     DEF Spec, PromiseKept, Promise!Spec

-----------------------------------------------------------------------------
\* A deadline that is met stays met.
LEMMA Later ==
  \A s, c, d, p \in Nat : s <= c + p + 1 /\ d >= c => s <= d + p + 1
  OBVIOUS

\* A step that leaves the pump and its attribute alone, and loses no time, leaves the
\* attribute truthful.
LEMMA StillAgrees ==
  ASSUME TypeOK, TypeOK', PumpStateAgrees, UNCHANGED <<pumpVars, pumpState, pump_for_seconds>>,
         cnt' >= cnt
  PROVE  PumpStateAgrees'
<1>1. /\ PUMPING_STOP_AT_CNT' = PUMPING_STOP_AT_CNT /\ powerswitch1' = powerswitch1
      /\ pumpState' = pumpState /\ pump_for_seconds' = pump_for_seconds
  BY DEF pumpVars
<1>2. PUMPING_STOP_AT_CNT \in Nat /\ cnt \in Nat /\ cnt' \in Nat /\ pump_for_seconds \in Nat
  BY SecondsAreNat DEF TypeOK
<1>3. CASE ~powerswitch1
  BY <1>1, <1>3 DEF PumpStateAgrees
<1>4. CASE powerswitch1
  <2>1. PUMPING_STOP_AT_CNT <= cnt + pump_for_seconds + 1
    BY <1>4 DEF PumpStateAgrees
  <2>2. PUMPING_STOP_AT_CNT <= cnt' + pump_for_seconds + 1
    BY <1>2, <2>1, Later, Zenon
  <2> QED
    BY <1>1, <1>4, <2>2 DEF PumpStateAgrees
<1> QED
  BY <1>3, <1>4

\* A write with a value that is to come is still to come when something else, or an
\* empty write, is fetched.
LEMMA FetchedOther ==
  ASSUME TypeOK, PumpStateToCome, NEW t, Fetch(t), t = "write" => Head(queue).value = NoByte
  PROVE  PumpStateToCome'
<1>1. queue \in Seq(Event) /\ queue # <<>> /\ queue' = Tail(queue)
      /\ queue[1].type = t /\ Head(queue) = queue[1]
  BY DEF TypeOK, Fetch
<1>2. PICK k \in DOMAIN queue :
        /\ queue[k].type = "write" /\ queue[k].value # NoByte
        /\ \A j \in DOMAIN queue : queue[j].type = "write" => j <= k
  BY DEF PumpStateToCome
<1>3. k # 1
  BY <1>1, <1>2
<1>4. k - 1 \in DOMAIN queue' /\ queue'[k - 1] = queue[k]
  BY <1>1, <1>3
<1>5. \A j \in DOMAIN queue' : j \in Nat /\ j + 1 \in DOMAIN queue /\ queue'[j] = queue[j + 1]
  BY <1>1
<1>6. k \in Nat
  BY <1>1, <1>2
<1>7. \A j \in DOMAIN queue' : queue'[j].type = "write" => j <= k - 1
  BY <1>2, <1>5, <1>6
<1> QED
  BY <1>2, <1>4, <1>7 DEF PumpStateToCome

\* Events of the SoftDevice leave to come what is to come, and a write with a value is
\* to come itself.
LEMMA SignalledToCome ==
  ASSUME TypeOK, NEW t, NEW v, Signal(t, v),
         \/ t = "write" /\ v # NoByte
         \/ t # "write" /\ PumpStateToCome
  PROVE  PumpStateToCome'
<1> DEFINE e == [type |-> t, value |-> v]
           n == Len(queue) + 1
<1>1. queue \in Seq(Event) /\ queue' = Append(queue, e)
  BY DEF TypeOK, Signal
<1>2. e.type = t /\ e.value = v
  OBVIOUS
<1> HIDE DEF e
<1>3. n \in DOMAIN queue' /\ queue'[n] = e /\ n \in Nat
  BY <1>1
<1>4. \A k \in DOMAIN queue' :
        k \in Nat /\ k <= n /\ (k = n \/ (k \in DOMAIN queue /\ queue'[k] = queue[k]))
  BY <1>1
<1>5. \A k \in DOMAIN queue : k \in DOMAIN queue' /\ queue'[k] = queue[k]
  BY <1>1
<1> HIDE DEF n
<1>6. CASE t = "write" /\ v # NoByte
  BY <1>2, <1>3, <1>4, <1>6 DEF PumpStateToCome
<1>7. CASE t # "write" /\ PumpStateToCome
  BY <1>2, <1>3, <1>4, <1>5, <1>7 DEF PumpStateToCome
<1> QED
  BY <1>6, <1>7

\* Whatever order writes, publications and stops come in, the attribute is truthful or
\* about to be made so.
LEMMA PumpStatePreserved ==
  TypeOK /\ PumpInv /\ PumpStateInv /\ [Next]_vars => PumpStateInv'
<1> SUFFICES ASSUME TypeOK, PumpInv, PumpStateInv, [Next]_vars PROVE PumpStateInv'
  OBVIOUS
<1>t. TypeOK'
  BY TypePreserved
<1>0. ASSUME UNCHANGED queue PROVE PumpStateToCome' <=> PumpStateToCome
  BY <1>0 DEF PumpStateToCome
<1>1. ASSUME UNCHANGED <<pumpVars, pumpState, pump_for_seconds, queue>>, cnt' >= cnt,
             pc' \in {"switch", "publish", "stopped"} => pc' = pc,
             pc \in {"switch", "publish", "stopped"} => pc' = pc
      PROVE  PumpStateInv'
  <2>1. PumpStateAgrees => PumpStateAgrees'
    BY <1>1, <1>t, StillAgrees
  <2>2. PumpStateToCome' <=> PumpStateToCome
    BY <1>1, <1>0
  <2>3. powerswitch1' => PUMPING_STOP_AT_CNT' <= cnt' + pump_for_seconds' + 1
    <3>1. pump_for_seconds \in Nat /\ cnt \in Nat /\ cnt' \in Nat /\ PUMPING_STOP_AT_CNT \in Nat
      BY <1>t, SecondsAreNat DEF TypeOK
    <3>2. /\ powerswitch1' = powerswitch1 /\ PUMPING_STOP_AT_CNT' = PUMPING_STOP_AT_CNT
          /\ pump_for_seconds' = pump_for_seconds
      BY <1>1 DEF pumpVars
    <3>3. ASSUME powerswitch1
          PROVE  PUMPING_STOP_AT_CNT <= cnt' + pump_for_seconds + 1
      <4>1. PUMPING_STOP_AT_CNT <= cnt + pump_for_seconds + 1
        BY <3>3 DEF PumpStateInv
      <4> QED
        BY <1>1, <3>1, <4>1, Later, Zenon
    <3> QED
      BY <3>2, <3>3
  <2>4. (pc = "stopped" => ~powerswitch1') /\ (pc = "publish" => powerswitch1')
    BY <1>1 DEF PumpStateInv, pumpVars
  <2> QED
    BY <1>1, <2>1, <2>2, <2>3, <2>4 DEF PumpStateInv
<1>2. ASSUME Reboot(wdt) \/ Reboot(0) PROVE PumpStateInv'
  BY <1>2 DEF Reboot, PumpStateInv, PumpStateAgrees
<1>3. CASE UNCHANGED vars
  BY <1>1, <1>3 DEF vars, TypeOK, radioVars
<1>4. CASE Boot
  <2>1. CASE BootWait \/ BleInitFails \/ EnterLoop
    BY <1>1, <2>1 DEF BootWait, BleInitFails, EnterLoop, TypeOK, radioVars
  <2>2. CASE BootStart
    BY <2>2, <1>0 DEF BootStart, PumpInv, PumpStateInv, PumpStateAgrees, radioVars, BeforeLoop
  <2>3. CASE BleInit
    <3>1. ~powerswitch1' /\ pumpState' = 0 /\ pc' = "enter"
      BY <2>3 DEF BleInit, PumpInv, BeforeLoop, pumpVars
    <3> QED
      BY <3>1 DEF PumpStateInv, PumpStateAgrees
  <2> QED
    BY <1>4, <2>1, <2>2, <2>3 DEF Boot
<1>5. CASE Loop
  <2>1. CASE UptimeReset
    BY <1>2, <2>1 DEF UptimeReset
  <2>2. CASE UptimeGoesOn \/ CheckDeadline \/ PollTick \/ LatchTick \/ UpdateUptimeState
             \/ WdtReset \/ KeepPump \/ ProcessEvents \/ Sleep
    BY <1>1, <2>2 DEF UptimeGoesOn, CheckDeadline, PollTick, LatchTick, UpdateUptimeState,
       WdtReset, KeepPump, ProcessEvents, Sleep, TypeOK, radioVars
  <2>3. CASE StopPump
    BY <2>3 DEF StopPump, PumpStateInv
  <2>4. CASE PublishStop
    BY <2>4 DEF PublishStop, PumpStateInv, PumpStateAgrees, pumpVars
  <2> QED
    BY <1>5, <2>1, <2>2, <2>3, <2>4 DEF Loop
<1>6. CASE Callbacks
  <2>1. CASE NoMoreEvents \/ SetDeadline
    BY <1>1, <2>1 DEF NoMoreEvents, SetDeadline, TypeOK, radioVars
  <2>2. ASSUME NEW t, Fetch(t), t = "write" => Head(queue).value = NoByte,
               UNCHANGED <<pumpVars, pumpState, pump_for_seconds, cnt>>,
               pc' \notin {"switch", "publish", "stopped"}
        PROVE  PumpStateInv'
    <3>1. PumpStateAgrees => PumpStateAgrees'
      BY <1>t, <2>2, StillAgrees DEF TypeOK
    <3>2. PumpStateToCome => PumpStateToCome'
      BY <2>2, FetchedOther
    <3>3. pc = "drain"
      BY <2>2 DEF Fetch
    <3>4. powerswitch1' => PUMPING_STOP_AT_CNT' <= cnt' + pump_for_seconds' + 1
      BY <2>2 DEF PumpStateInv, pumpVars
    <3> QED
      BY <2>2, <3>1, <3>2, <3>3, <3>4 DEF PumpStateInv
  <2>3. CASE OnConnected
    BY <2>2, <2>3 DEF OnConnected
  <2>4. CASE OnDisconnected
    BY <2>2, <2>4 DEF OnDisconnected, Fetch
  <2>5. CASE OnEmptyWrite
    BY <2>2, <2>5 DEF OnEmptyWrite, Fetch
  <2>6. CASE OnDataWritten
    BY <2>6 DEF OnDataWritten, PumpStateInv
  <2>7. CASE SwitchPumpOn
    <3>1. pump_for_seconds \in Nat /\ cnt \in Nat
      BY SecondsAreNat DEF TypeOK
    <3> QED
      BY <2>7, <3>1 DEF SwitchPumpOn, PumpInv, PumpStateInv
  <2>8. CASE PublishPumping
    BY <2>8 DEF PublishPumping, PumpStateInv, PumpStateAgrees, pumpVars
  <2> QED
    BY <1>6, <2>1, <2>3, <2>4, <2>5, <2>6, <2>7, <2>8 DEF Callbacks
<1>7. CASE Tick
  BY <1>1, <1>7 DEF Tick, TypeOK
<1>8. CASE WdtFires
  BY <1>2, <1>8 DEF WdtFires
<1>9. CASE SoftDevice
  <2>1. ASSUME NEW t, NEW v, Signal(t, v), UNCHANGED <<pc, pump_for_seconds, cnt, pumpVars>>,
               \/ t # "write" /\ UNCHANGED pumpState
               \/ t = "write" /\ pumpState' = v
        PROVE  PumpStateInv'
    <3>1. CASE t # "write" /\ UNCHANGED pumpState
      <4>1. PumpStateAgrees => PumpStateAgrees'
        <5>1. cnt' >= cnt /\ UNCHANGED <<pumpVars, pumpState, pump_for_seconds>>
          BY <2>1, <3>1 DEF TypeOK
        <5> QED
          BY <1>t, <5>1, StillAgrees
      <4>2. PumpStateToCome => PumpStateToCome'
        BY <2>1, <3>1, SignalledToCome
      <4> QED
        BY <2>1, <3>1, <4>1, <4>2 DEF PumpStateInv, pumpVars
    <3>2. CASE t = "write" /\ pumpState' = v /\ v # NoByte
      <4>1. PumpStateToCome'
        BY <2>1, <3>2, SignalledToCome
      <4> QED
        BY <2>1, <4>1 DEF PumpStateInv, pumpVars
    <3>3. CASE t = "write" /\ pumpState' = v /\ v = NoByte
      BY <2>1, <3>3 DEF PumpStateInv, PumpStateAgrees, pumpVars
    <3> QED
      BY <2>1, <3>1, <3>2, <3>3
  <2>2. CASE SoftDeviceConnects
    BY <2>1, <2>2 DEF SoftDeviceConnects
  <2>3. CASE SoftDeviceIsWritten
    BY <2>1, <2>3 DEF SoftDeviceIsWritten
  <2>4. CASE SoftDeviceDisconnects
    BY <2>1, <2>4 DEF SoftDeviceDisconnects
  <2> QED
    BY <1>9, <2>2, <2>3, <2>4 DEF SoftDevice
<1> QED
  BY <1>3, <1>4, <1>5, <1>6, <1>7, <1>8, <1>9 DEF Next, Main

\* Once its writes are handled, attribute 0xA101 tells a central of no other run than the
\* one under way.
THEOREM PumpStateIsTruthful == Spec => []PumpStateTruthful
<1>1. Init => PumpInv /\ PumpStateInv
  BY DEF Init, PumpInv, PumpStateInv, PumpStateAgrees, BeforeLoop
<1>2. PumpStateInv => PumpStateTruthful
  BY DEF PumpStateInv, PumpStateTruthful, PumpSettled, PumpStateToCome, Queued
<1> QED
  BY <1>1, <1>2, TypeCorrect, PumpPreserved, PumpStatePreserved, PTL DEF Spec

-----------------------------------------------------------------------------
(***************************************************************************)
(* The client.                                                             *)
(***************************************************************************)
USE ClientAssumption

\* How often disconnect() can have raised where the background thread stands.
FailuresInv ==
  /\ thread \in {"unborn", "check", "disconnect", "stop"} => failures = 0
  /\ thread \in {"finally", "finallyStop"} => failures <= 1
  /\ main \in {"connect", "startThread"} => thread = "unborn"

\* Why a thread that tears down may do so: the time is up, there was an answer, or
\* main() has been through its loop already.
TeardownInv ==
  /\ thread \in {"disconnect", "stop"} => i = Checks
  /\ thread \in {"finally", "finallyStop"} => i = Checks \/ STOP_THREAD
  /\ STOP_THREAD => main \in {"disconnecting", "exited"}
  /\ main \in {"connect", "startThread", "finally", "disconnecting", "exited"} =>
       mainLoop # "running"
  /\ main \in {"answered", "answerStops"} => answered
  /\ WaitsForAnswer

ClientInv == ClientTypeOK /\ FailuresInv /\ TeardownInv

\* What turn_on_pump sends is a byte, and no more than a hundred seconds.
LEMMA ClampedIsAByte == \A n \in Requests : Clamp(n) \in 0 .. 100
BY DEF Clamp

\* Either thread, the library and the callbacks keep the invariant at every step.
LEMMA ClientPreserved == ClientInv /\ [ClientNext]_clientVars => ClientInv'
<1> SUFFICES ASSUME ClientInv, [ClientNext]_clientVars PROVE ClientInv'
  OBVIOUS
<1> USE DEF ClientInv, ClientTypeOK, FailuresInv, TeardownInv, WaitsForAnswer
<1>1. CASE UNCHANGED clientVars
  BY <1>1 DEF clientVars
<1>2. CASE Library
  BY <1>2 DEF Library, LinkComesUp, LinkIsLost, Disconnect
<1>3. CASE Dispatch
  <2>1. CASE ServicesResolved
    BY <2>1 DEF ServicesResolved
  <2>2. CASE Answer
    BY <2>2 DEF Answer
  <2> QED
    BY <1>3, <2>1, <2>2 DEF Dispatch
<1>4. CASE MainThread
  <2>1. CASE Connect
    BY <2>1 DEF Connect
  <2>2. CASE StartThread
    <3>1. /\ main = "startThread" /\ main' = "run" /\ thread' = "check"
          /\ UNCHANGED <<i, STOP_THREAD, mainLoop, linkVars, failures>>
      BY <2>2 DEF StartThread
    <3>2. ClientTypeOK'
      BY <3>1 DEF linkVars
    <3>3. ~STOP_THREAD
      BY <3>1
    <3>4. TeardownInv'
      BY <3>1, <3>3 DEF linkVars
    <3> QED
      BY <3>1, <3>2, <3>4
  <2>3. CASE Run
    <3>1. /\ main = "run" /\ main' = "running" /\ mainLoop' = "running"
          /\ UNCHANGED <<thread, i, STOP_THREAD, linkVars, failures>>
      BY <2>3 DEF Run
    <3>2. ClientTypeOK'
      BY <3>1 DEF linkVars
    <3>3. FailuresInv'
      BY <3>1
    <3>4. ~STOP_THREAD /\ (thread \in {"finally", "finallyStop"} => i = Checks)
      BY <3>1
    <3> QED
      BY <3>1, <3>2, <3>3, <3>4
  <2>4. CASE AnswerDisconnects
    BY <2>4 DEF AnswerDisconnects, Disconnect
  <2>5. CASE AnswerStops
    BY <2>5 DEF AnswerStops, ManagerStop, linkVars
  <2>6. CASE RunReturns
    BY <2>6 DEF RunReturns, linkVars
  <2>7. CASE StopThread
    BY <2>7 DEF StopThread, linkVars
  <2>8. CASE FinallyDisconnects
    BY <2>8 DEF FinallyDisconnects, Disconnect
  <2> QED
    BY <1>4, <2>1, <2>2, <2>3, <2>4, <2>5, <2>6, <2>7, <2>8 DEF MainThread
<1>5. CASE CheckThread
  <2>1. CASE SeeStopThread
    BY <2>1 DEF SeeStopThread, linkVars
  <2>2. CASE SleepHalfSecond
    BY <2>2 DEF SleepHalfSecond, linkVars
  <2>3. CASE GiveUp
    BY <2>3 DEF GiveUp, linkVars
  <2>4. CASE ThreadDisconnects
    BY <2>4 DEF ThreadDisconnects, Disconnect
  <2>5. CASE ThreadStops
    BY <2>5 DEF ThreadStops, ManagerStop, linkVars
  <2> QED
    BY <1>5, <2>1, <2>2, <2>3, <2>4, <2>5 DEF CheckThread
<1> QED
  BY <1>1, <1>2, <1>3, <1>4, <1>5 DEF ClientNext

LEMMA ClientInvariant == ClientSpec => []ClientInv
<1>1. ClientInit => ClientInv
  <2> SUFFICES ASSUME ClientInit PROVE ClientInv
    OBVIOUS
  <2>1. request \in {Read} \cup 0 .. 100
    BY ClampedIsAByte DEF ClientInit
  <2>2. STOP_THREAD = FALSE /\ asked = FALSE /\ answered = FALSE
    BY DEF ClientInit
  <2>3. STOP_THREAD \in BOOLEAN /\ asked \in BOOLEAN /\ answered \in BOOLEAN
    BY <2>2
  <2>4. ClientTypeOK
    BY <2>1, <2>3 DEF ClientInit, ClientTypeOK
  <2>5. FailuresInv /\ TeardownInv
    BY <2>2 DEF ClientInit, FailuresInv, TeardownInv, WaitsForAnswer
  <2> QED
    BY <2>4, <2>5 DEF ClientInv
<1> QED
  BY <1>1, ClientPreserved, PTL DEF ClientSpec

\* Every variable keeps its kind; the byte for the pump is one for whatever was typed,
\* and the background thread fails to disconnect at most twice.
THEOREM ClientTypeCorrect == ClientSpec => []ClientTypeOK
BY ClientInvariant, PTL DEF ClientInv

\* Neither thread tears the connection's loop down before an answer or the end of the
\* thirty checks.
THEOREM ClientWaits == ClientSpec => []WaitsForAnswer
BY ClientInvariant, PTL DEF ClientInv, TeardownInv
=============================================================================
