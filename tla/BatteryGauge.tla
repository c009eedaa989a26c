---------------------------- MODULE BatteryGauge ----------------------------
(***************************************************************************)
(* The battery level of main.cpp: what the converter reads on p2, through  *)
(* the divider of R1 and R2, is the voltage of the battery, and that a     *)
(* percentage in the battery service.                                      *)
(***************************************************************************)
EXTENDS Integers

R1 == 6800
R2 == 680
RR_ADC_RANGE == 1023
REFERENCE_MILLIVOLTS == 1200

Int32 == {n \in Int : n >= -2147483648 /\ n <= 2147483647}
Readings == 0 .. RR_ADC_RANGE

\* (int)(LAST_BATTERY_VOLTAGE * 1000).  The float is a little off; that matters
\* to the integer only where the exact voltage is one.
Numerator(reading) == reading * REFERENCE_MILLIVOLTS * (R1 + R2)
MilliVolts(reading) ==
  LET exact == Numerator(reading) \div (RR_ADC_RANGE * R2)
  IN {exact} \cup IF reading > 0 /\ Numerator(reading) % (RR_ADC_RANGE * R2) = 0
                  THEN {exact - 1} ELSE {}

\* Division in C, towards zero.
Quotient(a, b) == IF a >= 0 THEN a \div b ELSE -((-a) \div b)

Within(ret, out_min, out_max) ==
  IF ret > out_max THEN out_max ELSE IF ret < out_min THEN out_min ELSE ret

map(x, in_min, in_max, out_min, out_max) ==
  Within(Quotient((x - in_min) * (out_max - out_min), in_max - in_min) + out_min,
         out_min, out_max)

Percent(mV) == map(mV, 1800, 3200, 0, 100)
=============================================================================
