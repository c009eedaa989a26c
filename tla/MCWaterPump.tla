---------------------------- MODULE MCWaterPump ----------------------------
(***************************************************************************)
(* WaterPump for TLC: the values the run gives to its constants.           *)
(***************************************************************************)
EXTENDS WaterPump

\* A write of zero and one that lasts beyond the tick it falls in.
SomeSeconds == {0, 2}
=============================================================================
