---------------------------- MODULE MCPumpClient ----------------------------
(***************************************************************************)
(* PumpClient for TLC.                                                     *)
(***************************************************************************)
EXTENDS PumpClient

\* Below, within and above what turn_on_pump lets pass.
SomeRequests == {-5, 0, 10, 300}
=============================================================================
