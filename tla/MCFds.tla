------------------------------- MODULE MCFds -------------------------------
EXTENDS FdsRecords
CONSTANTS Writes, Updates, Clears, ClearInsts, Gcs, Finds, Opens, Reserves, Faults, Losses, All
MCLimit == [write |-> Writes, update |-> Updates, clear |-> Clears, clear_inst |-> ClearInsts,
            gc |-> Gcs, find |-> Finds, open |-> Opens, reserve |-> Reserves,
            fault |-> Faults, loss |-> Losses, all |-> All]
MCChunkLists == {<<1>>, <<1, 1>>}
=============================================================================
