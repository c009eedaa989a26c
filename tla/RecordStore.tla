---------------------------- MODULE RecordStore ----------------------------
(***************************************************************************)
(* What fds promises its clients: a set of records that grows by a record  *)
(* being written and shrinks by a record being cleared, one at a time, and *)
(* that nothing else changes: no garbage collection, no formatting, no     *)
(* other user of the flash and no loss of power.                           *)
(***************************************************************************)
VARIABLES store,      \* the records
          writing,    \* the records the running request may add
          clearing    \* the records the running request may remove

vars == <<store, writing, clearing>>

Init == store = {} /\ writing = {} /\ clearing = {}

Add == \E r \in writing : store' = store \cup {r}

Remove == \E r \in clearing : store' = store \ {r}

\* Requests come, are finished, and are forgotten when power is lost.
Turn == UNCHANGED store

Next == Add \/ Remove \/ Turn

Spec == Init /\ [][Next]_vars
=============================================================================
