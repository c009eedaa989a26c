--------------------------- MODULE MCGattDiscovery ---------------------------
EXTENDS GattDiscovery

Char(uuid, long, handle) ==
  [uuid |-> uuid, long |-> long, handle |-> handle, value |-> handle + 1]
Table(end) ==
  {[uuid |-> "heart", long |-> FALSE, handle |-> 1, end |-> 8,
    chars |-> {Char("rate", FALSE, 2), Char("place", TRUE, 4), Char("reset", FALSE, 7)}],
   [uuid |-> "pump", long |-> TRUE, handle |-> 9, end |-> 10, chars |-> {}],
   [uuid |-> "clock", long |-> TRUE, handle |-> 11, end |-> end,
    chars |-> {Char("hand", TRUE, 12)}]}

\* The last service ends with the handles, or before.
SomePeers == {Table(14), Table(20)}

SomeFilters ==
  {[service |-> ANY, characteristic |-> ANY, wanted |-> TRUE],
   [service |-> ANY, characteristic |-> ANY, wanted |-> FALSE],
   [service |-> "clock", characteristic |-> "hand", wanted |-> TRUE]}
=============================================================================
