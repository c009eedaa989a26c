----------------------------- MODULE MCPstorage -----------------------------
EXTENDS Pstorage
\* Seven blocks of a word on three pages; or up to three modules of one block each.
\* No block lies across the end of a page.
MCRegistrations == {<<1, 7>>, <<3, 1>>}
\* A clear or update that begins and ends anywhere in its pages, or one of two stores;
\* then one that clears a page and part of the next, or keeps both ends of its page.
MCChosen(c) ==
  \/ /\ c.data = 1
     /\ CASE c.op_code = "store" -> c.block_id \in {0, 4}
          [] c.op_code = "update" -> c.block_id \in {0, 1, 2, 6}
          [] c.op_code = "clear" -> c.block_id \in {0, 1, 2, 6} /\ c.size # 1
  \/ c.data = 2 /\ \/ c.op_code = "update" /\ c.block_id + c.offset = 4 /\ c.size = 1
                   \/ c.op_code = "clear" /\ c.block_id = 1 /\ c.size = 4
\* The page of the platform file, shared by three blocks; one block is cleared.
MCOnePage == {<<1, 3>>}
MCClear(c) == c.op_code = "clear" /\ c.size = 1
=============================================================================
