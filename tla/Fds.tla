-------------------------------- MODULE Fds --------------------------------
(***************************************************************************)
(* The records of the flash data storage (fds.c) on the flash of Fstorage: *)
(* commands are queued and executed one flash operation at a time, and the *)
(* garbage collection moves the records of a page to the swap page.  The   *)
(* calls of the client and the flash events are dispatched in the main     *)
(* context, each to its end (the critical sections are empty macros, so    *)
(* nothing else would do): one action each.                                *)
(***************************************************************************)
EXTENDS Fstorage, FiniteSetsExt

CONSTANTS FDS_CMD_QUEUE_SIZE, FDS_CHUNK_QUEUE_SIZE,
          ChunkLists,   \* bound: the lengths of the chunks a record is given in
          MaxId,        \* an erased word read as a record ID; IDs wrap behind it
          Slots,        \* the descriptors of the client; also its instance keys
          Patient       \* while a collection is queued the client asks for no other,
                        \* searches for no record and opens none

VARIABLES desc,    \* the descriptors, by slot
          open,    \* the open record of a slot: where, and what was there
          token    \* the reservation of the client

vars == <<flash, e, used, desc, open, token>>
client == <<desc, open, token>>

FDS_PAGE_TAG_SIZE == 4
FDS_HEADER_SIZE == 3
OFFSET_TL == 0
OFFSET_IC == 1
OFFSET_ID == 2
OFFSET_DATA == 3
NULL == -1

PageTag(word0, word3) == <<<<"tag0", word0>>, <<"tag1">>, <<"tag2">>, <<"tag3", word3>>>>
fds_page_tag_swap == PageTag("swap", "plain")
fds_page_tag_valid == PageTag("valid", "plain")

\* What is written, apart from the tags: the headers, and the data of the clients.
HeadWords == {TL(n, valid) : n \in 0 .. TooLong, valid \in {"valid", "invalid"}}
             \cup {<<"ID", n>> : n \in 0 .. MaxId} \cup {<<"IC", s>> : s \in Slots}
DataWords == {<<"data", n, i, j>> : n \in 1 .. Limit["write"] + Limit["update"],
                                    i \in 1 .. FDS_CHUNK_QUEUE_SIZE, j \in 1 .. FS_PAGE_SIZE_WORDS}
TagWords == {fds_page_tag_swap[i] : i \in 1 .. FDS_PAGE_TAG_SIZE}
            \cup {fds_page_tag_valid[i] : i \in 1 .. FDS_PAGE_TAG_SIZE} \cup {<<"tag3", "gc">>}

ASSUME FdsAssumption ==
  /\ FDS_CMD_QUEUE_SIZE \in Nat \ {0, 1} /\ FDS_CHUNK_QUEUE_SIZE \in Nat
  /\ MaxId \in Nat \ {0} /\ Patient \in BOOLEAN
  /\ FS_PAGE_SIZE_WORDS > FDS_PAGE_TAG_SIZE
  /\ Limit \in [{"write", "update", "clear", "clear_inst", "gc", "find", "open", "reserve",
                 "fault", "loss", "all"} -> Nat]
  /\ \A lengths \in ChunkLists : lengths # <<>> /\ lengths \in Seq(Nat \ {0})
  /\ {Erased, Mixed} \cap (HeadWords \cup DataWords \cup TagWords) = {}

(***************************************************************************)
(* Reading pages.  f is the flash as the handler finds it.                 *)
(***************************************************************************)
\* An erased or a stray word reads as a length far beyond the flash.
LengthWords(w) == IF IsTL(w) THEN w[2] ELSE TooLong
NextRecord(f, a) == a + FDS_HEADER_SIZE + LengthWords(f[a])

\* Where a walk from header to header begun at a ends: an erased word, or end.
ScanEnd(f, from, end) ==
  LET walk[a \in 0 .. 3 * FDS_MAX_PAGES * FS_PAGE_SIZE_WORDS] ==
        IF a >= end \/ f[a] = Erased THEN a ELSE walk[NextRecord(f, a)]
  IN walk[from]

\* The headers such a walk meets.
Headers(f, from, end) ==
  LET walk[a \in 0 .. 3 * FDS_MAX_PAGES * FS_PAGE_SIZE_WORDS] ==
        IF a >= end \/ f[a] = Erased THEN {} ELSE {a} \cup walk[NextRecord(f, a)]
  IN walk[from]

Base(p) == StartAddr(p) + FDS_PAGE_TAG_SIZE
EndAddr(p) == StartAddr(p) + FS_PAGE_SIZE_WORDS
HeadersOf(f, p) == Headers(f, Base(p), EndAddr(p))

HeaderIsValid(f, a) == IsTL(f[a]) /\ f[a][3] = "valid" /\ f[a + OFFSET_IC] # Erased
IdAt(f, a) == IF f[a + OFFSET_ID] = Erased THEN MaxId ELSE f[a + OFFSET_ID][2]
InstanceAt(f, a) == f[a + OFFSET_IC][2]

ValidIn(f, p) == {a \in HeadersOf(f, p) : HeaderIsValid(f, a)}

PageTypes == {"UNDEFINED", "ERASED", "VALID", "SWAP", "GC"}

\* page_identify, and page_is_empty for a page it does not know.
PageIdentify(f, p) ==
  LET tag == [i \in 1 .. FDS_PAGE_TAG_SIZE |-> f[StartAddr(p) + i - 1]]
  IN CASE tag = fds_page_tag_swap -> "SWAP"
       [] tag = fds_page_tag_valid -> "VALID"
       [] tag \in {PageTag("swap", "gc"), PageTag("valid", "gc")} -> "GC"
       [] \A a \in StartAddr(p) .. EndAddr(p) - 1 : f[a] = Erased -> "ERASED"
       [] OTHER -> "UNDEFINED"

(***************************************************************************)
(* The RAM of fds.c, as it is before fds_init().                           *)
(***************************************************************************)
Command(id, op_code) ==
  [id |-> id, op_code |-> op_code, num_chunks |-> 0, chunk_offset |-> OFFSET_DATA,
   vpage_id |-> 0, record_id |-> 0, length_words |-> 0, instance |-> 0,
   data |-> <<>>]   \* its chunks, for the properties

PageData == [page_type |-> "UNDEFINED", vpage_id |-> 0, write_offset |-> 0,
             words_reserved |-> 0, records_open |-> 0]

Engine ==
  [fs_queue |-> FsRam.fs_queue, fs_flags |-> FsRam.fs_flags,
   m_retry_count |-> FsRam.m_retry_count, reported |-> FsRam.reported,
   result |-> FsRam.result, sd |-> FsRam.sd, events |-> FsRam.events,
   m_flags |-> {},              \* INITIALIZING, INITIALIZED, PROCESSING
   m_last_rec_id |-> 0,
   m_cmd_queue |-> <<>>, m_chunk_queue |-> <<>>,
   m_pages |-> [p \in Page |-> PageData],
   m_swap_page_avail |-> FALSE,
   m_gc |-> [state |-> "NONE", cur_page |-> 0, swap_page |-> 0, p_scan_addr |-> NULL,
             do_gc_page |-> {}],
   m_gc_runs |-> 0,
   tok |-> <<>>,                \* where the clearing of an instance has come to
   stack |-> NULL,              \* p_rec of the last desc of clear_execute, as long as
                                \* its gc_magic is m_gc_runs
   kept |-> FALSE]              \* does the new desc find it there

Cmd(x) == Head(x.m_cmd_queue)
Data(x, p) == x.m_pages[p]
PageOf(x, vpage) == CHOOSE p \in Page : Data(x, p).vpage_id = vpage
WriteAddr(x, p) == StartAddr(p) + Data(x, p).write_offset

\* What an executed step says: it waits for the flash, the command is complete, or why
\* it has failed.
Says(x, result) == [x |-> x, ret |-> result]
Executing(x) == Says(x, "EXECUTING")
Completed(x) == Says(x, "COMPLETED")

(***************************************************************************)
(* Looking for records.                                                    *)
(***************************************************************************)
\* seek_record, with a descriptor that names a page and holds no pointer.
SeekRecord(x, f, vpage, id) ==
  LET found == {a \in ValidIn(f, PageOf(x, vpage)) : IdAt(f, a) = id}
  IN IF found = {} THEN NULL ELSE Min(found)

\* The records find_record can come to, as pairs of virtual page and address.
Visible(x, f) ==
  UNION {{<<Data(x, p).vpage_id, a>> : a \in ValidIn(f, p)}
           : p \in {i \in Page : Data(x, i).page_type = "VALID"}}

Before(va, vb) == va[1] < vb[1] \/ (va[1] = vb[1] /\ va[2] < vb[2])

\* find_record by instance, past the record of the token: the next one, or <<>>.
FindRecord(x, f, instance, tok) ==
  LET found == {va \in Visible(x, f) : /\ InstanceAt(f, va[2]) = instance
                                       /\ (tok = <<>> \/ Before(tok, va))}
  IN IF found = {} THEN <<>> ELSE CHOOSE va \in found : \A vb \in found \ {va} : Before(va, vb)

(***************************************************************************)
(* Formatting the pages.                                                   *)
(***************************************************************************)
InitExecute(x, ok, dst) ==
  LET cur == IF dst = NULL THEN 0 ELSE (dst \div FS_PAGE_SIZE_WORDS) + 1
      blank == {p \in Page : p >= cur /\ Data(x, p).page_type = "ERASED"}
      p == Min(blank)
  IN CASE ~ok -> Says(x, x.result)
       [] ok /\ cur = FDS_MAX_PAGES ->
            Completed([x EXCEPT !.m_flags = (@ \ {"INITIALIZING"}) \cup {"INITIALIZED"}])
       [] ok /\ cur # FDS_MAX_PAGES /\ blank = {} -> 
            IF x.m_swap_page_avail THEN Completed(x) ELSE Executing(x)
       [] OTHER ->
            IF x.m_swap_page_avail
            THEN Executing([FsStore(x, StartAddr(p), fds_page_tag_valid)
                              EXCEPT !.m_pages[p].page_type = "VALID"])
            ELSE Executing([FsStore(x, StartAddr(p), fds_page_tag_swap)
                              EXCEPT !.m_pages[p].page_type = "SWAP",
                                     !.m_swap_page_avail = TRUE, !.m_gc.swap_page = p])

(***************************************************************************)
(* Writing a record: TL, ID, the chunks, and IC, which makes it valid.     *)
(***************************************************************************)
\* A plausible fault: of a record's words its header is forgotten.
SettledHeaderless(x) ==
  LET p == PageOf(x, Cmd(x).vpage_id)
      n == Cmd(x).chunk_offset - OFFSET_DATA
  IN [x EXCEPT !.m_pages[p].write_offset = @ + n, !.m_pages[p].words_reserved = @ - n]

\* The words of the record, or of what has been written of it, are taken.
Settled(x) ==
  LET p == PageOf(x, Cmd(x).vpage_id)
      n == FDS_HEADER_SIZE + Cmd(x).chunk_offset - OFFSET_DATA
  IN [x EXCEPT !.m_pages[p].write_offset = @ + n, !.m_pages[p].words_reserved = @ - n]

\* A plausible fault: IC is written before the chunks.
StoreExecuteValidFirst(x, ok) ==
  LET c == Cmd(x)
      addr == WriteAddr(x, PageOf(x, c.vpage_id))
      Step(dst, words, next) ==
        Executing([FsStore(x, dst, words) EXCEPT !.m_cmd_queue[1].op_code = next])
  IN CASE ~ok -> Says(Settled(x), x.result)
       [] ok /\ c.op_code = "WRITE_TL" ->
            Step(addr + OFFSET_TL, <<TL(c.length_words, "valid")>>, "WRITE_ID")
       [] ok /\ c.op_code = "WRITE_ID" ->
            Step(addr + OFFSET_ID, <<<<"ID", c.record_id>>>>, "WRITE_IC")
       [] ok /\ c.op_code = "WRITE_IC" ->
            Step(addr + OFFSET_IC, <<<<"IC", c.instance>>>>, "WRITE_CHUNK")
       [] ok /\ c.op_code = "WRITE_CHUNK" ->
            LET chunk == Head(x.m_chunk_queue)
            IN Executing([FsStore(x, addr + c.chunk_offset, chunk) EXCEPT
                            !.m_chunk_queue = Tail(@),
                            !.m_cmd_queue[1].num_chunks = @ - 1,
                            !.m_cmd_queue[1].chunk_offset = @ + Len(chunk),
                            !.m_cmd_queue[1].op_code =
                              IF c.num_chunks = 1 THEN "DONE" ELSE "WRITE_CHUNK"])
       [] OTHER -> Completed(Settled(x))

StoreExecute(x, ok) ==
  LET c == Cmd(x)
      addr == WriteAddr(x, PageOf(x, c.vpage_id))
      Step(dst, words, next) ==
        Executing([FsStore(x, dst, words) EXCEPT !.m_cmd_queue[1].op_code = next])
  IN CASE ~ok -> Says(Settled(x), x.result)
       [] ok /\ c.op_code = "WRITE_TL" ->
            Step(addr + OFFSET_TL, <<TL(c.length_words, "valid")>>, "WRITE_ID")
       [] ok /\ c.op_code = "WRITE_ID" ->
            Step(addr + OFFSET_ID, <<<<"ID", c.record_id>>>>, "WRITE_CHUNK")
       [] ok /\ c.op_code = "WRITE_CHUNK" ->
            LET chunk == Head(x.m_chunk_queue)
            IN Executing([FsStore(x, addr + c.chunk_offset, chunk) EXCEPT
                            !.m_chunk_queue = Tail(@),
                            !.m_cmd_queue[1].num_chunks = @ - 1,
                            !.m_cmd_queue[1].chunk_offset = @ + Len(chunk),
                            !.m_cmd_queue[1].op_code =
                              IF c.num_chunks = 1 THEN "WRITE_IC" ELSE "WRITE_CHUNK"])
       [] ok /\ c.op_code = "WRITE_IC" ->
            Step(addr + OFFSET_IC, <<<<"IC", c.instance>>>>, "DONE")
       [] OTHER -> Completed(Settled(x))

(***************************************************************************)
(* Clearing: one record, or record after record those of an instance.  The *)
(* descriptor of clear_execute is a local variable nobody initialises: if  *)
(* the one of an earlier call is still on the stack, and no collection has *)
(* begun since, its pointer is taken and the record is not looked for.     *)
(***************************************************************************)
ClearAt(x, a) == [FsStore(x, a, <<TLInvalid>>) EXCEPT !.stack = a]

ClearExecute(x, ok, f) ==
  LET c == Cmd(x)
      Done(y) == [y EXCEPT !.m_cmd_queue[1].op_code = "DONE"]
      a == IF x.kept /\ x.stack # NULL THEN x.stack
           ELSE SeekRecord(x, f, c.vpage_id, c.record_id)
      next == FindRecord(x, f, c.instance, x.tok)
  IN CASE ~ok -> Says(x, x.result)
       [] ok /\ c.op_code = "CLEAR_TL" ->
            IF a = NULL THEN Says(Done(x), "NOT_FOUND")
            ELSE Executing(Done([ClearAt(x, a) EXCEPT
                                   !.m_cmd_queue[1].instance = InstanceAt(f, a)]))
       [] ok /\ c.op_code = "CLEAR_INSTANCE" ->
            IF next = <<>> THEN Completed(Done([x EXCEPT !.tok = <<>>]))
            ELSE Executing([ClearAt(x, next[2]) EXCEPT !.tok = next])
       [] OTHER -> Completed(x)

(***************************************************************************)
(* Collecting: page after page is tagged, its records are copied to the    *)
(* swap page, that is tagged valid and takes the place of the page, and    *)
(* the page is erased and tagged as the new swap page.                     *)
(***************************************************************************)
\* A plausible fault: the open records of a page are not looked at.
GcPageOpen(x) ==
  LET p == Min(x.m_gc.do_gc_page)
  IN IF x.m_gc.do_gc_page = {}
     THEN Completed([x EXCEPT !.m_gc.state = "BEGIN", !.m_gc.cur_page = 0,
                              !.m_gc.p_scan_addr = NULL])
     ELSE Executing([FsStore(x, StartAddr(p) + 3, <<<<"tag3", "gc">>>>) EXCEPT
                       !.m_gc.state = "GC_PAGE", !.m_gc.cur_page = p,
                       !.m_gc.do_gc_page = {i \in @ : i > p}])

GcPage(x) ==
  LET free == {p \in x.m_gc.do_gc_page : Data(x, p).records_open = 0}
      p == Min(free)
  IN IF free = {}
     THEN Completed([x EXCEPT !.m_gc.state = "BEGIN", !.m_gc.cur_page = 0,
                              !.m_gc.p_scan_addr = NULL, !.m_gc.do_gc_page = {}])
     ELSE Executing([FsStore(x, StartAddr(p) + 3, <<<<"tag3", "gc">>>>) EXCEPT
                       !.m_gc.state = "GC_PAGE", !.m_gc.cur_page = p,
                       !.m_gc.do_gc_page = {i \in @ : i > p}])

GcSeekRecord(x, f) ==
  LET gc == x.m_gc
      from == IF gc.p_scan_addr = NULL THEN Base(gc.cur_page)
              ELSE NextRecord(f, gc.p_scan_addr)
      found == {a \in Headers(f, from, EndAddr(gc.cur_page)) : HeaderIsValid(f, a)}
      a == Min(found)
      n == FDS_HEADER_SIZE + LengthWords(f[a])
  IN IF found # {}
     THEN Executing([FsStore(x, WriteAddr(x, gc.swap_page), [i \in 1 .. n |-> f[a + i - 1]])
                       EXCEPT !.m_gc.state = "COPY_RECORD", !.m_gc.p_scan_addr = a,
                              !.m_pages[gc.swap_page].write_offset = @ + n])
     ELSE Executing([FsStore(x, StartAddr(gc.swap_page), fds_page_tag_valid)
                       EXCEPT !.m_gc.state = "READY_SWAP"])

\* A plausible fault: what is reserved on the page is not moved with it.
GcNewSwapPageUnreserved(x) ==
  LET swap == x.m_gc.swap_page
      cur == x.m_gc.cur_page
  IN Executing(CmdEnqueue(
       [x EXCEPT !.m_gc.state = "NEW_SWAP", !.m_gc.swap_page = cur,
                 !.m_pages[swap].page_type = "VALID",
                 !.m_pages[swap].vpage_id = Data(x, cur).vpage_id,
                 !.m_pages[cur] = [@ EXCEPT !.page_type = "SWAP", !.words_reserved = 0,
                                            !.vpage_id = Data(x, swap).vpage_id,
                                            !.write_offset = FDS_PAGE_TAG_SIZE]], Erase(cur)))

\* A plausible fault: the new page stays a swap page for the searches.
GcNewSwapPageUnseen(x) ==
  LET swap == x.m_gc.swap_page
      cur == x.m_gc.cur_page
  IN Executing(CmdEnqueue(
       [x EXCEPT !.m_gc.state = "NEW_SWAP", !.m_gc.swap_page = cur,
                 !.m_pages[swap].vpage_id = Data(x, cur).vpage_id,
                 !.m_pages[swap].words_reserved = Data(x, cur).words_reserved,
                 !.m_pages[cur] = [@ EXCEPT !.page_type = "SWAP", !.words_reserved = 0,
                                            !.vpage_id = Data(x, swap).vpage_id,
                                            !.write_offset = FDS_PAGE_TAG_SIZE]], Erase(cur)))

GcNewSwapPage(x) ==
  LET swap == x.m_gc.swap_page
      cur == x.m_gc.cur_page
  IN Executing(CmdEnqueue(
       [x EXCEPT !.m_gc.state = "NEW_SWAP", !.m_gc.swap_page = cur,
                 !.m_pages[swap].page_type = "VALID",
                 !.m_pages[swap].vpage_id = Data(x, cur).vpage_id,
                 !.m_pages[swap].words_reserved = Data(x, cur).words_reserved,
                 !.m_pages[cur] = [@ EXCEPT !.page_type = "SWAP", !.words_reserved = 0,
                                            !.vpage_id = Data(x, swap).vpage_id,
                                            !.write_offset = FDS_PAGE_TAG_SIZE]], Erase(cur)))

GcBegin(x) ==
  GcPage([x EXCEPT !.m_gc_runs = @ + 1, !.stack = NULL,
                   !.m_gc.do_gc_page = {p \in Page : Data(x, p).page_type = "VALID"}])

GcExecute(x, ok, f) ==
  CASE ~ok -> Says(x, x.result)
    [] ok /\ x.m_gc.state = "BEGIN" -> GcBegin(x)
    [] ok /\ x.m_gc.state \in {"GC_PAGE", "COPY_RECORD"} -> GcSeekRecord(x, f)
    [] ok /\ x.m_gc.state = "READY_SWAP" -> GcNewSwapPage(x)
    [] ok /\ x.m_gc.state = "NEW_SWAP" ->
         Executing([FsStore(x, StartAddr(x.m_gc.swap_page), fds_page_tag_swap)
                      EXCEPT !.m_gc.state = "INIT_SWAP"])
    [] OTHER -> GcPage([x EXCEPT !.m_gc.p_scan_addr = NULL])

(***************************************************************************)
(* The queue.                                                              *)
(***************************************************************************)
Execute(x, ok, dst, f) ==
  CASE Cmd(x).id = "INIT" -> InitExecute(x, ok, dst)
    [] Cmd(x).id \in {"WRITE", "UPDATE"} -> StoreExecute(x, ok)
    [] Cmd(x).id \in {"CLEAR", "CLEAR_INST"} -> ClearExecute(x, ok, f)
    [] Cmd(x).id = "GC" -> GcExecute(x, ok, f)

\* Begins the command at the head.  That it failed, or is complete already, nobody
\* hears of: it stays at the head.
CmdQueueProcess(x, f) == Execute(x, TRUE, NULL, f).x

CmdQueueProcessStart(x, f) ==
  IF "PROCESSING" \in x.m_flags THEN x
  ELSE CmdQueueProcess([x EXCEPT !.m_flags = @ \cup {"PROCESSING"}], f)

\* chunk_queue_skip moves no read pointer: it is the last chunks that go.
ChunkQueueSkip(x, n) ==
  IF n <= Len(x.m_chunk_queue)
  THEN [x EXCEPT !.m_chunk_queue = SubSeq(@, 1, Len(@) - n)] ELSE x

\* A plausible fault: the command that follows is left to the next call of a client.
AdvanceWithoutNext(done, f) ==
  IF done.ret = "EXECUTING" THEN done.x
  ELSE [done.x EXCEPT !.m_cmd_queue = Tail(@), !.m_flags = @ \ {"PROCESSING"}]

\* What fs_callback does once the command has been executed: if it has come to its end
\* its client is told, and the next one begins.
Advance(done, f) ==
  LET y == IF done.ret = "COMPLETED" THEN done.x
           ELSE ChunkQueueSkip(done.x, Cmd(done.x).num_chunks)
      z == [y EXCEPT !.m_cmd_queue = Tail(@)]
  IN CASE done.ret = "EXECUTING" -> done.x
       [] done.ret # "EXECUTING" /\ z.m_cmd_queue # <<>> -> CmdQueueProcess(z, f)
       [] OTHER -> [z EXCEPT !.m_flags = @ \ {"PROCESSING"}]

\* The flash operation x.reported has ended with x.result.
FsCallback(x, f) == Execute(x, x.result = "SUCCESS", x.reported.dst, f)

-----------------------------------------------------------------------------
Init ==
  /\ flash = [a \in Address |-> Erased]
  /\ e = Engine
  /\ used = [kind \in DOMAIN Limit |-> 0]
  /\ desc = [s \in Slots |-> <<>>] /\ open = [s \in Slots |-> <<>>] /\ token = <<>>

Initialized == "INITIALIZED" \in e.m_flags
Collecting(x) == \E n \in DOMAIN x.m_cmd_queue : x.m_cmd_queue[n].id = "GC"
MayLook == Patient => ~Collecting(e)

\* The handler is run from x, with either outcome for the stack of clear_execute.
Runs(x, Handler(_)) ==
  \E y \in {[x EXCEPT !.kept = kept] : kept \in BOOLEAN} :
    e' = [Handler(y) EXCEPT !.kept = FALSE]

\* What pages_init finds on the flash: the pages of a type, and what it notes of a page.
OfType(f, type) == {p \in Page : PageIdentify(f, p) = type}
FoundPage(f, p) ==
  [page_type |-> PageIdentify(f, p), vpage_id |-> p, words_reserved |-> 0, records_open |-> 0,
   write_offset |-> IF PageIdentify(f, p) = "VALID"
                    THEN ScanEnd(f, Base(p), EndAddr(p)) - StartAddr(p)
                    ELSE FDS_PAGE_TAG_SIZE]
IdsUsed(f) == {IdAt(f, a) : a \in UNION {HeadersOf(f, p) : p \in OfType(f, "VALID")}}

PagesInit(x, f) ==
  LET swap == OfType(f, "SWAP")
      gc == OfType(f, "GC")
  IN [x EXCEPT !.m_last_rec_id = Max({0} \cup IdsUsed(f)),
               !.m_pages = [p \in Page |-> FoundPage(f, p)],
               !.m_swap_page_avail = @ \/ swap # {},
               !.m_gc.swap_page = IF swap = {} THEN @ ELSE Max(swap),
               !.m_gc.cur_page = IF gc = {} THEN @ ELSE Max(gc),
               !.m_gc.state = IF gc = {} THEN @ ELSE "GC_PAGE"]

\* fds_init as far as it comes, once the pages are known.
Flagged(x, flags) == [x EXCEPT !.m_flags = @ \cup flags]

FdsInit ==
  LET x == PagesInit(e, flash)
      valid == OfType(flash, "VALID")
      blank == OfType(flash, "ERASED")
      gc == OfType(flash, "GC")
  IN /\ ~Initialized /\ "INITIALIZING" \notin e.m_flags
     /\ e' = CASE valid = {} /\ blank = {} -> x
               [] (valid # {} \/ blank # {}) /\ gc # {} -> Flagged(x, {"INITIALIZING"})
               [] (valid # {} \/ blank # {}) /\ gc = {} /\ blank = {} -> Flagged(x, {"INITIALIZED"})
               [] OTHER -> CmdQueueProcessStart(
                             [Flagged(x, {"INITIALIZING"}) EXCEPT
                                !.m_cmd_queue = <<Command("INIT", "NONE")>>], flash)
     /\ UNCHANGED <<flash, used, client>>

(***************************************************************************)
(* The calls of the client.  One that returns an error changes nothing.    *)
(***************************************************************************)
\* A plausible fault: the command to come is not counted.
RoomForOneMore(x, num_cmd, num_chunks) ==
  /\ Len(x.m_cmd_queue) <= FDS_CMD_QUEUE_SIZE
  /\ Len(x.m_chunk_queue) <= FDS_CHUNK_QUEUE_SIZE - num_chunks

RoomFor(x, num_cmd, num_chunks) ==
  /\ Len(x.m_cmd_queue) <= FDS_CMD_QUEUE_SIZE - num_cmd
  /\ Len(x.m_chunk_queue) <= FDS_CHUNK_QUEUE_SIZE - num_chunks

PageHasSpace(x, p, n) ==
  n + Data(x, p).write_offset + Data(x, p).words_reserved < FS_PAGE_SIZE_WORDS

\* The pages a record of n words fits on.
Spacious(x, n) ==
  {p \in Page : Data(x, p).page_type = "VALID" /\ PageHasSpace(x, p, FDS_HEADER_SIZE + n)}

Reserved(x, p, n) == [x EXCEPT !.m_pages[p].words_reserved = @ + FDS_HEADER_SIZE + n]

SumOf(lengths) == LET sum[n \in 0 .. Len(lengths)] == IF n = 0 THEN 0 ELSE sum[n - 1] + lengths[n]
                  IN sum[Len(lengths)]

\* How many records have been asked for; a record is made of data of its own.
Written == used["write"] + used["update"]
Chunk(i, n) == [j \in 1 .. n |-> <<"data", Written + 1, i, j>>]

\* The commands of a record on vpage, put in the queues.
Queued(x, id, lengths, instance, vpage) ==
  LET new == (x.m_last_rec_id + 1) % (MaxId + 1)
      chunks == [i \in 1 .. Len(lengths) |-> Chunk(i, lengths[i])]
      c == [Command(id, "WRITE_TL") EXCEPT
              !.num_chunks = Len(lengths), !.vpage_id = vpage, !.record_id = new,
              !.length_words = SumOf(lengths), !.instance = instance,
              !.data = chunks]
  IN [x EXCEPT !.m_last_rec_id = new, !.m_cmd_queue = Append(@, c),
               !.m_chunk_queue = @ \o chunks]

Descriptor(vpage, id, p_rec, gc_magic) ==
  [vpage_id |-> vpage, record_id |-> id, p_rec |-> p_rec, gc_magic |-> gc_magic]

FdsWrite(s) ==
  /\ Initialized /\ desc[s] = <<>>
  /\ Spend("write")
  /\ \E lengths \in ChunkLists :
       LET room == Spacious(e, SumOf(lengths))
           p == Min(room)
           x == Queued(Reserved(e, p, SumOf(lengths)), "WRITE", lengths, s, Data(e, p).vpage_id)
       IN /\ RoomFor(e, 1, Len(lengths)) /\ room # {}
          /\ Runs(x, LAMBDA y : CmdQueueProcessStart(y, flash))
          /\ desc' = [desc EXCEPT ![s] =
                        Descriptor(Data(e, p).vpage_id, x.m_last_rec_id, NULL, 0)]
  /\ UNCHANGED <<flash, open, token>>

\* The descriptor is left with the page of the new record and the ID of the old one.
FdsUpdate(s) ==
  /\ Initialized /\ desc[s] # <<>> /\ open[s] = <<>>
  /\ Spend("update")
  /\ \E lengths \in ChunkLists :
       LET room == Spacious(e, SumOf(lengths))
           p == Min(room)
           x == Queued(Reserved(e, p, SumOf(lengths)), "UPDATE", lengths, s, Data(e, p).vpage_id)
           c == [Command("CLEAR", "CLEAR_TL") EXCEPT
                   !.vpage_id = desc[s].vpage_id, !.record_id = desc[s].record_id]
       IN /\ RoomFor(e, 2, Len(lengths)) /\ room # {}
          /\ Runs([x EXCEPT !.m_cmd_queue = Append(@, c)],
                  LAMBDA y : CmdQueueProcessStart(y, flash))
          /\ desc' = [desc EXCEPT ![s].vpage_id = Data(e, p).vpage_id]
  /\ UNCHANGED <<flash, open, token>>

FdsReserve ==
  /\ Initialized /\ token = <<>>
  /\ Spend("reserve")
  /\ \E lengths \in ChunkLists :
       LET room == Spacious(e, SumOf(lengths))
           p == Min(room)
       IN /\ room # {}
          /\ e' = Reserved(e, p, SumOf(lengths))
          /\ token' = [vpage_id |-> Data(e, p).vpage_id, lengths |-> lengths]
  /\ UNCHANGED <<flash, desc, open>>

\* The words of the header stay reserved.
FdsReserveCancel ==
  /\ Initialized /\ token # <<>>
  /\ e' = [e EXCEPT !.m_pages[PageOf(e, token.vpage_id)].words_reserved =
                      @ - SumOf(token.lengths)]
  /\ token' = <<>>
  /\ UNCHANGED <<flash, used, desc, open>>

\* The record has the length that was reserved for it.
FdsWriteReserved(s) ==
  /\ Initialized /\ token # <<>> /\ desc[s] = <<>>
  /\ Spend("write")
  /\ RoomFor(e, 1, Len(token.lengths))
  /\ LET x == Queued(e, "WRITE", token.lengths, s, token.vpage_id)
     IN /\ Runs(x, LAMBDA y : CmdQueueProcessStart(y, flash))
        /\ desc' = [desc EXCEPT ![s] = Descriptor(token.vpage_id, x.m_last_rec_id, NULL, 0)]
  /\ token' = <<>>
  /\ UNCHANGED <<flash, open>>

\* fds_clear, fds_clear_by_instance and fds_gc.
Enqueue(c, kind) ==
  /\ Initialized
  /\ Spend(kind)
  /\ RoomFor(e, 1, 0)
  /\ Runs([e EXCEPT !.m_cmd_queue = Append(@, c),
                    !.m_gc.state = IF c.id = "GC" THEN "BEGIN" ELSE @],
          LAMBDA x : CmdQueueProcessStart(x, flash))
  /\ UNCHANGED <<flash, client>>

FdsClear(s) ==
  /\ desc[s] # <<>>
  /\ Enqueue([Command("CLEAR", "CLEAR_TL") EXCEPT
                !.vpage_id = desc[s].vpage_id, !.record_id = desc[s].record_id], "clear")

FdsClearByInstance(s) ==
  Enqueue([Command("CLEAR_INST", "CLEAR_INSTANCE") EXCEPT !.instance = s], "clear_inst")

FdsGc == MayLook /\ Enqueue(Command("GC", "NONE"), "gc")

\* fds_find with any key, called as often as it takes to come to the record wanted.
FdsFind(s) ==
  /\ Initialized /\ MayLook /\ desc[s] = <<>>
  /\ Spend("find")
  /\ \E va \in Visible(e, flash) :
       desc' = [desc EXCEPT ![s] = Descriptor(va[1], IdAt(flash, va[2]), va[2], e.m_gc_runs)]
  /\ UNCHANGED <<flash, e, open, token>>

\* The record at a, as its opener has it.
RecordAt(f, a) == [addr |-> a, data |-> [i \in 1 .. LengthWords(f[a]) |-> f[a + OFFSET_DATA + i - 1]]]

FdsOpen(s) ==
  /\ Initialized /\ MayLook /\ desc[s] # <<>> /\ open[s] = <<>>
  /\ Spend("open")
  /\ LET d == desc[s]
         a == IF d.p_rec # NULL /\ d.gc_magic = e.m_gc_runs THEN d.p_rec
              ELSE SeekRecord(e, flash, d.vpage_id, d.record_id)
     IN /\ a # NULL /\ HeaderIsValid(flash, a)
        /\ desc' = [desc EXCEPT ![s].p_rec = a, ![s].gc_magic = e.m_gc_runs]
        /\ open' = [open EXCEPT ![s] = RecordAt(flash, a)]
        /\ e' = [e EXCEPT !.m_pages[PageOf(e, d.vpage_id)].records_open = @ + 1]
  /\ UNCHANGED <<flash, token>>

FdsClose(s) ==
  /\ open[s] # <<>>
  /\ e' = [e EXCEPT !.m_pages[PageOf(e, desc[s].vpage_id)].records_open = (@ - 1) % (2 ^ 16)]
  /\ open' = [open EXCEPT ![s] = <<>>]
  /\ UNCHANGED <<flash, used, desc, token>>

-----------------------------------------------------------------------------
\* A flash event is dispatched: fs_sys_event_handler with the callback it makes.
FlashEvent ==
  /\ e.events # <<>>
  /\ \E x \in {[FsSysEventHandler([e EXCEPT !.events = Tail(@)], Head(e.events))
                  EXCEPT !.kept = kept] : kept \in BOOLEAN} :
       IF x.reported = NoOp THEN e' = [QueueProcess(x) EXCEPT !.kept = FALSE]
       ELSE \E done \in {FsCallback(x, flash)} :
              e' = [QueueProcess(Advance(done, flash)) EXCEPT
                      !.kept = FALSE, !.reported = NoOp, !.result = "SUCCESS"]
  /\ UNCHANGED <<flash, used, client>>

PowerLoss ==
  /\ Spend("loss")
  /\ flash' \in Left
  /\ e' = Engine
  /\ desc' = [s \in Slots |-> <<>>] /\ open' = [s \in Slots |-> <<>>] /\ token' = <<>>

Next ==
  \/ FdsInit
  \/ \E s \in Slots : \/ FdsWrite(s) \/ FdsUpdate(s) \/ FdsWriteReserved(s)
                      \/ FdsClear(s) \/ FdsClearByInstance(s)
                      \/ FdsFind(s) \/ FdsOpen(s) \/ FdsClose(s)
  \/ FdsReserve \/ FdsReserveCancel \/ FdsGc
  \/ FlashEvent
  \/ (SoftDeviceEnds \/ SoftDeviceFails \/ OtherUserBegins) /\ UNCHANGED client
  \/ PowerLoss

\* The SoftDevice ends what it begins, and its events are dispatched.
Spec == Init /\ [][Next]_vars
        /\ WF_vars(SoftDeviceEnds /\ UNCHANGED client) /\ WF_vars(FlashEvent)
-----------------------------------------------------------------------------
TypeOK ==
  /\ \A s \in Slots : desc[s] = <<>> \/ desc[s].record_id \in 0 .. MaxId
  /\ Len(e.m_cmd_queue) <= FDS_CMD_QUEUE_SIZE /\ Len(e.m_chunk_queue) <= FDS_CHUNK_QUEUE_SIZE
  /\ \A p \in Page : /\ Data(e, p).page_type \in PageTypes
                     /\ Data(e, p).write_offset \in 0 .. FS_PAGE_SIZE_WORDS
                     /\ Data(e, p).words_reserved \in 0 .. FS_PAGE_SIZE_WORDS
  /\ Len(e.fs_queue) <= 1

\* Nothing is written over something else: the space of every record written, reserved
\* or copied is blank when its words come (895 to 1010), whatever was cleared, collected
\* or cut short by a loss of power before.
WrittenOnce == \A a \in Address : flash[a] # Mixed

\* What the pages hold, in terms of what was asked for: an instance and data.
RecordOf(f, a) == [instance |-> InstanceAt(f, a), data |-> RecordAt(f, a).data]
Holding(f) == {p \in Page : PageIdentify(f, p) \in {"VALID", "GC"}}
Contents(f) == {RecordOf(f, a) : a \in UNION {ValidIn(f, p) : p \in Holding(f)}}

\* The words that are promised on a virtual page: for the records in the queue, and to
\* the token.
StoreCommands == {n \in DOMAIN e.m_cmd_queue : e.m_cmd_queue[n].id \in {"WRITE", "UPDATE"}}
WordsFor(c, vpage) == IF c.id \in {"WRITE", "UPDATE"} /\ c.vpage_id = vpage
                      THEN FDS_HEADER_SIZE + c.length_words ELSE 0
Promised(vpage) ==
  SumOf([n \in DOMAIN e.m_cmd_queue |-> WordsFor(e.m_cmd_queue[n], vpage)])
  + IF token # <<>> /\ token.vpage_id = vpage
    THEN FDS_HEADER_SIZE + SumOf(token.lengths) ELSE 0

\* The bookkeeping of a page says what its flash holds: records end at write_offset,
\* except for the one being written; what is promised is reserved and fits.
SpaceAccounted ==
  Initialized =>
    \A p \in Page : Data(e, p).page_type = "VALID" =>
      LET d == Data(e, p)
          end == ScanEnd(flash, Base(p), EndAddr(p)) - StartAddr(p)
      IN /\ d.write_offset + d.words_reserved < FS_PAGE_SIZE_WORDS
         /\ Promised(d.vpage_id) <= d.words_reserved
         /\ \/ end = d.write_offset
            \/ /\ StoreCommands # {} /\ 1 \in StoreCommands
               /\ Cmd(e).vpage_id = d.vpage_id
               /\ end = d.write_offset + FDS_HEADER_SIZE + Cmd(e).length_words

\* A search sees the records the flash holds, no more and no less, also in the middle of
\* a collection and after a restart (pages_init sees the tags, find_record the types).
SearchSeesAll ==
  Initialized => {RecordOf(flash, va[2]) : va \in Visible(e, flash)} = Contents(flash)

\* fds.h:469, "the contents of the memory pointed by the fds_record_t p_data field is
\* guaranteed to remain unmodified, as long as the record is kept open": the garbage
\* collection leaves the page alone. It holds with one data page, for a client that opens no
\* record while a collection is queued: gc_get_next_page looks at records_open only once. With
\* more pages fds_open of an updated descriptor counts on the page of the new record (1629).
OpenRecordsStay ==
  \A s \in Slots : open[s] # <<>> =>
    \A i \in DOMAIN open[s].data : flash[open[s].addr + OFFSET_DATA + i - 1] = open[s].data[i]
=============================================================================
