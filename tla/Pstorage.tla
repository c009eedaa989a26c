------------------------------ MODULE Pstorage ------------------------------
(***************************************************************************)
(* The persistent storage of the SDK (pstorage.c): commands of its clients *)
(* are queued and executed one flash operation at a time; a command that   *)
(* clears part of a page keeps the rest of it in a swap page meanwhile.    *)
(* Every handler runs to its end in the main context: a call of a client,  *)
(* or the flash event that ends an operation.  Flash addresses count words *)
(* from the first data page; the swap page follows the data pages.         *)
(***************************************************************************)
EXTENDS Integers, Sequences, FiniteSets

CONSTANTS PSTORAGE_NUM_OF_PAGES, PSTORAGE_CMD_QUEUE_SIZE, SD_CMD_MAX_TRIES,
          PageSize,        \* words of a flash page
          DataStart,       \* the number of pages before the first data page
          SizeRange,       \* the number of pages that a pstorage_size_t can tell apart: 64
          Registrations,   \* <<block size, block count>> the clients may register
          Chosen(_),       \* bound: the commands, of those allowed, that are issued
          Erased, Mixed,   \* a blank word; a word written over without erasing it
          MaxCommands,     \* bound: commands of the clients
          MaxOthers,       \* bound: flash operations of other users of the SoftDevice
          MaxRestarts      \* bound: losses of power

ASSUME PstorageAssumption ==
  /\ PSTORAGE_NUM_OF_PAGES \in Nat \ {0} /\ PageSize \in Nat \ {0}
  /\ DataStart \in Nat /\ SizeRange \in Nat /\ PSTORAGE_NUM_OF_PAGES < SizeRange
  /\ PSTORAGE_CMD_QUEUE_SIZE \in Nat \ {0} /\ SD_CMD_MAX_TRIES \in Nat \ {0}
  /\ MaxCommands \in Nat /\ MaxOthers \in Nat /\ MaxRestarts \in Nat
  /\ Erased # Mixed
  /\ Registrations \subseteq (Nat \ {0}) \X (Nat \ {0})

VARIABLES
  flash,         \* the words of the data pages and of the swap page
  m_app_table,   \* the registered modules, in order
  e,             \* the state machine: see Engine
  restarts

vars == <<flash, m_app_table, e, restarts>>

SwapAddr == PSTORAGE_NUM_OF_PAGES * PageSize
DataWords == 0 .. SwapAddr - 1
FlashWords == 0 .. SwapAddr + PageSize - 1
Page(a) == a \div PageSize

\* Of what can be registered at all, no block lies across the end of a page.  A module begins
\* with a page, so its own sizes decide.  With the one data page of pstorage_platform.h:69
\* nothing else can be registered.
ASSUME BlocksAssumption ==
  \A r \in Registrations :
    r[1] * r[2] <= SwapAddr =>
      \A n \in 0 .. r[2] - 1 : Page(n * r[1]) = Page(n * r[1] + r[1] - 1)

\* The word number i of the data given with command number tag; old data is tag 0.
Data(tag, i) == <<tag, i>>
Value == {Erased, Mixed} \cup ((0 .. MaxCommands) \X FlashWords)

\* Flash can only clear bits: a word is as written where it was blank.
Over(old, new) == IF old = Erased \/ old = new THEN new
                  ELSE IF new = Erased THEN old ELSE Mixed

(***************************************************************************)
(* Flash operations of the SoftDevice: dst is the first word, words what   *)
(* is written.  One at a time; "other" belongs to another user.            *)
(***************************************************************************)
NoOp == [kind |-> "none"]
Other == [kind |-> "other"]
PageErase(p) == [kind |-> "erase", dst |-> p * PageSize,
                 words |-> [i \in 1 .. PageSize |-> Erased]]
Write(dst, words) == [kind |-> "write", dst |-> dst, words |-> words]

\* The flash after op has reached the words of part.
Applied(op, part) ==
  [a \in FlashWords |->
     IF op.kind \notin {"erase", "write"} \/ a \notin part
        \/ a - op.dst + 1 \notin DOMAIN op.words
     THEN flash[a]
     ELSE IF op.kind = "erase" THEN Erased
     ELSE Over(flash[a], op.words[a - op.dst + 1])]

\* How far an operation that does not succeed may have come: the first n words.
Parts(op) == IF op.kind \in {"erase", "write"}
             THEN {op.dst .. op.dst + n - 1 : n \in 0 .. Len(op.words)} ELSE {{}}

(***************************************************************************)
(* Commands and what they cover.                                           *)
(***************************************************************************)
BlockSize(mod) == m_app_table[mod].block_size
EndOfStorage(mod) == m_app_table[mod].base_id + BlockSize(mod) * m_app_table[mod].block_count
CmdEnd(c) == c.block_id + c.size + c.offset
\* A plausible fault: the page of the word behind the command.
LastPageOneOn(c) == Page(CmdEnd(c))

LastPage(c) == Page(CmdEnd(c) - 1)
Span(c) == c.block_id + c.offset .. CmdEnd(c) - 1
Source(c) == [i \in 1 .. c.size |-> Data(c.data, i)]

Blocks(mod) == {m_app_table[mod].base_id + n * BlockSize(mod)
                  : n \in 0 .. m_app_table[mod].block_count - 1}

\* The calls of store, update and clear that pass the checks of their parameters.
Requests(tag) ==
  UNION { LET Command(op, b, s, o) == [op_code |-> op, module_id |-> mod, block_id |-> b,
                                       size |-> s, offset |-> o, data |-> tag]
          IN {Command(op, b, s, o) : op \in {"store", "update"}, b \in Blocks(mod),
                s \in 1 .. BlockSize(mod), o \in 0 .. BlockSize(mod) - 1}
             \cup
             {Command("clear", b, n * BlockSize(mod), 0)
                : b \in Blocks(mod), n \in 1 .. m_app_table[mod].block_count}
          : mod \in DOMAIN m_app_table }

Accepted(tag) == {c \in Requests(tag) :
                  Chosen(c) /\
                    IF c.op_code = "clear" THEN CmdEnd(c) <= EndOfStorage(c.module_id)
                    ELSE c.size + c.offset <= BlockSize(c.module_id)}

(***************************************************************************)
(* The state machine.  It is one record, because a handler runs through    *)
(* several entry actions and the SoftDevice may answer each flash call in  *)
(* several ways: an operator gives the set of states the handler may leave *)
(* behind.  f is the flash as the handler finds it.                        *)
(***************************************************************************)
Flags == {"TAIL_SWAP_DONE", "SINGLE_PAGE_OPERATION", "FLASH_API_ERR_BUSY"}
States == {"IDLE", "STORE", "DATA_ERASE_WITH_SWAP", "DATA_ERASE", "ERROR"}
SubStates == {"ERASE_SWAP", "WRITE_DATA_TO_SWAP", "ERASE_DATA_PAGE",
              "RESTORE_TAIL", "RESTORE_HEAD"}

Engine == [m_state |-> "IDLE", m_swap_sub_state |-> "ERASE_SWAP", m_cmd_queue |-> <<>>,
           m_head_word_size |-> 0, m_tail_word_size |-> 0, m_current_page_id |-> 0,
           m_num_of_command_retries |-> 0, m_num_of_bytes_written |-> 0,
           m_app_data_size |-> 0, m_flags |-> {},
           sd |-> NoOp,          \* the operation the SoftDevice is working on
           sent |-> 0,           \* commands so far
           others |-> 0]         \* operations of other users so far

Cmd(x) == Head(x.m_cmd_queue)
Busy(x) == "FLASH_API_ERR_BUSY" \in x.m_flags
Raise(x, flag) == [x EXCEPT !.m_flags = @ \cup {flag}]
Lower(x, flag) == [x EXCEPT !.m_flags = @ \ {flag}]

\* A client is called back; it may put another command in the queue.
AppNotify(x) ==
  {x} \cup (IF Len(x.m_cmd_queue) = PSTORAGE_CMD_QUEUE_SIZE \/ x.sent = MaxCommands THEN {}
            ELSE {[x EXCEPT !.m_cmd_queue = Append(@, c), !.sent = @ + 1]
                    : c \in Accepted(x.sent + 1)})

\* The error state is for good.
NotifyErrorTransit(x) == {[y EXCEPT !.m_state = "ERROR"] : y \in AppNotify(x)}

\* A flash call: accepted, not accepted because of another user's operation
\* (one that may have begun just now), or refused.
FlashCall(x, op) ==
  IF x.sd # NoOp THEN {Raise(x, "FLASH_API_ERR_BUSY")}
  ELSE {[x EXCEPT !.sd = op]}
       \cup NotifyErrorTransit(x)
       \cup IF x.others = MaxOthers THEN {}
            ELSE {[Raise(x, "FLASH_API_ERR_BUSY") EXCEPT !.sd = Other, !.others = @ + 1]}

\* Data longer than a page is written a page at a time, the last one first.
StoreSize(c) == IF c.size > PageSize THEN PageSize ELSE c.size
StoreOp(c) == LET n == StoreSize(c)
              IN Write(CmdEnd(c) - n, SubSeq(Source(c), c.size - n + 1, c.size))
StoreEntry(x) == {[y EXCEPT !.m_num_of_bytes_written = StoreSize(Cmd(x))]
                    : y \in FlashCall([x EXCEPT !.m_state = "STORE"], StoreOp(Cmd(x)))}

DataEraseEntry(x) == FlashCall([x EXCEPT !.m_state = "DATA_ERASE"],
                               PageErase(x.m_current_page_id))

Copy(f, from, to, n) == Write(to, [i \in 1 .. n |-> f[from + i - 1]])
SubOp(x, sub, f) ==
  LET end == CmdEnd(Cmd(x))
  IN CASE sub = "ERASE_SWAP" -> PageErase(Page(SwapAddr))
       [] sub = "WRITE_DATA_TO_SWAP" ->
            Copy(f, x.m_current_page_id * PageSize, SwapAddr, PageSize)
       [] sub = "ERASE_DATA_PAGE" -> PageErase(x.m_current_page_id)
       [] sub = "RESTORE_TAIL" ->
            Copy(f, SwapAddr + (end % PageSize), end, x.m_tail_word_size)
       [] sub = "RESTORE_HEAD" ->
            Copy(f, SwapAddr, (x.m_current_page_id - 1) * PageSize, x.m_head_word_size)
SubEntry(x, sub, f) == FlashCall([x EXCEPT !.m_swap_sub_state = sub], SubOp(x, sub, f))

SwapEntry(x, f) ==
  LET c == Cmd(x)
      single == Page(c.block_id) = Page(c.block_id + c.size - 1)
      y == [x EXCEPT !.m_state = "DATA_ERASE_WITH_SWAP",
                     !.m_current_page_id = Page(c.block_id),
                     !.m_flags = (@ \ {"TAIL_SWAP_DONE", "SINGLE_PAGE_OPERATION"})
                                 \cup IF single THEN {"SINGLE_PAGE_OPERATION"} ELSE {}]
  IN SubEntry(y, IF y.m_head_word_size = 0 /\ ~single THEN "ERASE_DATA_PAGE"
                 ELSE "ERASE_SWAP", f)

\* An address as the 16 bits of a pstorage_size_t (pstorage_platform.h:90) hold it.
AsSize(a) == (DataStart * PageSize + a) % (SizeRange * PageSize)

\* A plausible fault: an end on the boundary of a page is not told apart.
TailWordSizeUnaligned(c) ==
  IF CmdEnd(c) = EndOfStorage(c.module_id) THEN 0 ELSE PageSize - (CmdEnd(c) % PageSize)

\* The words behind the command that share its last page with it; the parameters of
\* tail_word_size_calculate (1174) are too short for an address.
TailWordSize(c) ==
  LET end == AsSize(EndOfStorage(c.module_id))
      cmdEnd == AsSize(CmdEnd(c))
  IN IF CmdEnd(c) = EndOfStorage(c.module_id) \/ CmdEnd(c) % PageSize = 0 THEN 0
     ELSE IF Page(end) = Page(cmdEnd) THEN end - cmdEnd
     ELSE PageSize - (cmdEnd % PageSize)

ClearOperation(x, f) ==
  LET c == Cmd(x)
      aligned == c.block_id % PageSize = 0
      whole == aligned /\ \/ c.size = PageSize
                          \/ CmdEnd(c) = EndOfStorage(c.module_id) /\ c.offset = 0
  IN IF whole
     THEN DataEraseEntry([x EXCEPT !.m_tail_word_size = 0,
                                   !.m_current_page_id = Page(c.block_id)])
     ELSE SwapEntry([x EXCEPT !.m_head_word_size = (c.block_id + c.offset) % PageSize,
                              !.m_tail_word_size = TailWordSize(c)], f)

CmdProcess(x, f) ==
  LET y == [x EXCEPT !.m_app_data_size = Cmd(x).size]
  IN IF Cmd(x).op_code = "store" THEN StoreEntry(y) ELSE ClearOperation(y, f)

\* A plausible fault: a command that waits is not begun.
IdleEntryWithoutDequeue(x, f) ==
  {[x EXCEPT !.m_state = "IDLE", !.m_num_of_command_retries = 0,
             !.m_num_of_bytes_written = 0]}

IdleEntry(x, f) ==
  LET y == [x EXCEPT !.m_state = "IDLE", !.m_num_of_command_retries = 0,
                     !.m_num_of_bytes_written = 0]
  IN IF y.m_cmd_queue = <<>> THEN {y} ELSE CmdProcess(y, f)

CommandEnd(x, f) ==
  UNION {IdleEntry([y EXCEPT !.m_cmd_queue = Tail(@)], f) : y \in AppNotify(x)}

ClearPostProcessing(x, f) ==
  IF Cmd(x).op_code # "update" THEN CommandEnd(x, f) ELSE StoreEntry(x)

IsPageEraseRequired(x) ==
  \/ x.m_current_page_id < LastPage(Cmd(x))
  \/ x.m_current_page_id = LastPage(Cmd(x)) /\ x.m_tail_word_size = 0

IsTailSwapRequired(x) ==
  x.m_tail_word_size # 0 /\ x.m_current_page_id = LastPage(Cmd(x))

\* What follows the success of the operation of each state.
AfterStore(x, f) ==
  LET y == [x EXCEPT !.m_cmd_queue[1].size = @ - x.m_num_of_bytes_written]
  IN IF Cmd(y).size = 0 THEN CommandEnd(y, f) ELSE StoreEntry(y)

AfterDataErase(x, f) ==
  LET y == [x EXCEPT !.m_current_page_id = @ + 1]
  IN IF IsPageEraseRequired(y) THEN DataEraseEntry(y) ELSE ClearPostProcessing(y, f)

\* A plausible fault: the swap page is not known to hold the tail too.
AfterWriteToSwapUnmarked(x, f) == SubEntry(x, "ERASE_DATA_PAGE", f)

AfterWriteToSwap(x, f) ==
  SubEntry(IF "SINGLE_PAGE_OPERATION" \in x.m_flags THEN Raise(x, "TAIL_SWAP_DONE") ELSE x,
           "ERASE_DATA_PAGE", f)

AfterPageErase(x, f) ==
  LET y == [x EXCEPT !.m_current_page_id = @ + 1]
  IN IF y.m_head_word_size # 0 THEN SubEntry(y, "RESTORE_HEAD", f)
     ELSE IF IsPageEraseRequired(y) THEN SubEntry(y, "ERASE_DATA_PAGE", f)
     ELSE IF y.m_tail_word_size = 0 THEN ClearPostProcessing(y, f)
     ELSE IF "TAIL_SWAP_DONE" \in y.m_flags THEN SubEntry(y, "RESTORE_TAIL", f)
     ELSE SubEntry(Raise(y, "TAIL_SWAP_DONE"), "ERASE_SWAP", f)

AfterRestoreHead(x, f) ==
  IF IsTailSwapRequired(x)
  THEN SubEntry(Raise([x EXCEPT !.m_head_word_size = 0], "TAIL_SWAP_DONE"), "ERASE_SWAP", f)
  ELSE IF IsPageEraseRequired(x)
  THEN SubEntry([x EXCEPT !.m_head_word_size = 0], "ERASE_DATA_PAGE", f)
  ELSE IF x.m_tail_word_size # 0 THEN SubEntry(x, "RESTORE_TAIL", f)
  ELSE ClearPostProcessing(x, f)

\* The entry action of the state the machine is in, once more.
Again(x, f) == CASE x.m_state = "STORE" -> StoreEntry(x)
                 [] x.m_state = "DATA_ERASE" -> DataEraseEntry(x)
                 [] x.m_state = "DATA_ERASE_WITH_SWAP" -> SubEntry(x, x.m_swap_sub_state, f)

-----------------------------------------------------------------------------
\* pstorage_init() has run; the swap page holds what an earlier use left.
Init ==
  /\ flash = [a \in FlashWords |-> IF a \in DataWords THEN Data(0, a) ELSE Mixed]
  /\ m_app_table = <<>>
  /\ e = Engine
  /\ restarts = 0

NextPageAddr ==
  IF m_app_table = <<>> THEN 0
  ELSE ((EndOfStorage(Len(m_app_table)) + PageSize - 1) \div PageSize) * PageSize

PstorageRegister ==
  \E r \in Registrations :
    /\ e.sent = 0 /\ restarts = 0
    /\ r[1] <= PageSize /\ NextPageAddr + r[1] * r[2] <= SwapAddr
    /\ Len(m_app_table) < PSTORAGE_NUM_OF_PAGES
    /\ m_app_table' = Append(m_app_table, [base_id |-> NextPageAddr,
                                           block_size |-> r[1], block_count |-> r[2]])
    /\ UNCHANGED <<flash, e, restarts>>

\* pstorage_store, pstorage_update, pstorage_clear.
CmdQueueEnqueue ==
  /\ e.sent < MaxCommands
  /\ Len(e.m_cmd_queue) # PSTORAGE_CMD_QUEUE_SIZE
  /\ \E c \in Accepted(e.sent + 1) :
       LET x == [e EXCEPT !.m_cmd_queue = Append(@, c), !.sent = @ + 1]
       IN e' \in IF x.m_state = "IDLE" THEN CmdProcess(x, flash) ELSE {x}
  /\ UNCHANGED <<flash, m_app_table, restarts>>

(***************************************************************************)
(* Flash events carry no name: pstorage_sys_event_handler sees those of    *)
(* other users too, and takes every event for the end of what its state    *)
(* waits for, or, if the SoftDevice was busy, as the time to call again.   *)
(***************************************************************************)
Succeeds(st, After(_, _)) ==
  /\ e.m_state = st /\ e.sd # NoOp
  /\ flash' = Applied(e.sd, FlashWords)
  /\ LET x == [e EXCEPT !.sd = NoOp]
     IN e' \in IF Busy(x) THEN Again(Lower(x, "FLASH_API_ERR_BUSY"), flash')
               ELSE After(x, flash')
  /\ UNCHANGED <<m_app_table, restarts>>

StoreDone == Succeeds("STORE", AfterStore)
DataEraseDone == Succeeds("DATA_ERASE", AfterDataErase)

InSub(sub) == e.m_swap_sub_state = sub
EraseSwapDone ==
  InSub("ERASE_SWAP") /\ Succeeds("DATA_ERASE_WITH_SWAP",
                                  LAMBDA x, f : SubEntry(x, "WRITE_DATA_TO_SWAP", f))
WriteToSwapDone ==
  InSub("WRITE_DATA_TO_SWAP") /\ Succeeds("DATA_ERASE_WITH_SWAP", AfterWriteToSwap)
PageEraseDone ==
  InSub("ERASE_DATA_PAGE") /\ Succeeds("DATA_ERASE_WITH_SWAP", AfterPageErase)
RestoreHeadDone ==
  InSub("RESTORE_HEAD") /\ Succeeds("DATA_ERASE_WITH_SWAP", AfterRestoreHead)
RestoreTailDone ==
  InSub("RESTORE_TAIL") /\ Succeeds("DATA_ERASE_WITH_SWAP", ClearPostProcessing)

\* A plausible fault: the count of the failures starts again before it is full.
FlashOperationFailsWrapped ==
  /\ e.m_state \notin {"IDLE", "ERROR"} /\ e.sd # NoOp
  /\ \E part \in Parts(e.sd) : flash' = Applied(e.sd, part)
  /\ LET x == [e EXCEPT !.sd = NoOp,
                        !.m_num_of_command_retries = (@ + 1) % SD_CMD_MAX_TRIES]
     IN e' \in Again(Lower(x, "FLASH_API_ERR_BUSY"), flash')
  /\ UNCHANGED <<m_app_table, restarts>>

\* NRF_EVT_FLASH_OPERATION_ERROR: try again, SD_CMD_MAX_TRIES failures to a command.
FlashOperationFails ==
  /\ e.m_state \notin {"IDLE", "ERROR"} /\ e.sd # NoOp
  /\ \E part \in Parts(e.sd) : flash' = Applied(e.sd, part)
  /\ LET x == [e EXCEPT !.sd = NoOp]
         y == [x EXCEPT !.m_num_of_command_retries = @ + 1]
     IN e' \in IF Busy(x) THEN Again(Lower(x, "FLASH_API_ERR_BUSY"), flash')
               ELSE IF y.m_num_of_command_retries # SD_CMD_MAX_TRIES THEN Again(y, flash')
               ELSE NotifyErrorTransit(y)
  /\ UNCHANGED <<m_app_table, restarts>>

EventIgnored ==
  /\ e.m_state \in {"IDLE", "ERROR"} /\ e.sd # NoOp
  /\ e' = [e EXCEPT !.sd = NoOp]
  /\ UNCHANGED <<flash, m_app_table, restarts>>

OtherUserBegins ==
  /\ e.sd = NoOp /\ e.others < MaxOthers
  /\ e' = [e EXCEPT !.sd = Other, !.others = @ + 1]
  /\ UNCHANGED <<flash, m_app_table, restarts>>

\* Power is lost and comes back: pstorage_init() and the same registrations again.
PowerLoss ==
  /\ restarts < MaxRestarts
  /\ restarts' = restarts + 1
  /\ \E part \in Parts(e.sd) : flash' = Applied(e.sd, part)
  /\ e' = [Engine EXCEPT !.sent = e.sent, !.others = e.others]
  /\ UNCHANGED m_app_table

FlashEvent == \/ StoreDone \/ DataEraseDone
              \/ EraseSwapDone \/ WriteToSwapDone \/ PageEraseDone
              \/ RestoreHeadDone \/ RestoreTailDone
              \/ FlashOperationFails \/ EventIgnored

Next == \/ PstorageRegister \/ CmdQueueEnqueue \/ FlashEvent
        \/ OtherUserBegins \/ PowerLoss

\* The SoftDevice finishes every operation it accepts.
Spec == Init /\ [][Next]_vars /\ WF_vars(FlashEvent)
-----------------------------------------------------------------------------
TypeOK ==
  /\ flash \in [FlashWords -> Value]
  /\ m_app_table \in Seq([base_id : DataWords, block_size : 1 .. PageSize,
                          block_count : 1 .. SwapAddr])
  /\ e.m_state \in States /\ e.m_swap_sub_state \in SubStates /\ e.m_flags \subseteq Flags
  /\ Len(e.m_cmd_queue) <= PSTORAGE_CMD_QUEUE_SIZE
  /\ e.m_head_word_size \in 0 .. PageSize - 1 /\ e.m_tail_word_size \in 0 .. PageSize - 1
  /\ e.m_current_page_id \in 0 .. PSTORAGE_NUM_OF_PAGES
  /\ e.m_num_of_command_retries \in 0 .. SD_CMD_MAX_TRIES
  /\ restarts \in 0 .. MaxRestarts

\* The words of all modules.
Owned == UNION {m_app_table[mod].base_id .. EndOfStorage(mod) - 1 : mod \in DOMAIN m_app_table}

\* A page is erased only if the running command changes words of it, or if it is the
\* swap page and holds no word that is nowhere else: a word beside the command, whose
\* page it has erased before, is back in its place.  A page counter one too far
\* (++m_current_page_id at 905 and 1024) would erase a page of another module, a flag
\* forgotten (956) the only copy of a head or tail.
ErasesItsPages ==
  e.sd.kind = "erase" =>
    LET first == Cmd(e).block_id + Cmd(e).offset
        pages == Page(first) .. Page(first + e.m_app_data_size - 1)
    IN \/ Page(e.sd.dst) \in pages
       \/ /\ e.sd.dst = SwapAddr
          /\ \A a \in Owned \ Span(Cmd(e)) :
               Page(a) \in pages /\ Page(a) < e.m_current_page_id
                 => flash[SwapAddr + (a % PageSize)] \in {Erased, flash[a]}

\* Whenever a command is running there is one operation whose event will move it on:
\* its own, or, when the SoftDevice was busy, the one it waits for; in IDLE and ERROR
\* none of its own is outstanding, whose late event would be taken for that of the
\* next command (1136 to 1166); and IDLE leaves no command behind.
EventsAreAttributed ==
  /\ e.m_state \in {"IDLE", "ERROR"} => e.sd.kind \in {"none", "other"} /\ ~Busy(e)
  /\ e.m_state \notin {"IDLE", "ERROR"} =>
       /\ e.m_cmd_queue # <<>>
       /\ IF Busy(e) THEN e.sd = Other ELSE e.sd.kind \in {"erase", "write"}
  /\ e.m_state = "IDLE" => e.m_cmd_queue = <<>>

(***************************************************************************)
(* The refinement.  While a command clears pages, a word it does not cover *)
(* is in the swap page from the erase of its page until it is restored.    *)
(***************************************************************************)
InSwap(a) ==
  /\ e.m_state = "DATA_ERASE_WITH_SWAP"
  /\ CASE e.m_swap_sub_state = "ERASE_DATA_PAGE" -> Page(a) = e.m_current_page_id
       [] e.m_swap_sub_state = "RESTORE_HEAD" -> Page(a) = e.m_current_page_id - 1
       [] e.m_swap_sub_state = "RESTORE_TAIL" ->
            Page(a) = LastPage(Cmd(e)) /\ a >= CmdEnd(Cmd(e))
       [] OTHER -> FALSE

Result(c, a, old) ==
  LET new == Data(c.data, a - c.block_id - c.offset + 1)
  IN CASE c.op_code = "clear" -> Erased
       [] c.op_code = "update" -> new
       [] c.op_code = "store" -> Over(old, new)

Mem == [a \in DataWords |->
          IF a \notin Owned THEN Erased
          ELSE IF e.m_state \notin {"IDLE", "ERROR"} /\ a \in Span(Cmd(e))
          THEN Result(Cmd(e), a, flash[a])
          ELSE IF InSwap(a) THEN flash[SwapAddr + (a % PageSize)]
          ELSE flash[a]]

Touched(c) == {a \in DataWords : Page(a) \in {Page(b) : b \in Span(c)}}

\* What a client may count on: a command changes its own words to what it says and
\* none of its neighbours', through every erase, copy, retry and wait for another
\* user's operation; commands are executed and reported in the order they came; a
\* failure or a loss of power in the middle spoils the pages of that command only.
Store == INSTANCE BlockStore
           WITH Words <- DataWords, mem <- Mem, owned <- Owned,
                queue <- e.m_cmd_queue, failed <- (e.m_state = "ERROR")

StoreKept == Store!Spec

\* pstorage_load reads the flash at once, whatever command is running.
PstorageLoad(a) == flash[a]

\* "Function for loading persistently stored data" (pstorage.h:253): a word that no
\* pending command covers is loaded as it was stored.  It is not: the neighbours of a
\* block that is cleared or updated are blank while they are in the swap page only, and
\* pstorage_load returns NRF_SUCCESS.
LoadsWhatIsStored ==
  \A a \in Owned : \/ \E n \in DOMAIN e.m_cmd_queue : a \in Span(e.m_cmd_queue[n])
                   \/ PstorageLoad(a) = Mem[a]

\* A command that was accepted is reported, or the module is in the error state: no
\* retry goes on for ever, and no wait for another user's operation (333 to 355).
CommandEnds == []<>(e.m_cmd_queue = <<>> \/ e.m_state = "ERROR")
=============================================================================
