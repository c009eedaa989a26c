------------------------------ MODULE Fstorage ------------------------------
(***************************************************************************)
(* The flash of the chip, the SoftDevice that works on it, and fstorage.c, *)
(* which queues the flash operations of its one user here, Fds.  A handler *)
(* is an operator from a state e to the state it leaves behind; the fields *)
(* of e named here are those of this module, Fds adds its own.             *)
(***************************************************************************)
EXTENDS Integers, Sequences, FiniteSets

CONSTANTS FS_CMD_QUEUE_SIZE, FS_CMD_MAX_RETRIES,
          FS_PAGE_SIZE_WORDS,
          FDS_MAX_PAGES,   \* num_pages of the one fs_config_t
          Meddles,         \* may another user begin while an operation that failed is
                           \* at the head? Its event would be taken for that operation's
          Erased, Mixed,   \* a blank word; a word that was written over with another
          Limit            \* bounds: how often each kind of step is taken, and all of them

ASSUME FstorageAssumption ==
  /\ FS_CMD_QUEUE_SIZE \in Nat \ {0, 1} /\ FS_CMD_MAX_RETRIES \in Nat
  /\ FS_PAGE_SIZE_WORDS \in Nat \ {0} /\ FDS_MAX_PAGES \in Nat \ {0}
  /\ Meddles \in BOOLEAN /\ Erased # Mixed

VARIABLES flash,   \* the words of the pages of fs_config, one page after another
          e,       \* what is in RAM: a record
          used     \* steps of each bounded kind so far

Spend(kind) == /\ used[kind] < Limit[kind] /\ used.all < Limit.all
               /\ used' = [used EXCEPT ![kind] = @ + 1, !.all = @ + 1]

Page == 0 .. FDS_MAX_PAGES - 1
Address == 0 .. FDS_MAX_PAGES * FS_PAGE_SIZE_WORDS - 1
StartAddr(p) == p * FS_PAGE_SIZE_WORDS

(***************************************************************************)
(* Words.  Writing can only clear bits of a word: the words below are made *)
(* so that one becomes the other when it is written over it.               *)
(***************************************************************************)
TL(len, valid) == <<"TL", len, valid>>
TooLong == FDS_MAX_PAGES * FS_PAGE_SIZE_WORDS
TLInvalid == TL(TooLong, "invalid")
IsTL(w) == w # Erased /\ w # Mixed /\ w[1] = "TL"

Over(old, new) ==
  CASE old = Erased -> new
    [] new = TLInvalid /\ IsTL(old) -> TL(old[2], "invalid")
    [] old = <<"tag0", "swap">> /\ new = <<"tag0", "valid">> -> new
    [] old = <<"tag0", "valid">> /\ new = <<"tag0", "swap">> -> old
    [] old = <<"tag3", "plain">> /\ new = <<"tag3", "gc">> -> new
    [] old = <<"tag3", "gc">> /\ new = <<"tag3", "plain">> -> old
    [] OTHER -> IF old = new \/ new = Erased THEN old ELSE Mixed

(***************************************************************************)
(* The flash operations of the SoftDevice, one at a time: dst is the first *)
(* word, words what is written.  "other" is one of another user.           *)
(***************************************************************************)
NoOp == [kind |-> "none"]
Other == [kind |-> "other"]
Store(dst, words) == [kind |-> "store", dst |-> dst, words |-> words]
Erase(p) == [kind |-> "erase", dst |-> StartAddr(p),
             words |-> [i \in 1 .. FS_PAGE_SIZE_WORDS |-> Erased]]

\* The flash after the first n words of op.
Applied(op, n) ==
  [a \in Address |->
     IF op.kind \notin {"store", "erase"} \/ a \notin op.dst .. op.dst + n - 1 THEN flash[a]
     ELSE IF op.kind = "erase" THEN Erased ELSE Over(flash[a], op.words[a - op.dst + 1])]

WordsOf(op) == IF op.kind \in {"store", "erase"} THEN Len(op.words) ELSE 0

-----------------------------------------------------------------------------
FsRam == [fs_queue |-> <<>>,       \* m_cmd_queue of fstorage.c
          fs_flags |-> {},         \* PROCESSING, FLASH_REQ_PENDING
          m_retry_count |-> 0,
          reported |-> NoOp,       \* the command its user is called back for
          result |-> "SUCCESS",
          sd |-> NoOp,             \* the operation the SoftDevice is working on
          events |-> <<>>]         \* its flash events, not yet dispatched

\* The SoftDevice takes no operation before the event of the last one is dispatched.
Busy(x) == x.sd # NoOp \/ x.events # <<>>

\* Starts the command at the head, unless one is processed; while another user's
\* operation is under way the SoftDevice is busy, and its event is waited for.
QueueProcess(x) ==
  IF "PROCESSING" \in x.fs_flags \/ x.fs_queue = <<>> THEN x
  ELSE IF Busy(x) THEN [x EXCEPT !.fs_flags = @ \cup {"FLASH_REQ_PENDING"}]
  ELSE [x EXCEPT !.fs_flags = @ \cup {"PROCESSING"}, !.sd = Head(x.fs_queue)]

\* fs_store and fs_erase: a command is one flash operation, for none is longer than
\* FS_MAX_WRITE_SIZE_WORDS, a page.
CmdEnqueue(x, op) ==
  IF Len(x.fs_queue) = FS_CMD_QUEUE_SIZE - 1 THEN x
  ELSE QueueProcess([x EXCEPT !.fs_queue = Append(@, op)])

FsStore(x, dst, words) == CmdEnqueue(x, Store(dst, words))

CmdConsume(x, result) ==
  [x EXCEPT !.fs_queue = Tail(@),
            !.fs_flags = IF Tail(x.fs_queue) = <<>> THEN @ \ {"PROCESSING"} ELSE @,
            !.reported = Head(x.fs_queue), !.result = result]

OnOperationSuccess(x) == CmdConsume([x EXCEPT !.m_retry_count = 0], "SUCCESS")

\* The operation is not called for again: queue_process() sees it as processed.
OnOperationFailure(x) ==
  LET y == [x EXCEPT !.m_retry_count = @ + 1]
  IN IF y.m_retry_count > FS_CMD_MAX_RETRIES THEN CmdConsume(y, "TIMEOUT") ELSE y

\* A plausible fault: the result of the operation is not looked at.
FsSysEventHandlerHeedless(x, evt) ==
  IF "PROCESSING" \in x.fs_flags THEN OnOperationSuccess(x)
  ELSE [x EXCEPT !.fs_flags = @ \ {"FLASH_REQ_PENDING"}]

\* fs_sys_event_handler up to the callback; QueueProcess follows it in every case.
FsSysEventHandler(x, evt) ==
  IF "PROCESSING" \in x.fs_flags
  THEN IF evt = "SUCCESS" THEN OnOperationSuccess(x) ELSE OnOperationFailure(x)
  ELSE [x EXCEPT !.fs_flags = @ \ {"FLASH_REQ_PENDING"}]

-----------------------------------------------------------------------------
\* The SoftDevice ends the operation: done, or, the flash as it was, not.
SoftDeviceEnds ==
  /\ e.sd # NoOp
  /\ flash' = Applied(e.sd, WordsOf(e.sd))
  /\ e' = [e EXCEPT !.sd = NoOp, !.events = Append(@, "SUCCESS")]
  /\ UNCHANGED used

SoftDeviceFails ==
  /\ e.sd # NoOp
  /\ Spend("fault")
  /\ e' = [e EXCEPT !.sd = NoOp, !.events = Append(@, "ERROR")]
  /\ UNCHANGED flash

OtherUserBegins ==
  /\ ~Busy(e)
  /\ "PROCESSING" \in e.fs_flags => Meddles
  /\ Spend("fault")
  /\ e' = [e EXCEPT !.sd = Other]
  /\ UNCHANGED flash

\* What a loss of power leaves in the flash: a part of the words of the operation, of a
\* page tag or an erased page all or none.
Left ==
  LET n == WordsOf(e.sd)
      whole == n = 0 \/ e.sd.dst % FS_PAGE_SIZE_WORDS = 0
  IN {Applied(e.sd, k) : k \in IF whole THEN {0, n} ELSE 0 .. n}
=============================================================================
