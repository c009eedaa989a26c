----------------------------- MODULE FdsRecords -----------------------------
(***************************************************************************)
(* What Fds promises of the records its clients ask for, as properties of  *)
(* whole behaviours: the records on the pages are a RecordStore.           *)
(***************************************************************************)
EXTENDS Fds, SequencesExt

\* What a completed write is reported for is there, with all its data, and a search can
\* come to it, unless an operation of it failed and another user of the flash was at work
\* after that: fstorage.c:386-394 then takes the event of the other for the success of
\* the operation at the head, which was not made and is not repeated (309-316, 261).
\* Fstorage leaves that order out: with Meddles TRUE the code breaks this.
WrittenWhenReported ==
  [][ e.m_cmd_queue # <<>> /\ Cmd(e).op_code = "DONE" /\ Cmd(e).id \in {"WRITE", "UPDATE"}
        /\ Len(e'.m_cmd_queue) < Len(e.m_cmd_queue) /\ "INITIALIZED" \in e'.m_flags
      => \E va \in Visible(e', flash) :
           RecordOf(flash, va[2]) = [instance |-> Cmd(e).instance, data |-> FlattenSeq(Cmd(e).data)] ]_vars

\* The records the command at the head is to write, and to clear.
Writing == IF 1 \in StoreCommands
           THEN {[instance |-> Cmd(e).instance, data |-> FlattenSeq(Cmd(e).data)]} ELSE {}

Clearing ==
  IF e.m_cmd_queue = <<>> THEN {}
  ELSE {RecordOf(flash, va[2]) :
          va \in {vb \in Visible(e, flash) :
                    CASE Cmd(e).id = "CLEAR" -> vb[1] = Cmd(e).vpage_id
                                                /\ IdAt(flash, vb[2]) = Cmd(e).record_id
                      [] Cmd(e).id = "CLEAR_INST" -> InstanceAt(flash, vb[2]) = Cmd(e).instance
                      [] OTHER -> FALSE}}

\* The pages hold the records of a store that only writes and clears change, one record
\* at a time and in the order they were asked for, so that an update never leaves
\* neither record; collections, formatting and losses of power at any point keep it.
Records == INSTANCE RecordStore
             WITH store <- Contents(flash), writing <- Writing, clearing <- Clearing

StoreKept == Records!Spec

\* The operation at the head has failed: it counts as processed, so fstorage never begins
\* it again (309-316, 261).
NeverRepeated ==
  /\ ~Busy(e) /\ e.fs_queue # <<>>
  /\ "PROCESSING" \in e.fs_flags /\ e.m_retry_count > 0

\* There is a command, and no flash operation of it whose event would lead it on.
StandsStill == e.m_cmd_queue # <<>> /\ e.fs_queue = <<>>

\* The command at the head needs no flash operation: cmd_queue_process drops its result
\* (1411) and waits for a callback that will not come.
NothingToDo ==
  CASE Cmd(e).id = "CLEAR" -> SeekRecord(e, flash, Cmd(e).vpage_id, Cmd(e).record_id) = NULL
    [] Cmd(e).id = "CLEAR_INST" -> FindRecord(e, flash, Cmd(e).instance, <<>>) = <<>>
    [] Cmd(e).id = "GC" -> \A p \in Page : Data(e, p).page_type = "VALID" => Data(e, p).records_open > 0
    [] OTHER -> FALSE

\* Every command is reported in the end, but for two cases the code does not lead on: an
\* operation that failed; and the queue stands still once a command has come to its head
\* that has nothing to do, and for no other reason: the record to clear is not there, or
\* every page to collect has open records.
CommandsEnd ==
  /\ []<>(e.m_cmd_queue = <<>> \/ NeverRepeated \/ StandsStill)
  /\ [][ StandsStill' /\ ~StandsStill
          => NothingToDo' /\ Len(e'.m_cmd_queue) # Len(e.m_cmd_queue) ]_vars
=============================================================================
