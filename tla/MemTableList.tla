---------------------------- MODULE MemTableList ----------------------------
(***************************************************************************)
(* The immutable memtables of one column family (db/memtable_list.cc) and  *)
(* how flush jobs take them, give them back and remove them.  A list is a  *)
(* record: its memtables oldest first (memlist_ read from the back), the   *)
(* counter and the flags the scheduler reads.  Every operator takes the    *)
(* old list and returns the new one; the DB mutex is held throughout.      *)
(*                                                                         *)
(* The edit_ of the first memtable of a job describes the job's output:    *)
(* its table file, the epoch that orders it in level 0, the memtables in   *)
(* it and the log number recovery may start from once it is committed.  A  *)
(* file number and an epoch are allocated together, so one number serves.  *)
(***************************************************************************)
EXTENDS Naturals, Sequences, FiniteSets, SequencesExt

CONSTANT min_write_buffer_number_to_merge    \* ColumnFamilyOptions

ASSUME MergeAssumption == min_write_buffer_number_to_merge \in Nat \ {0}

NoEdit == [file |-> 0, ids |-> {}, log |-> 0]
NewMemTable(id) ==
    [id |-> id, flush_in_progress |-> FALSE, flush_completed |-> FALSE,
     file_number |-> 0, edit |-> NoEdit]

EmptyList == [memlist |-> << >>, num_flush_not_started |-> 0,
              flush_requested |-> FALSE, commit_in_progress |-> FALSE]

Add(L, id) ==
    [L EXCEPT !.memlist = Append(@, NewMemTable(id)),
              !.num_flush_not_started = @ + 1]

FlushRequested(L) == [L EXCEPT !.flush_requested = TRUE]

IsFlushPending(L) ==
    \/ L.flush_requested /\ L.num_flush_not_started > 0
    \/ L.num_flush_not_started >= min_write_buffer_number_to_merge

LatestID(L) == IF L.memlist = << >> THEN 0 ELSE Last(L.memlist).id

(* The positions PickMemtablesToFlush takes: from the oldest memtable that *)
(* nobody flushes up to the next one that somebody does.                   *)
Picked(L) ==
    LET free == {i \in DOMAIN L.memlist : ~L.memlist[i].flush_in_progress}
    IN  {i \in free : \A j \in free : j..i \subseteq free}

(* PickMemtablesToFlush, and what FlushJob::PickMemTable notes in the edit *)
(* of the first one.  A memtable's log has its own number, and the next    *)
(* log number is one more.                                                 *)
PickMemtablesToFlush(L, file) ==
    LET at == Picked(L)
        ids == {L.memlist[i].id : i \in at}
        first == CHOOSE i \in at : \A j \in at : i <= j
        next_log == 1 + (CHOOSE i \in ids : \A j \in ids : j <= i)
    IN  [L EXCEPT
            !.memlist = [i \in DOMAIN @ |->
                IF i \notin at THEN @[i]
                ELSE [@[i] EXCEPT !.flush_in_progress = TRUE,
                        !.edit = IF i # first THEN @
                                 ELSE [file |-> file, ids |-> ids,
                                       log |-> next_log]]],
            !.num_flush_not_started = @ - Cardinality(at),
            !.flush_requested = FALSE]

(* The memtables whose ids are in S become as if no flush had begun.       *)
Restore(L, S) ==
    [L EXCEPT
        !.memlist = [i \in DOMAIN @ |-> IF @[i].id \in S
                                        THEN NewMemTable(@[i].id) ELSE @[i]],
        !.num_flush_not_started = @ + Cardinality(S)]

(* RollbackMemtableFlush of the memtables a failed job had picked.         *)
RollbackForgetsCount(L, mems) ==    \* mutated: num_flush_not_started_ stays
    [Restore(L, mems) EXCEPT !.num_flush_not_started = L.num_flush_not_started]
RollbackMemtableFlush(L, mems) == Restore(L, mems)

(* TryInstallMemtableFlushResults: the job's memtables are complete.       *)
MarkCompleted(L, mems, file) ==
    [L EXCEPT !.memlist = [i \in DOMAIN @ |->
        IF @[i].id \in mems
        THEN [@[i] EXCEPT !.flush_completed = TRUE, !.file_number = file]
        ELSE @[i]]]

(* How many memtables, from the oldest on, can be committed together, and  *)
(* the edits they bring: one for each file.                                *)
CompletedPrefix(L) ==
    {i \in DOMAIN L.memlist : \A j \in 1..i : L.memlist[j].flush_completed}
BatchEdits(L) ==
    {L.memlist[i].edit : i \in {i \in CompletedPrefix(L) :
        i = 1 \/ L.memlist[i].file_number # L.memlist[i - 1].file_number}}

(* RemoveMemTablesOrRestoreFlags, for the column family is not dropped.    *)
RemoveMemTablesAnyway(L, ok, batch) ==    \* mutated: a failed commit as well
    [L EXCEPT !.memlist = SelectSeq(@, LAMBDA m : m.id \notin batch)]
RemoveMemTablesOrRestoreFlags(L, ok, batch) ==
    IF ok
    THEN [L EXCEPT !.memlist = SelectSeq(@, LAMBDA m : m.id \notin batch)]
    ELSE Restore(L, batch)
=============================================================================
