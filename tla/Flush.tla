------------------------------- MODULE Flush -------------------------------
(***************************************************************************)
(* Background flushes of one column family and what happens when they      *)
(* fail: DBImpl's flush queue and flush threads, FlushJob, the commit to   *)
(* the MANIFEST, obsolete-file deletion, DB::Resume, the automatic         *)
(* recovery thread and DB::Close, over MemTableList and ErrorHandler.      *)
(*                                                                         *)
(* Everything happens under the DB mutex except writing a table file,      *)
(* writing the MANIFEST, deleting files, sleeping and joining a thread: an *)
(* action is what a thread does between two of those.  A wait on bg_cv_ is *)
(* a loop around its condition, so it is the guard of the next action.     *)
(***************************************************************************)
EXTENDS MemTableList, ErrorHandler, FiniteSetsExt

CONSTANTS
    Flushers,       \* the flush threads of the pool
    Setups          \* the options and faults of a behaviour, chosen at Init

(* max_flushes: GetBGJobLimits; table, manifest, dummy, wal: how many      *)
(* writes of a table file, of a flush or of a dummy edit to the MANIFEST   *)
(* and of the log may fail, and `kinds' how; close: DB::Close may be       *)
(* called; memtables: a bound on the memtables ever written to; calls: a   *)
(* bound on the calls of DB::Flush and DB::Resume.  A setup is calm if at  *)
(* most one write fails and no job is rolled back while another one runs.  *)
ASSUME SetupAssumption ==
    \A s \in Setups :
        /\ s.max_flushes \in 1..Cardinality(Flushers)
        /\ {s.table, s.manifest, s.dummy, s.wal, s.memtables, s.calls}
                \subseteq Nat
        /\ s.kinds \subseteq ErrorKinds
        /\ s.close \in BOOLEAN
        /\ s.calm = (/\ s.table + s.manifest + s.dummy + s.wal <= 1
                     /\ s.max_flushes = 1 \/ s.table + s.manifest = 0)

VARIABLES
    setup,          \* the options and the faults still to come
    imm,            \* the immutable memtables
    mem,            \* the active memtable: its id, whether it holds data
    current,        \* the current version: level 0 and the log number
    on_disk,        \* the contents a restart may find the MANIFEST to have
    io_status,      \* versions_->io_status()
    files,          \* the table files in the directory
    first_log,      \* the oldest log file in the directory
    next_file,      \* the next file number and epoch
    disable_delete_obsolete_files,
    queued,         \* the request in flush_queue_: its reason, or "none"
    unscheduled_flushes,
    bg_flush_scheduled,
    eh,             \* error_handler_
    shutdown_initiated,
    shutting_down,
    job,            \* the flush threads
    rec,            \* the recovery thread and the caller of DB::Resume
    user,           \* the caller of Put and DB::Flush
    closer,         \* the caller of DB::Close
    calls

schedVars == <<queued, unscheduled_flushes, bg_flush_scheduled>>
versionVars == <<current, on_disk, io_status>>
fileVars == <<files, first_log, next_file, disable_delete_obsolete_files>>
downVars == <<shutdown_initiated, shutting_down>>
vars == <<setup, imm, mem, versionVars, fileVars, schedVars, eh, downVars,
          job, rec, user, closer, calls>>

Resumers == {"auto", "manual"}
NoJob == [at |-> "idle", pending |-> 0, file |-> 0, mems |-> {}, batch |-> {},
          edits |-> {}, status |-> "ok", purge |-> {}]
NoRecovery == [at |-> "idle", status |-> "ok", upto |-> 0, reenable |-> FALSE,
               left |-> 0, flush_reason |-> "kErrorRecovery",
               no_bg_work |-> FALSE, purge |-> {}]

Init ==
    /\ setup \in Setups
    /\ imm = EmptyList
    /\ mem = [id |-> 1, empty |-> TRUE]
    /\ current = [L0 |-> {}, log |-> 1]
    /\ on_disk = {current}
    /\ io_status = "ok"
    /\ files = {}
    /\ first_log = 1
    /\ next_file = 1
    /\ disable_delete_obsolete_files = 0
    /\ queued = "none"
    /\ unscheduled_flushes = 0
    /\ bg_flush_scheduled = 0
    /\ eh = NewHandler
    /\ shutdown_initiated = FALSE
    /\ shutting_down = FALSE
    /\ job = [f \in Flushers |-> NoJob]
    /\ rec = [r \in Resumers |-> NoRecovery]
    /\ user = [at |-> "idle", upto |-> 0, status |-> "none"]
    /\ closer = "idle"
    /\ calls = 0
----------------------------------------------------------------------------
(* MaybeScheduleFlushOrCompaction, called at the end of a step that left   *)
(* `pending' requests without a thread and `scheduled' threads at work.    *)
MaybeScheduleFlush(pending, scheduled) ==
    LET free == setup.max_flushes - scheduled
        stop == \/ IsBGWorkStopped(eh') /\ ~eh'.recovery_in_prog
                \/ shutting_down'
        n == IF stop THEN 0 ELSE IF pending < free THEN pending ELSE free
    IN  /\ unscheduled_flushes' = pending - n
        /\ bg_flush_scheduled' = scheduled + n

(* SchedulePendingFlush of a request, and MaybeScheduleFlushOrCompaction.  *)
SchedulePendingFlush(reason) ==
    IF queued = "none" /\ IsFlushPending(imm')
    THEN queued' = reason /\ MaybeScheduleFlush(unscheduled_flushes + 1,
                                                bg_flush_scheduled)
    ELSE UNCHANGED queued /\ MaybeScheduleFlush(unscheduled_flushes,
                                                bg_flush_scheduled)

(* SwitchMemtable                                                          *)
Switched == [id |-> mem.id + 1, empty |-> TRUE]

(* SetBGError, reported by a flush thread or by a writer.                  *)
(* An earlier recovery thread is joined with the mutex released.           *)
ReportBGError(kind, reason) ==
    LET e == SetBGError(eh, kind, reason)
        starts == StartsRecovery(e, kind) /\ ~MustJoin(e)
    IN  /\ eh' = IF starts THEN StartRecoveryThread(e) ELSE e
        /\ rec' = IF starts THEN [rec EXCEPT !["auto"].at = "start"] ELSE rec
Joins(kind, reason) ==
    LET e == SetBGError(eh, kind, reason)
    IN  StartsRecovery(e, kind) /\ MustJoin(e)

(* StartRecoverFromRetryableBGIOError after the join.                      *)
RestartRecovery ==
    /\ eh.thread = "exited"
    /\ eh' = StartRecoveryThread(eh)
    /\ rec' = [rec EXCEPT !["auto"] = [NoRecovery EXCEPT !.at = "start"]]
----------------------------------------------------------------------------
(* Put, DB::Flush                                                          *)

(* PreprocessWrite lets a write through unless the database is stopped.    *)
MayWrite == user.at = "idle" /\ ~shutdown_initiated
            /\ (eh.is_db_stopped => eh.bg_error = kNoError)

Put ==
    /\ MayWrite
    /\ mem.empty /\ mem.id <= setup.memtables
    /\ mem' = [mem EXCEPT !.empty = FALSE]
    /\ UNCHANGED <<setup, imm, versionVars, fileVars, schedVars, eh, downVars,
                   job, rec, user, closer, calls>>

(* ScheduleFlushes: the memtable is full.                                  *)
ScheduleFlushes ==
    /\ MayWrite
    /\ ~mem.empty
    /\ imm' = Add(imm, mem.id)
    /\ mem' = Switched
    /\ UNCHANGED <<eh, downVars>>
    /\ SchedulePendingFlush("kWriteBufferFull")
    /\ UNCHANGED <<setup, versionVars, fileVars, job, rec, user, closer, calls>>

(* WriteToWAL fails: IOStatusCheck                                         *)
WriteFails ==
    /\ MayWrite
    /\ setup.wal > 0
    /\ \E kind \in setup.kinds :
        /\ ReportBGError(kind, "kWriteCallback")
        /\ user' = [user EXCEPT !.at = IF Joins(kind, "kWriteCallback")
                                       THEN "join" ELSE "idle"]
    /\ setup' = [setup EXCEPT !.wal = @ - 1]
    /\ UNCHANGED <<imm, mem, versionVars, fileVars, schedVars, downVars, job,
                   closer, calls>>
UserJoins ==
    /\ user.at = "join"
    /\ RestartRecovery
    /\ user' = [user EXCEPT !.at = "idle"]
    /\ UNCHANGED <<setup, imm, mem, versionVars, fileVars, schedVars, downVars,
                   job, closer, calls>>

(* FlushMemTable up to its wait, for a request of the given reason: the    *)
(* memtable is switched unless this retries a failed flush, and a flush is *)
(* requested if there is anything to wait for.                             *)
FlushMemTable(reason) ==
    LET switch == reason # "kErrorRecoveryRetryFlush" /\ ~mem.empty
        L == IF switch THEN Add(imm, mem.id) ELSE imm
    IN  /\ mem' = IF switch THEN Switched ELSE mem
        /\ UNCHANGED <<eh, downVars>>
        /\ IF L.memlist # << >> \/ ~mem'.empty
           THEN imm' = FlushRequested(L) /\ SchedulePendingFlush(reason)
           ELSE imm' = L /\ UNCHANGED schedVars

BeginFlush ==
    /\ user.at = "idle" /\ ~shutdown_initiated
    /\ calls < setup.calls
    /\ calls' = calls + 1
    /\ FlushMemTable("kManualFlush")
    /\ user' = [at |-> "flushing", upto |-> LatestID(imm'), status |-> "none"]
    /\ UNCHANGED <<setup, versionVars, fileVars, job, rec, closer>>

(* WaitForFlushMemTables: the memtables up to `upto' have been flushed.  A *)
(* caller that finds the database stopped returns the background error     *)
(* without waiting: OK if the error has been cleared since.                *)
Flushed(upto) == imm.memlist = << >> \/ imm.memlist[1].id > upto
FlushWaitResult(resuming, upto) ==
    IF ~resuming /\ eh.is_db_stopped
    THEN IF eh.bg_error = kNoError THEN "unwaited" ELSE "error"
    ELSE IF shutting_down THEN "shutdown"
    ELSE IF eh.recovery_error # kNoError THEN "error"
    ELSE IF /\ ~resuming /\ IsBGWorkStopped(eh)
            /\ eh.bg_error < kHardError THEN "error"
    ELSE IF Flushed(upto) THEN "ok" ELSE "wait"

EndFlush ==
    LET s == FlushWaitResult(FALSE, user.upto)
    IN
    /\ user.at = "flushing"
    /\ s # "wait"
    /\ user' = [user EXCEPT !.at = "flushed", !.status = s]
    /\ UNCHANGED <<setup, imm, mem, versionVars, fileVars, schedVars, eh,
                   downVars, job, rec, closer, calls>>
FlushReturns ==
    /\ user.at = "flushed"
    /\ user' = [at |-> "idle", upto |-> 0, status |-> "none"]
    /\ UNCHANGED <<setup, imm, mem, versionVars, fileVars, schedVars, eh,
                   downVars, job, rec, closer, calls>>
----------------------------------------------------------------------------
(* BackgroundCallFlush                                                     *)

Running == {f \in Flushers : job[f].at # "idle"}
StartsFlush(f) == job[f].at = "idle" /\ Cardinality(Running) < bg_flush_scheduled

(* BackgroundFlush refuses: the database is stopped, or shutting down.     *)
FlushRefused(f) ==
    LET stop == IsBGWorkStopped(eh) /\ ~eh.recovery_in_prog
        down == ~IsBGWorkStopped(eh) /\ shutting_down
    IN
    /\ StartsFlush(f)
    /\ stop \/ down
    /\ job' = [job EXCEPT ![f] = [NoJob EXCEPT !.at = "finish",
                                     !.pending = next_file,
                                     !.status = IF stop THEN "error"
                                                ELSE "shutdown"]]
    /\ UNCHANGED <<setup, imm, mem, versionVars, fileVars, schedVars, eh,
                   downVars, rec, user, closer, calls>>

FlushAllowed == \/ ~IsBGWorkStopped(eh) /\ ~shutting_down
                \/ IsBGWorkStopped(eh) /\ eh.recovery_in_prog

(* FlushMemTableToOutputFile: PickMemTable; the output file is created.    *)
(* With one column family the queue holds at most one request, and only a  *)
(* flush thread takes memtables, so a thread finds its request pending.    *)
PickMemTable(f) ==
    /\ StartsFlush(f)
    /\ FlushAllowed
    /\ queued # "none" /\ IsFlushPending(imm)
    /\ queued' = "none"
    /\ imm' = PickMemtablesToFlush(imm, next_file)
    /\ job' = [job EXCEPT ![f] = [NoJob EXCEPT !.at = "write",
                    !.pending = next_file, !.file = next_file,
                    !.mems = {imm.memlist[i].id : i \in Picked(imm)}]]
    /\ files' = files \cup {next_file}
    /\ next_file' = next_file + 1
    /\ UNCHANGED <<setup, mem, versionVars, first_log, disable_delete_obsolete_files,
                   unscheduled_flushes, bg_flush_scheduled, eh, downVars, rec,
                   user, closer, calls>>

(* The loop of TryInstallMemtableFlushResults, with L the memtables: go on *)
(* to write the next batch, or leave.                                      *)
InstallNext(f, L) ==
    LET batch == {L.memlist[i].id : i \in CompletedPrefix(L)}
    IN  IF batch # {}
        THEN /\ imm' = [L EXCEPT !.commit_in_progress = TRUE]
             /\ job' = [job EXCEPT ![f].at = "commit", ![f].batch = batch,
                                   ![f].edits = BatchEdits(L)]
             /\ UNCHANGED <<unscheduled_flushes, bg_flush_scheduled>>
        ELSE /\ imm' = [L EXCEPT !.commit_in_progress = FALSE]
             /\ job' = [job EXCEPT ![f].at = "finish", ![f].batch = {},
                                   ![f].edits = {}]
             /\ MaybeScheduleFlush(unscheduled_flushes, bg_flush_scheduled)

(* WriteLevel0Table succeeds; another thread may already be committing.    *)
TableWritten(f) ==
    LET L == MarkCompleted(imm, job[f].mems, job[f].file)
    IN
    /\ job[f].at = "write"
    /\ ~shutting_down
    /\ UNCHANGED <<eh, downVars>>
    /\ IF imm.commit_in_progress
       THEN /\ imm' = L
            /\ job' = [job EXCEPT ![f].at = "finish"]
            /\ MaybeScheduleFlush(unscheduled_flushes, bg_flush_scheduled)
       ELSE InstallNext(f, L)
    /\ UNCHANGED <<setup, mem, versionVars, fileVars, queued, rec, user, closer,
                   calls>>

(* ... or fails (BuildTable then deletes the file), or the database shuts  *)
(* down meanwhile.                                                         *)
TableFails(f) ==
    /\ job[f].at = "write"
    /\ setup.table > 0
    /\ setup' = [setup EXCEPT !.table = @ - 1]
    /\ imm' = RollbackMemtableFlush(imm, job[f].mems)
    /\ files' = files \ {job[f].file}
    /\ \E kind \in setup.kinds :
        /\ ReportBGError(kind, "kFlushNoWAL")
        /\ job' = [job EXCEPT ![f].status = "error", ![f].at =
                    IF Joins(kind, "kFlushNoWAL") THEN "join" ELSE "finish"]
    /\ UNCHANGED <<mem, versionVars, first_log, next_file,
                   disable_delete_obsolete_files, schedVars, downVars, user, closer, calls>>
TableShutdown(f) ==
    /\ job[f].at = "write"
    /\ shutting_down
    /\ imm' = RollbackMemtableFlush(imm, job[f].mems)
    /\ job' = [job EXCEPT ![f].at = "finish", ![f].status = "shutdown"]
    /\ UNCHANGED <<setup, mem, versionVars, fileVars, schedVars, eh, downVars,
                   rec, user, closer, calls>>

(* LogAndApply of a batch: the version it leads to.  A table file that     *)
(* cannot be opened fails the commit before the MANIFEST is written        *)
(* (LoadTableHandlers).                                                    *)
Applied(f) ==
    [L0 |-> current.L0 \cup job[f].edits,
     log |-> Max({current.log} \cup {e.log : e \in job[f].edits})]
Openable(f) == \A e \in job[f].edits : e.file \in files

CommitOk(f) ==
    /\ job[f].at = "commit"
    /\ Openable(f)
    /\ current' = Applied(f)
    /\ on_disk' = {current'}
    /\ io_status' = "ok"
    /\ UNCHANGED <<eh, downVars>>
    /\ InstallNext(f, RemoveMemTablesOrRestoreFlags(imm, TRUE, job[f].batch))
    /\ UNCHANGED <<setup, mem, fileVars, queued, rec, user, closer, calls>>

CommitRestores(f) ==
    imm' = [RemoveMemTablesOrRestoreFlags(imm, FALSE, job[f].batch)
              EXCEPT !.commit_in_progress = FALSE]

(* The write of the MANIFEST fails, and what it holds now is not known; or *)
(* a table file cannot be opened, and nothing is written.                  *)
CommitFails(f) ==
    LET wrote == Openable(f)
        reason == IF wrote THEN "kManifestWriteNoWAL" ELSE "kFlushNoWAL"
    IN
    /\ job[f].at = "commit"
    /\ wrote => setup.manifest > 0
    /\ setup' = [setup EXCEPT !.manifest = IF wrote THEN @ - 1 ELSE @]
    /\ on_disk' = IF wrote THEN on_disk \cup {Applied(f)} ELSE on_disk
    /\ io_status' = IF wrote THEN "error" ELSE "ok"
    /\ CommitRestores(f)
    /\ disable_delete_obsolete_files' =
            disable_delete_obsolete_files + (IF wrote THEN 1 ELSE 0)
    /\ \E kind \in IF wrote THEN setup.kinds ELSE {"other"} :
        /\ ReportBGError(kind, reason)
        /\ job' = [job EXCEPT ![f].status = "error", ![f].batch = {},
                    ![f].edits = {},
                    ![f].at = IF Joins(kind, reason) THEN "join" ELSE "finish"]
    /\ UNCHANGED <<mem, current, files, first_log, next_file, schedVars,
                   downVars, user, closer, calls>>

FlusherJoins(f) ==
    /\ job[f].at = "join"
    /\ RestartRecovery
    /\ job' = [job EXCEPT ![f].at = "finish"]
    /\ UNCHANGED <<setup, imm, mem, versionVars, fileVars, schedVars, downVars,
                   user, closer, calls>>

(* FindObsoleteFiles, doing the full scan: the table files that are not    *)
(* live and older than every job in `jobs', and the logs no longer needed. *)
(* The files go outside the mutex.                                         *)
ObsoleteFiles(jobs) ==
    {n \in files : /\ \A e \in current.L0 : e.file # n
                   /\ \A g \in jobs : n < job[g].pending}
FindObsoleteFilesAlways(disabled, jobs) ==    \* mutated: even if disabled
    ObsoleteFiles(jobs)
FindObsoleteFiles(disabled, jobs) ==
    IF disabled > 0 THEN {} ELSE ObsoleteFiles(jobs)
LogsKept(disabled) == IF disabled > 0 THEN first_log ELSE current.log

(* The end of BackgroundCallFlush: after a failure the directory is always *)
(* scanned, otherwise only now and then.                                   *)
ReleaseOutputs(f) ==
    LET found == FindObsoleteFiles(disable_delete_obsolete_files, Running \ {f})
    IN
    /\ job[f].at = "finish"
    /\ \/ job' = [job EXCEPT ![f].at = "purge", ![f].purge = found]
       \/ job[f].status # "error" /\ job' = [job EXCEPT ![f].at = "purge"]
    /\ first_log' = LogsKept(disable_delete_obsolete_files)
    /\ UNCHANGED <<setup, imm, mem, versionVars, files, next_file,
                   disable_delete_obsolete_files, schedVars, eh, downVars, rec,
                   user, closer, calls>>
FinishFlushForgets(f) ==    \* mutated: what is still queued gets no thread
    /\ job[f].at = "purge"
    /\ files' = files \ job[f].purge
    /\ job' = [job EXCEPT ![f] = NoJob]
    /\ UNCHANGED <<eh, downVars>>
    /\ bg_flush_scheduled' = bg_flush_scheduled - 1
    /\ UNCHANGED unscheduled_flushes
    /\ UNCHANGED <<setup, imm, mem, versionVars, first_log, next_file,
                   disable_delete_obsolete_files, queued, rec, user, closer,
                   calls>>
FinishFlushLeaks(f) ==    \* mutated: bg_flush_scheduled_ is not decremented
    /\ job[f].at = "purge"
    /\ files' = files \ job[f].purge
    /\ job' = [job EXCEPT ![f] = NoJob]
    /\ UNCHANGED <<eh, downVars>>
    /\ MaybeScheduleFlush(unscheduled_flushes, bg_flush_scheduled)
    /\ UNCHANGED <<setup, imm, mem, versionVars, first_log, next_file,
                   disable_delete_obsolete_files, queued, rec, user, closer,
                   calls>>
FinishFlush(f) ==
    /\ job[f].at = "purge"
    /\ files' = files \ job[f].purge
    /\ job' = [job EXCEPT ![f] = NoJob]
    /\ UNCHANGED <<eh, downVars>>
    /\ MaybeScheduleFlush(unscheduled_flushes, bg_flush_scheduled - 1)
    /\ UNCHANGED <<setup, imm, mem, versionVars, first_log, next_file,
                   disable_delete_obsolete_files, queued, rec, user, closer,
                   calls>>
----------------------------------------------------------------------------
(* RecoverFromRetryableBGIOError, the recovery thread: one turn of its     *)
(* loop up to the wait at the top of ResumeImpl.  It looks at              *)
(* end_recovery_ when it starts and whenever it has an attempt left; with  *)
(* none left it stops, whether or not it was told to.                      *)
RecoveryAttempt ==
    LET r == rec["auto"]
        first == r.at = "start"
        left == IF first THEN max_bgerror_resume_count ELSE r.left
        reason == IF first THEN eh.flush_reason ELSE r.flush_reason
    IN
    /\ r.at \in {"start", "sleep"}
    /\ IF eh.end_recovery /\ (first \/ left > 0)
       THEN eh' = Abandoned(eh) /\ rec' = [rec EXCEPT !["auto"] = NoRecovery]
       ELSE IF left = 0
       THEN eh' = Stopped(eh) /\ rec' = [rec EXCEPT !["auto"] = NoRecovery]
       ELSE /\ eh' = [eh EXCEPT !.recovery_io_error = "ok",
                                !.recovery_error = kNoError]
            /\ rec' = [rec EXCEPT !["auto"] =
                        [NoRecovery EXCEPT !.at = "wait_bg", !.left = left,
                                           !.flush_reason = reason]]
    /\ UNCHANGED <<setup, imm, mem, versionVars, fileVars, schedVars, downVars,
                   job, user, closer, calls>>

(* DB::Resume up to the same point.                                        *)
Resume ==
    LET e == BeginManualRecovery(eh)
    IN
    /\ rec["manual"].at = "idle" /\ closer = "idle"
    /\ calls < setup.calls
    /\ calls' = calls + 1
    /\ eh.is_db_stopped \/ IsBGWorkStopped(eh)
    /\ ~eh.recovery_in_prog
    /\ IF ClearsAtOnce(e)
       THEN eh' = ClearBGError(e) /\ UNCHANGED rec
       ELSE /\ eh' = e
            /\ rec' = [rec EXCEPT !["manual"] =
                        [NoRecovery EXCEPT !.at = "wait_bg",
                            !.flush_reason = e.flush_reason,
                            !.no_bg_work = eh.soft_error_no_bg_work]]
    /\ UNCHANGED <<setup, imm, mem, versionVars, fileVars, schedVars, downVars,
                   job, user, closer>>

(* ResumeImpl                                                              *)
ResumeBegins(r) ==
    LET s == IF shutdown_initiated THEN "shutdown"
             ELSE IF eh.bg_error > kHardError THEN "error" ELSE "ok"
    IN
    /\ rec[r].at = "wait_bg"
    /\ bg_flush_scheduled = 0
    /\ rec' = [rec EXCEPT ![r].status = s,
                          ![r].reenable = disable_delete_obsolete_files > 0,
                          ![r].at = IF s # "ok" THEN "find"
                                    ELSE IF io_status # "ok" THEN "manifest"
                                    ELSE "flush"]
    /\ UNCHANGED <<setup, imm, mem, versionVars, fileVars, schedVars, eh,
                   downVars, job, user, closer, calls>>

(* A dummy edit forces a new MANIFEST holding the current version.         *)
ResumeManifest(r) ==
    /\ rec[r].at = "manifest"
    /\ on_disk' = {current}
    /\ io_status' = "ok"
    /\ rec' = [rec EXCEPT ![r].at = "flush"]
    /\ UNCHANGED <<setup, imm, mem, current, fileVars, schedVars, eh, downVars,
                   job, user, closer, calls>>
ResumeManifestFails(r) ==
    /\ rec[r].at = "manifest"
    /\ setup.dummy > 0
    /\ setup' = [setup EXCEPT !.dummy = @ - 1]
    /\ io_status' = "error"
    /\ on_disk' = on_disk \cup {current}
    /\ disable_delete_obsolete_files' = disable_delete_obsolete_files + 1
    /\ \E kind \in setup.kinds : eh' = SetBGError(eh, kind, "kManifestWrite")
    /\ rec' = [rec EXCEPT ![r].at = "find", ![r].status = "error"]
    /\ UNCHANGED <<imm, mem, current, files, first_log, next_file, schedVars,
                   downVars, job, user, closer, calls>>

ResumeFlush(r) ==
    /\ rec[r].at = "flush"
    /\ FlushMemTable(rec[r].flush_reason)
    /\ rec' = [rec EXCEPT ![r].at = "flushing", ![r].upto = LatestID(imm')]
    /\ UNCHANGED <<setup, versionVars, fileVars, job, user, closer, calls>>
ResumeFlushed(r) ==
    LET s == FlushWaitResult(TRUE, rec[r].upto)
    IN
    /\ rec[r].at = "flushing"
    /\ s # "wait"
    /\ rec' = [rec EXCEPT ![r].at = "find", ![r].status = s]
    /\ UNCHANGED <<setup, imm, mem, versionVars, fileVars, schedVars, eh,
                   downVars, job, user, closer, calls>>

ResumeFinds(r) ==
    /\ rec[r].at = "find"
    /\ rec' = [rec EXCEPT ![r].at = "purge",
            ![r].purge = FindObsoleteFiles(disable_delete_obsolete_files,
                                           Running)]
    /\ first_log' = LogsKept(disable_delete_obsolete_files)
    /\ UNCHANGED <<setup, imm, mem, versionVars, files, next_file,
                   disable_delete_obsolete_files, schedVars, eh, downVars, job,
                   user, closer, calls>>
ResumePurges(r) ==
    /\ rec[r].at = "purge"
    /\ files' = files \ rec[r].purge
    /\ rec' = [rec EXCEPT ![r].purge = {}, ![r].at =
                IF rec[r].status = "ok" /\ rec[r].reenable THEN "enable"
                ELSE "finish"]
    /\ UNCHANGED <<setup, imm, mem, versionVars, first_log, next_file,
                   disable_delete_obsolete_files, schedVars, eh, downVars, job,
                   user, closer, calls>>

(* EnableFileDeletions(force), which looks for obsolete files once more.   *)
EnableFileDeletions(r) ==
    /\ rec[r].at = "enable"
    /\ disable_delete_obsolete_files' = 0
    /\ first_log' = LogsKept(0)
    /\ rec' = [rec EXCEPT ![r].at = "purge", ![r].reenable = FALSE,
                          ![r].purge = FindObsoleteFiles(0, Running)]
    /\ UNCHANGED <<setup, imm, mem, versionVars, files, next_file, schedVars,
                   eh, downVars, job, user, closer, calls>>

(* The end of ResumeImpl and what its caller makes of the result.          *)
ResumeEnds(r) ==
    LET cleared == IF rec[r].status = "ok" THEN ClearBGError(eh) ELSE eh
        s == IF shutdown_initiated THEN "shutdown"
             ELSE IF rec[r].status = "ok" /\ eh.recovery_error # kNoError
             THEN "error" ELSE rec[r].status
        verdict == IF r = "manual" THEN "manual" ELSE Outcome(cleared, s)
    IN
    /\ rec[r].at = "finish"
    /\ eh' = CASE verdict = "manual" ->
                    EndManualRecovery(cleared, s = "ok", rec[r].no_bg_work)
               [] verdict = "stop" -> Stopped(cleared)
               [] verdict = "retry" -> cleared
               [] verdict = "recovered" -> Recovered(cleared)
    /\ rec' = [rec EXCEPT ![r] =
                IF verdict = "retry"
                THEN [@ EXCEPT !.at = "sleep", !.left = @ - 1,
                               !.status = "ok", !.upto = 0, !.reenable = FALSE]
                ELSE NoRecovery]
    /\ UNCHANGED <<queued, downVars>>
    /\ IF s = "ok" THEN MaybeScheduleFlush(unscheduled_flushes,
                                           bg_flush_scheduled)
       ELSE UNCHANGED <<unscheduled_flushes, bg_flush_scheduled>>
    /\ UNCHANGED <<setup, imm, mem, versionVars, fileVars, job, user, closer,
                   calls>>
----------------------------------------------------------------------------
(* CloseHelper, no other call being in progress.                           *)

CancelErrorRecovery ==
    /\ setup.close
    /\ closer = "idle" /\ user.at = "idle" /\ rec["manual"].at = "idle"
    /\ closer' = "cancel_sfm"
    /\ shutdown_initiated' = TRUE
    /\ eh' = [eh EXCEPT !.auto_recovery = FALSE]
    /\ UNCHANGED <<setup, imm, mem, versionVars, fileVars, schedVars,
                   shutting_down, job, rec, user, calls>>
EndAutoRecovery ==
    /\ closer = "cancel_sfm"
    /\ closer' = "join"
    /\ eh' = [eh EXCEPT !.end_recovery = TRUE]
    /\ UNCHANGED <<setup, imm, mem, versionVars, fileVars, schedVars, downVars,
                   job, rec, user, calls>>

(* EndAutoRecovery joins the recovery thread; then wait for                *)
(* IsRecoveryInProgress to be false.                                       *)
CloseAwaits(from, cond, to) ==
    /\ closer = from
    /\ cond
    /\ closer' = to
    /\ UNCHANGED <<setup, imm, mem, versionVars, fileVars, schedVars, eh,
                   downVars, job, rec, user, calls>>
CloseJoined == CloseAwaits("join", eh.thread # "running", "recovery")
CloseSeesNoRecovery == CloseAwaits("recovery", ~eh.recovery_in_prog, "cancel")

CancelAllBackgroundWork ==
    /\ closer = "cancel"
    /\ shutting_down' = TRUE
    /\ closer' = "unschedule"
    /\ UNCHANGED <<setup, imm, mem, versionVars, fileVars, schedVars,
                   shutdown_initiated, eh, job, rec, user, calls>>
UnScheduleTasks ==
    /\ closer = "unschedule"
    /\ bg_flush_scheduled' = Cardinality(Running)
    /\ closer' = "drain"
    /\ UNCHANGED <<setup, imm, mem, versionVars, fileVars, queued,
                   unscheduled_flushes, eh, downVars, job, rec, user, calls>>
CloseDrained ==
    /\ closer = "drain"
    /\ bg_flush_scheduled = 0
    /\ ~eh.recovery_in_prog
    /\ queued' = "none"
    /\ files' = files \ FindObsoleteFiles(disable_delete_obsolete_files, {})
    /\ first_log' = LogsKept(disable_delete_obsolete_files)
    /\ closer' = "closed"
    /\ UNCHANGED <<setup, imm, mem, versionVars, next_file,
                   disable_delete_obsolete_files, unscheduled_flushes,
                   bg_flush_scheduled, eh, downVars, job, rec, user, calls>>
----------------------------------------------------------------------------
FlushStep(f) ==
    \/ FlushRefused(f) \/ PickMemTable(f)
    \/ TableWritten(f) \/ TableFails(f) \/ TableShutdown(f)
    \/ CommitOk(f) \/ CommitFails(f)
    \/ FlusherJoins(f) \/ ReleaseOutputs(f) \/ FinishFlush(f)
ResumeStep(r) ==
    \/ ResumeBegins(r) \/ ResumeManifest(r) \/ ResumeManifestFails(r)
    \/ ResumeFlush(r) \/ ResumeFlushed(r) \/ ResumeFinds(r) \/ ResumePurges(r)
    \/ EnableFileDeletions(r) \/ ResumeEnds(r)
CloseStep ==
    \/ EndAutoRecovery \/ CloseJoined \/ CloseSeesNoRecovery \/ CancelAllBackgroundWork
    \/ UnScheduleTasks \/ CloseDrained

Next ==
    \/ Put \/ ScheduleFlushes \/ WriteFails \/ UserJoins
    \/ BeginFlush \/ EndFlush \/ FlushReturns
    \/ \E f \in Flushers : FlushStep(f)
    \/ RecoveryAttempt \/ Resume
    \/ \E r \in Resumers : ResumeStep(r)
    \/ CancelErrorRecovery \/ CloseStep

Spec == Init /\ [][Next]_vars

(* Threads run, and I/O returns: nobody has to call anything.              *)
FairSpec ==
    /\ Spec
    /\ \A f \in Flushers : WF_vars(FlushStep(f))
    /\ \A r \in Resumers : WF_vars(ResumeStep(r))
    /\ WF_vars(RecoveryAttempt)
    /\ WF_vars(EndFlush \/ FlushReturns \/ UserJoins)
    /\ WF_vars(CloseStep)
----------------------------------------------------------------------------
TypeOK ==
    /\ eh \in HandlerType
    /\ io_status \in {"ok", "error"}
    /\ unscheduled_flushes \in 0..1
    /\ bg_flush_scheduled \in Cardinality(Running)..setup.max_flushes
    /\ imm.num_flush_not_started \in 0..Len(imm.memlist)
    /\ closer \in {"idle", "cancel_sfm", "join", "recovery", "cancel", "unschedule", "drain",
                   "closed"}

Covered(version) == UNION {e.ids : e \in version.L0}

(* Whatever the MANIFEST turns out to hold after a crash, a restart finds  *)
(* its table files, and finds every write in a table file or in a log it   *)
(* replays.                                                                *)
CrashRecovers ==
    \A v \in on_disk :
        /\ \A e \in v.L0 : e.file \in files
        /\ 1..(v.log - 1) \subseteq Covered(v)
        /\ first_log <= v.log

(* A table file with a larger epoch number holds newer data, so that reads *)
(* that search level 0 by epoch find the newest value first.               *)
NewerFilesHoldNewerData ==
    \A a, b \in current.L0 : a.file < b.file =>
        \A i \in a.ids, j \in b.ids : i < j

(* DB::Flush that waited and returned OK has put every write before it in  *)
(* the table files of the current version.                                 *)
FlushOkMeansFlushed ==
    user.status = "ok" => 1..user.upto \subseteq Covered(current)

(* EndAutoRecovery joins a recovery thread that left on end_recovery_      *)
(* without clearing recovery_in_prog_, and Close then waits for ever.      *)
Abandons == eh.end_recovery /\ eh.recovery_in_prog /\ eh.thread = "exited"

(* DB::Close returns, whatever flushes and recoveries it finds at work,    *)
(* except where the recovery thread abandons its recovery.  Like the next  *)
(* two it is about calm setups.  With a job rolled back beside another,    *)
(* PickMemtablesToFlush can stop at a memtable in progress between two     *)
(* that are not and forget the request for the newer one; after a second   *)
(* failure a refused flush leaves its request queued without a thread.     *)
CloseReturns ==
    setup.calm /\ closer # "idle" ~> closer = "closed" \/ Abandons

(* An error that is not fatal is recovered from: the recovery thread       *)
(* retries the flush and reopens the database, unless it is being closed.  *)
Recovers ==
    setup.calm /\ eh.bg_error \in {kSoftError, kHardError} ~>
        (eh.bg_error = kNoError /\ ~eh.is_db_stopped) \/ closer # "idle"

(* A caller of DB::Flush that waits is answered: its request is not lost   *)
(* between the queue, the flush threads and a failed job's rollback.       *)
FlushCallReturns ==
    setup.calm /\ user.at = "flushing" ~> user.at # "flushing"
=============================================================================
