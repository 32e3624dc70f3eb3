------------------------------ MODULE WalFiles ------------------------------
(***************************************************************************)
(* The life of the write-ahead logs: DBImpl::logs_ and the threads that    *)
(* sync it (a sync write, SyncWAL, and SyncClosedLogs of a flush), the     *)
(* memtable switch that pushes a log, the flush that makes logs obsolete,  *)
(* FindObsoleteFiles that pops and deletes them, and the WalSet that       *)
(* tracks the synced logs in the MANIFEST.                                 *)
(*                                                                         *)
(* logs_ is sorted by number, so it is a set of numbers here; its front is *)
(* the least one and its back is logfile_number_.  A size is a number of   *)
(* records.  What a crash would leave behind is part of every state: the   *)
(* directory entries in `linked', the first synced[n] records of log n and *)
(* the MANIFEST, whose replay gives `manifest'.                            *)
(***************************************************************************)
EXTENDS Naturals, Sequences, FiniteSets

CONSTANTS
    CFs,            \* the column families
    Syncers,        \* threads that call SyncWAL and FlushWAL
    Purgers,        \* threads that run FindObsoleteFiles
    Writer,         \* the leader of the write queue (there is one at a time)
    Flusher,        \* the flush thread
    MaxLogs,        \* bound: logs created
    MaxRecords,     \* bound: records in a log
    Setups          \* the databases to run: options, callers and bounds

Threads == Syncers \cup Purgers \cup {Writer, Flusher}
Logs == 1..MaxLogs

(* Of a setup, batches are the sets of column families a write may touch   *)
(* and sync_batches the same for a write with sync; errors and rollovers   *)
(* bound the I/O errors and the new MANIFEST files.                        *)
ASSUME WalAssumption ==
    /\ MaxLogs \in Nat \ {0} /\ MaxRecords \in Nat
    /\ Setups \subseteq
          [manual_wal_flush : BOOLEAN, track_and_verify_wals_in_manifest : BOOLEAN,
           families : (SUBSET CFs) \ {{}}, syncers : SUBSET Syncers,
           batches : SUBSET SUBSET CFs, sync_batches : SUBSET SUBSET CFs,
           logs : Logs, errors : Nat, rollovers : Nat]
    /\ Syncers \cap Purgers = {}
    /\ Writer \notin Syncers \cup Purgers
    /\ Flusher \notin Syncers \cup Purgers \cup {Writer}

VARIABLES
    setup,
    \* under log_write_mutex_
    logfile_number,     \* the current log
    log_empty,
    log_dir_synced,
    logs,               \* the numbers in logs_
    getting_synced,     \* LogWriterNumber::getting_synced
    pre_sync_size,      \* LogWriterNumber::pre_sync_size
    alive_log_files,
    \* the files
    buffered,           \* records in the current log's WritableFileWriter
    flushed,            \* records in each file (GetFlushedSize)
    synced,             \* records that survive a crash
    linked,             \* logs whose directory entry survives a crash
    files,              \* logs that have not been deleted
    \* column families and versions
    cf,                 \* log number and memtables of each column family
    min_log_number_to_keep,
    wal_set,            \* VersionSet::wals_
    manifest,           \* the WalSet that replaying the MANIFEST gives
    rollovers,
    \* control
    bg_error,
    errors,
    pc,
    local,
    \* history
    acked,              \* records of each log that a returned sync promised
    installed           \* the log number of the newest flush installed

logVars == <<logfile_number, log_empty, log_dir_synced, logs, getting_synced,
             pre_sync_size, alive_log_files>>
fileVars == <<buffered, flushed, synced, linked, files>>
versionVars == <<cf, min_log_number_to_keep, wal_set, manifest, rollovers>>
fixedVars == <<setup, acked, installed>>
vars == <<logVars, fileVars, versionVars, bg_error, errors, pc, local,
          fixedVars>>

manual_wal_flush == setup.manual_wal_flush
track_and_verify_wals_in_manifest == setup.track_and_verify_wals_in_manifest
Families == setup.families

Least(S) == CHOOSE n \in S : \A m \in S : n <= m
Larger(a, b) == IF a >= b THEN a ELSE b
NoSizes == [n \in Logs |-> 0]
(* Recovery has deleted the logs before the first one, if they are tracked. *)
RecoveredWalSet ==
    [wals |-> NoSizes, min_wal_number_to_keep |->
        IF track_and_verify_wals_in_manifest THEN 1 ELSE 0]

NoLocal == [up_to |-> 0, held |-> {}, todo |-> {}, need_dir |-> FALSE,
            ok |-> TRUE, synced_wals |-> NoSizes, promise |-> NoSizes,
            cfs |-> {}, count |-> 0, min_log |-> 0, deletes |-> {}]

(* A database whose logs have been recovered and flushed; log 1 is the new *)
(* one, empty and not synced.                                              *)
Init ==
    /\ setup \in Setups
    /\ logfile_number = 1
    /\ log_empty = TRUE
    /\ log_dir_synced = FALSE
    /\ logs = {1}
    /\ getting_synced = [n \in Logs |-> FALSE]
    /\ pre_sync_size = NoSizes
    /\ alive_log_files = {1}
    /\ buffered = 0
    /\ flushed = NoSizes
    /\ synced = NoSizes
    /\ linked = {}
    /\ files = {1}
    /\ cf = [c \in Families |-> [log |-> 1, mem |-> {}, imm |-> << >>]]
    /\ min_log_number_to_keep = 1
    /\ wal_set = RecoveredWalSet
    /\ manifest = RecoveredWalSet
    /\ rollovers = 0
    /\ bg_error = FALSE
    /\ errors = 0
    /\ pc = [p \in Threads |-> "idle"]
    /\ local = [p \in Threads |-> NoLocal]
    /\ acked = NoSizes
    /\ installed = 0

Goto(p, label) == pc' = [pc EXCEPT ![p] = label]
Forget(p) == local' = [local EXCEPT ![p] = NoLocal]
Front == Least(logs)
UpTo(k) == {n \in logs : n <= k}
Error == errors < setup.errors /\ errors' = errors + 1
----------------------------------------------------------------------------
(* WalSet and VersionSet::LogAndApply                                      *)

AddObsoleteWals(set, sizes) ==    \* mutated: a deleted log comes back
    [set EXCEPT !.wals = [n \in Logs |-> Larger(set.wals[n], sizes[n])]]
AddWals(set, sizes) ==
    [set EXCEPT !.wals = [n \in Logs |->
        IF n < set.min_wal_number_to_keep THEN set.wals[n]
        ELSE Larger(set.wals[n], sizes[n])]]

DeleteWalsBefore(set, number) ==
    IF number <= set.min_wal_number_to_keep THEN set
    ELSE [wals |-> [n \in Logs |-> IF n < number THEN 0 ELSE set.wals[n]],
          min_wal_number_to_keep |-> number]

(* An edit that adds the logs in `sizes' and deletes those before `number' *)
(* (0 for none).  It is appended to the MANIFEST, or to a new one that     *)
(* starts with the tracked logs and a deletion record.                     *)
LogAndApply(sizes, number) ==
    LET edit(set) == DeleteWalsBefore(AddWals(set, sizes), number)
        snapshot == DeleteWalsBefore([wal_set EXCEPT
                        !.min_wal_number_to_keep = 0], min_log_number_to_keep)
    IN
    /\ wal_set' = edit(wal_set)
    /\ \/ manifest' = edit(manifest) /\ UNCHANGED rollovers
       \/ /\ rollovers < setup.rollovers
          /\ rollovers' = rollovers + 1
          /\ manifest' = edit(snapshot)
----------------------------------------------------------------------------
(* The three ways to sync: SyncWAL, a sync write, SyncClosedLogs           *)

(* With log_write_mutex_ held: wait while somebody syncs the front log,    *)
(* then PrepareForSync every log up to l.up_to.                            *)
MustWait(l) == Front <= l.up_to /\ getting_synced[Front]

PrepareLogs(p, l) ==
    LET held == UpTo(l.up_to)
    IN
    /\ getting_synced' = [n \in Logs |-> n \in held \/ getting_synced[n]]
    /\ pre_sync_size' = [n \in Logs |-> IF n \in held THEN flushed[n]
                                        ELSE pre_sync_size[n]]
    /\ local' = [local EXCEPT ![p] = [l EXCEPT !.held = held, !.todo = held,
                    !.need_dir = p = Flusher \/ ~log_dir_synced]]
    /\ Goto(p, IF p = Writer THEN "append"
               ELSE IF p = Flusher /\ held = {} THEN "pick" ELSE "sync")

WaitOrPrepare(p, l) ==
    /\ IF MustWait(l)
       THEN /\ local' = [local EXCEPT ![p] = l]
            /\ Goto(p, "prepare")
            /\ UNCHANGED <<getting_synced, pre_sync_size>>
       ELSE PrepareLogs(p, l)
    /\ UNCHANGED <<logfile_number, log_empty, log_dir_synced, logs,
                   alive_log_files, fileVars, versionVars, bg_error, errors,
                   fixedVars>>

SyncWAL(p) ==
    /\ p \in Syncers
    /\ pc[p] = "idle"
    /\ WaitOrPrepare(p, [NoLocal EXCEPT !.up_to = logfile_number,
                                        !.promise = flushed])

SyncClosedLogsOffByOne ==    \* mutated: the last closed log is left out
    /\ pc[Flusher] = "closed"
    /\ WaitOrPrepare(Flusher, [local[Flusher] EXCEPT
                                  !.up_to = logfile_number - 2])
SyncClosedLogs ==
    /\ pc[Flusher] = "closed"
    /\ WaitOrPrepare(Flusher, [local[Flusher] EXCEPT
                                  !.up_to = logfile_number - 1])

(* log_sync_cv_ has been signalled.                                        *)
PrepareForSync(p) ==
    /\ pc[p] = "prepare"
    /\ ~MustWait(local[p])
    /\ PrepareLogs(p, local[p])
    /\ UNCHANGED <<logfile_number, log_empty, log_dir_synced, logs,
                   alive_log_files, fileVars, versionVars, bg_error, errors,
                   fixedVars>>

(* FlushWAL(false); FlushWAL(true) then calls SyncWAL.                     *)
FlushWAL(p) ==
    /\ p \in Syncers
    /\ pc[p] = "idle"
    /\ manual_wal_flush /\ buffered > 0
    /\ \/ /\ flushed' = [flushed EXCEPT ![logfile_number] = @ + buffered]
          /\ buffered' = 0
          /\ UNCHANGED <<bg_error, errors>>
       \/ Error /\ bg_error' = TRUE /\ UNCHANGED <<flushed, buffered>>
    /\ UNCHANGED <<logVars, synced, linked, files, versionVars, pc, local,
                   fixedVars>>

(* SyncWithoutFlush of SyncWAL, Sync of the others.  With manual_wal_flush *)
(* the writer keeps log_write_mutex_ for all its logs.                     *)
SyncLog(p) ==
    LET now == IF p = Writer /\ manual_wal_flush THEN local[p].todo
               ELSE {Least(local[p].todo)}
        flush == p \notin Syncers /\ logfile_number \in now
    IN
    /\ pc[p] = "sync"
    /\ local[p].todo # {}
    /\ flushed' = IF flush
                  THEN [flushed EXCEPT ![logfile_number] = @ + buffered]
                  ELSE flushed
    /\ buffered' = IF flush THEN 0 ELSE buffered
    /\ synced' = [n \in Logs |-> IF n \in now THEN flushed'[n] ELSE synced[n]]
    /\ local' = [local EXCEPT ![p].todo = @ \ now]
    /\ UNCHANGED <<logVars, linked, files, versionVars, bg_error, errors, pc,
                   fixedVars>>

SyncDir(p) ==
    /\ pc[p] = "sync"
    /\ local[p].todo = {}
    /\ linked' = IF local[p].need_dir THEN linked \cup files ELSE linked
    /\ Goto(p, "mark")
    /\ UNCHANGED <<logVars, buffered, flushed, synced, files, versionVars,
                   bg_error, errors, local, fixedVars>>

(* IOStatusCheck stops the database, except that SyncWAL does not call it  *)
(* for the directory and a flush sets the error later.                     *)
SyncFails(p) ==
    /\ pc[p] = "sync"
    /\ local[p].todo # {} \/ local[p].need_dir
    /\ Error
    /\ bg_error' = (\/ bg_error
                    \/ p = Writer
                    \/ p \in Syncers /\ local[p].todo # {})
    /\ local' = [local EXCEPT ![p].ok = FALSE]
    /\ Goto(p, "mark")
    /\ UNCHANGED <<logVars, fileVars, versionVars, fixedVars>>

(* A call has succeeded or failed; a flush goes on.                        *)
Finish(p) ==
    /\ local' = [local EXCEPT ![p] =
                    IF p # Flusher THEN NoLocal
                    ELSE [NoLocal EXCEPT !.cfs = local[p].cfs,
                                         !.count = local[p].count]]
    /\ Goto(p, IF p # Flusher THEN "idle"
               ELSE IF local[p].ok THEN "pick" ELSE "failed")
    /\ acked' = IF p # Flusher /\ local[p].ok
                THEN [n \in Logs |-> Larger(acked[n], local[p].promise[n])]
                ELSE acked
    /\ UNCHANGED <<setup, installed>>

(* WriteImpl inserts into the memtables before it marks the logs.          *)
InsertInto(C) ==
    cf' = [c \in Families |-> IF c \in C
                         THEN [cf[c] EXCEPT !.mem = @ \cup {logfile_number}]
                         ELSE cf[c]]

(* The directory sync counts for the log that is current now only if that  *)
(* log existed when the sync began.                                        *)
DirIsSyncedAnyway(p) == local[p].need_dir    \* mutated: not for which log
DirIsSynced(p) == local[p].need_dir /\ logfile_number = local[p].up_to

(* Nothing was appended to log n since PrepareForSync.                     *)
FullySynced(n) == pre_sync_size[n] = flushed[n]

MarkLogsSynced(p) ==
    LET marked == UpTo(local[p].up_to)
        inactive == {n \in marked : n < logfile_number}
        full == {n \in inactive : FullySynced(n)}
        sizes == [n \in Logs |->
                    IF track_and_verify_wals_in_manifest /\ n \in inactive
                    THEN pre_sync_size[n] ELSE 0]
    IN
    /\ pc[p] = "mark" /\ local[p].ok
    /\ log_dir_synced' = (log_dir_synced \/ DirIsSynced(p))
    /\ logs' = logs \ full
    /\ pre_sync_size' = [n \in Logs |-> IF n \in full THEN 0
                                        ELSE pre_sync_size[n]]
    /\ getting_synced' = [n \in Logs |-> getting_synced[n] /\ n \notin marked]
    /\ IF p = Writer THEN InsertInto(local[p].cfs) ELSE UNCHANGED cf
    /\ IF sizes = NoSizes
       THEN Finish(p)
       ELSE /\ local' = [local EXCEPT ![p].synced_wals = sizes,
                            ![p].held = {}, ![p].todo = {}]
            /\ Goto(p, "apply")
            /\ UNCHANGED fixedVars
    /\ UNCHANGED <<logfile_number, log_empty, alive_log_files,
                   fileVars, min_log_number_to_keep, wal_set, manifest,
                   rollovers, bg_error, errors>>

MarkLeavesSyncing(p) ==    \* mutated: FinishSync is missing
    /\ pc[p] = "mark" /\ ~local[p].ok
    /\ Finish(p)
    /\ UNCHANGED <<logVars, fileVars, versionVars, bg_error, errors>>
MarkLogsNotSynced(p) ==
    /\ pc[p] = "mark" /\ ~local[p].ok
    /\ getting_synced' = [n \in Logs |->
                            getting_synced[n] /\ n \notin UpTo(local[p].up_to)]
    /\ Finish(p)
    /\ UNCHANGED <<logfile_number, log_empty, log_dir_synced, logs,
                   pre_sync_size, alive_log_files, fileVars, versionVars,
                   bg_error, errors>>

ApplyWALToManifest(p) ==
    /\ pc[p] = "apply"
    /\ LogAndApply(local[p].synced_wals, 0)
    /\ Finish(p)
    /\ UNCHANGED <<logVars, fileVars, cf, min_log_number_to_keep, bg_error,
                   errors>>
----------------------------------------------------------------------------
(* The leader of the write queue                                           *)

Room == flushed[logfile_number] + buffered < MaxRecords

AddRecord ==
    /\ log_empty' = FALSE
    /\ IF manual_wal_flush
       THEN buffered' = buffered + 1 /\ UNCHANGED flushed
       ELSE /\ flushed' = [flushed EXCEPT ![logfile_number] = @ + 1]
            /\ UNCHANGED buffered

Write(C) ==
    /\ pc[Writer] = "idle"
    /\ ~bg_error /\ Room
    /\ AddRecord
    /\ InsertInto(C)
    /\ UNCHANGED <<logfile_number, log_dir_synced, logs, getting_synced,
                   pre_sync_size, alive_log_files, synced, linked, files,
                   min_log_number_to_keep, wal_set, manifest, rollovers,
                   bg_error, errors, pc, local, fixedVars>>

WriteSync(C) ==
    /\ pc[Writer] = "idle"
    /\ ~bg_error /\ Room
    /\ WaitOrPrepare(Writer, [NoLocal EXCEPT !.up_to = logfile_number,
                                             !.cfs = C])

WriteToWAL ==
    /\ pc[Writer] = "append"
    /\ AddRecord
    /\ local' = [local EXCEPT ![Writer].promise =
                    [flushed EXCEPT ![logfile_number] = @ + buffered + 1]]
    /\ Goto(Writer, "sync")
    /\ UNCHANGED <<logfile_number, log_dir_synced, logs, getting_synced,
                   pre_sync_size, alive_log_files, synced, linked, files,
                   versionVars, bg_error, errors, fixedVars>>

WriteToWALFails ==
    /\ pc[Writer] = "append"
    /\ Error
    /\ bg_error' = TRUE
    /\ local' = [local EXCEPT ![Writer].ok = FALSE]
    /\ Goto(Writer, "mark")
    /\ UNCHANGED <<logVars, fileVars, versionVars, fixedVars>>

IsEmpty(c) == cf[c].mem = {} /\ cf[c].imm = << >>

(* The end of SwitchMemtable: the empty column families need no log before *)
(* `next' any more (`advance' is who they are), and c's memtable is sealed. *)
Seal(c, next, advance) ==
    cf' = [d \in Families |->
            IF d = c
            THEN [cf[d] EXCEPT !.mem = {}, !.imm = Append(@,
                    [next_log_number |-> next, logs |-> cf[d].mem])]
            ELSE IF d \in advance /\ IsEmpty(d)
            THEN [cf[d] EXCEPT !.log = next]
            ELSE cf[d]]

SwitchKeepsLog(c) ==
    /\ pc[Writer] = "idle"
    /\ ~bg_error /\ cf[c].mem # {}
    /\ log_empty
    /\ Seal(c, logfile_number, {})
    /\ UNCHANGED <<logVars, fileVars, min_log_number_to_keep, wal_set,
                   manifest, rollovers, bg_error, errors, pc, local,
                   fixedVars>>

SwitchMemtable(c) ==
    LET new == logfile_number + 1
        empties == {d \in Families : IsEmpty(d)}
        min_wal == Least({IF d \in empties THEN new ELSE cf[d].log : d \in Families})
    IN
    /\ pc[Writer] = "idle"
    /\ ~bg_error /\ cf[c].mem # {}
    /\ ~log_empty /\ new <= setup.logs
    /\ flushed' = [flushed EXCEPT ![logfile_number] = @ + buffered]
    /\ buffered' = 0
    /\ logfile_number' = new
    /\ log_empty' = TRUE
    /\ log_dir_synced' = FALSE
    /\ logs' = logs \cup {new}
    /\ alive_log_files' = alive_log_files \cup {new}
    /\ files' = files \cup {new}
    /\ IF /\ track_and_verify_wals_in_manifest
          /\ min_wal > wal_set.min_wal_number_to_keep
       THEN /\ local' = [local EXCEPT ![Writer] = [NoLocal EXCEPT
                            !.cfs = {c}, !.min_log = min_wal,
                            !.deletes = empties]]
            /\ Goto(Writer, "delete_wals")
            /\ UNCHANGED cf
       ELSE Seal(c, new, empties) /\ UNCHANGED <<pc, local>>
    /\ UNCHANGED <<getting_synced, pre_sync_size, synced, linked,
                   min_log_number_to_keep, wal_set, manifest, rollovers,
                   bg_error, errors, fixedVars>>

(* LogAndApply releases mutex_, so a flush may come in between.            *)
SwitchDeletesWals ==
    /\ pc[Writer] = "delete_wals"
    /\ LogAndApply(NoSizes, local[Writer].min_log)
    /\ \E c \in local[Writer].cfs :
         Seal(c, logfile_number, local[Writer].deletes)
    /\ Goto(Writer, "idle") /\ Forget(Writer)
    /\ UNCHANGED <<logVars, fileVars, min_log_number_to_keep, bg_error,
                   errors, fixedVars>>

(* CreateWAL, or WriteBuffer of the old log, fails.                        *)
SwitchFails ==
    /\ pc[Writer] = "idle"
    /\ ~bg_error /\ ~log_empty
    /\ \E c \in Families : cf[c].mem # {}
    /\ Error
    /\ bg_error' = TRUE
    /\ UNCHANGED <<logVars, fileVars, versionVars, pc, local, fixedVars>>
----------------------------------------------------------------------------
(* FlushMemTableToOutputFile and TryInstallMemtableFlushResults            *)

NeedsToSyncClosedWals == Cardinality(Families) > 1

(* max_memtable_id is taken before the logs are synced.                    *)
FlushBegin(c) ==
    /\ pc[Flusher] = "idle"
    /\ ~bg_error /\ cf[c].imm # << >>
    /\ local' = [local EXCEPT ![Flusher] = [NoLocal EXCEPT
                    !.cfs = {c}, !.count = Len(cf[c].imm)]]
    /\ Goto(Flusher, IF NeedsToSyncClosedWals THEN "closed" ELSE "pick")
    /\ UNCHANGED <<logVars, fileVars, versionVars, bg_error, errors,
                   fixedVars>>

FlushFails ==
    /\ pc[Flusher] = "failed"
    /\ bg_error' = TRUE
    /\ Goto(Flusher, "idle") /\ Forget(Flusher)
    /\ UNCHANGED <<logVars, fileVars, versionVars, errors, fixedVars>>

FlushPick(c) ==
    /\ pc[Flusher] = "pick" /\ c \in local[Flusher].cfs
    /\ local' = [local EXCEPT ![Flusher].count =
                    IF NeedsToSyncClosedWals THEN @ ELSE Len(cf[c].imm)]
    /\ Goto(Flusher, "compute")
    /\ UNCHANGED <<logVars, fileVars, versionVars, bg_error, errors,
                   fixedVars>>

NextLog(c) == cf[c].imm[local[Flusher].count].next_log_number

PrecomputeOwnLogOnly(c) == NextLog(c)    \* mutated: other families forgotten
PrecomputeMinLogNumberToKeepNon2PC(c) ==
    Least({NextLog(c)} \cup {cf[d].log : d \in Families \ {c}})

FlushCompute(c) ==
    /\ pc[Flusher] = "compute" /\ c \in local[Flusher].cfs
    /\ local' = [local EXCEPT ![Flusher].min_log =
                    PrecomputeMinLogNumberToKeepNon2PC(c),
                    ![Flusher].ok =
                        PrecomputeMinLogNumberToKeepNon2PC(c)
                            > wal_set.min_wal_number_to_keep]
    /\ Goto(Flusher, "install")
    /\ UNCHANGED <<logVars, fileVars, versionVars, bg_error, errors,
                   fixedVars>>

FlushInstall(c) ==
    LET n == local[Flusher].min_log
    IN
    /\ pc[Flusher] = "install" /\ c \in local[Flusher].cfs
    /\ LogAndApply(NoSizes, IF track_and_verify_wals_in_manifest
                               /\ local[Flusher].ok THEN n ELSE 0)
    /\ cf' = [cf EXCEPT ![c].log = Larger(@, NextLog(c)),
                        ![c].imm = SubSeq(@, local[Flusher].count + 1, Len(@))]
    /\ min_log_number_to_keep' = Larger(min_log_number_to_keep, n)
    /\ installed' = Larger(installed, NextLog(c))
    /\ Goto(Flusher, "idle") /\ Forget(Flusher)
    /\ UNCHANGED <<logVars, fileVars, bg_error, errors, acked, setup>>
----------------------------------------------------------------------------
(* FindObsoleteFiles and PurgeObsoleteFiles                                *)

(* A call that finds nothing obsolete changes nothing and is left out.     *)
FindObsoleteFiles(p) ==
    LET obsolete == {n \in alive_log_files : n < min_log_number_to_keep}
    IN
    /\ p \in Purgers
    /\ pc[p] = "idle"
    /\ obsolete # {} \/ UpTo(min_log_number_to_keep - 1) # {}
    /\ local' = [local EXCEPT ![p] = [NoLocal EXCEPT
                    !.min_log = min_log_number_to_keep, !.deletes = obsolete]]
    /\ alive_log_files' = alive_log_files \ obsolete
    /\ Goto(p, "pop")
    /\ UNCHANGED <<logfile_number, log_empty, log_dir_synced, logs,
                   getting_synced, pre_sync_size, fileVars, versionVars,
                   bg_error, errors, fixedVars>>

(* The obsolete logs in front of the first one that is syncing.            *)
PoppableAnyway(obsolete) == obsolete    \* mutated: does not wait for a sync
Poppable(obsolete) == {n \in obsolete : \A m \in UpTo(n) : ~getting_synced[m]}

(* Pop the obsolete logs; wait on log_sync_cv_ for one that is syncing.    *)
PopLogs(p) ==
    LET obsolete == UpTo(local[p].min_log - 1)
        popped == Poppable(obsolete)
    IN
    /\ pc[p] = "pop"
    /\ popped # {} \/ obsolete = {}
    /\ logs' = logs \ popped
    /\ pre_sync_size' = [n \in Logs |-> IF n \in popped THEN 0
                                        ELSE pre_sync_size[n]]
    /\ \/ popped # obsolete /\ UNCHANGED <<pc, local>>
       \/ /\ popped = obsolete /\ local[p].deletes # {}
          /\ Goto(p, "delete") /\ UNCHANGED local
       \/ /\ popped = obsolete /\ local[p].deletes = {}
          /\ Goto(p, "idle") /\ Forget(p)
    /\ UNCHANGED <<logfile_number, log_empty, log_dir_synced, getting_synced,
                   alive_log_files, fileVars, versionVars, bg_error, errors,
                   fixedVars>>

DeleteFile(p) ==
    LET n == Least(local[p].deletes)
    IN
    /\ pc[p] = "delete"
    /\ files' = files \ {n}
    /\ IF local[p].deletes = {n}
       THEN Goto(p, "idle") /\ Forget(p)
       ELSE /\ local' = [local EXCEPT ![p].deletes = @ \ {n}]
            /\ UNCHANGED pc
    /\ UNCHANGED <<logVars, buffered, flushed, synced, linked, versionVars,
                   bg_error, errors, fixedVars>>
----------------------------------------------------------------------------
Syncing(p) ==
    \/ PrepareForSync(p) \/ SyncLog(p) \/ SyncDir(p) \/ SyncFails(p)
    \/ MarkLogsSynced(p) \/ MarkLogsNotSynced(p) \/ ApplyWALToManifest(p)

WriterStep == WriteToWAL \/ WriteToWALFails \/ SwitchDeletesWals
FlushStep ==
    \/ SyncClosedLogs \/ FlushFails
    \/ \E c \in Families : FlushPick(c) \/ FlushCompute(c) \/ FlushInstall(c)
PurgeStep(p) == PopLogs(p) \/ DeleteFile(p)

Calls ==
    \/ \E p \in setup.syncers : SyncWAL(p) \/ FlushWAL(p)
    \/ \E C \in setup.batches : Write(C)
    \/ \E C \in setup.sync_batches : WriteSync(C)
    \/ \E c \in Families : SwitchKeepsLog(c) \/ SwitchMemtable(c) \/ FlushBegin(c)
    \/ SwitchFails
    \/ \E p \in Purgers : FindObsoleteFiles(p)

Next ==
    \/ Calls
    \/ \E p \in Threads : Syncing(p)
    \/ WriterStep
    \/ FlushStep
    \/ \E p \in Purgers : PurgeStep(p)

Spec == Init /\ [][Next]_vars

(* A thread that may run does.  A thread waiting for log_sync_cv_ is woken *)
(* by every MarkLogsSynced and does not lose the race for log_write_mutex_ *)
(* to newcomers for ever.                                                  *)
Fairness ==
    /\ \A p \in Threads : SF_vars(PrepareForSync(p)) /\ WF_vars(Syncing(p))
    /\ WF_vars(WriterStep)
    /\ WF_vars(FlushStep)
    /\ \A p \in Purgers : WF_vars(PurgeStep(p))
FairSpec == Spec /\ Fairness
----------------------------------------------------------------------------
Labels == {"idle", "prepare", "append", "sync", "mark", "apply",
           "delete_wals", "closed", "failed", "pick", "compute", "install",
           "pop", "delete"}
Sizes == [Logs -> Nat]
WalSets == [wals : Sizes, min_wal_number_to_keep : Nat]
Memtables == [next_log_number : Logs, logs : SUBSET Logs]
ColumnFamilies == [log : Logs, mem : SUBSET Logs, imm : Seq(Memtables)]
Locals ==
    [up_to : Nat, held : SUBSET Logs, todo : SUBSET Logs, need_dir : BOOLEAN,
     ok : BOOLEAN, synced_wals : Sizes, promise : Sizes, cfs : SUBSET CFs,
     count : Nat, min_log : Nat, deletes : SUBSET (CFs \cup Logs)]

(* Every variable has its type (the members of logs_, the fields of        *)
(* LogWriterNumber, WalSet and the locals of the calls).                   *)
TypeOK ==
    /\ setup \in Setups
    /\ logfile_number \in Logs
    /\ log_empty \in BOOLEAN
    /\ log_dir_synced \in BOOLEAN
    /\ logs \subseteq Logs
    /\ getting_synced \in [Logs -> BOOLEAN]
    /\ pre_sync_size \in Sizes
    /\ alive_log_files \subseteq Logs
    /\ buffered \in Nat
    /\ flushed \in Sizes
    /\ synced \in Sizes
    /\ linked \subseteq Logs
    /\ files \subseteq Logs
    /\ cf \in [Families -> ColumnFamilies]
    /\ min_log_number_to_keep \in Nat
    /\ wal_set \in WalSets
    /\ manifest \in WalSets
    /\ rollovers \in Nat
    /\ bg_error \in BOOLEAN
    /\ errors \in Nat
    /\ pc \in [Threads -> Labels]
    /\ local \in [Threads -> Locals]
    /\ acked \in Sizes
    /\ installed \in Nat

(* The threads between PrepareForSync and MarkLogsSynced.                  *)
Holding(p) == local[p].held # {}

(* The protocol on logs_.  getting_synced is "true for some prefix of      *)
(* logs_"; a thread that syncs finds, when it marks, exactly the logs it   *)
(* prepared, all still syncing and none shared with another thread, so the *)
(* asserts of PrepareForSync, MarkLogsSynced and FinishSync hold and no    *)
(* log::Writer is freed under a sync; and the current log stays in logs_   *)
(* and alive_log_files_ (the asserts of FindObsoleteFiles).                *)
SyncProtocol ==
    /\ \A m, n \in logs : m < n /\ getting_synced[n] => getting_synced[m]
    /\ \A n \in logs : pre_sync_size[n] <= flushed[n]
    /\ \A p \in Threads : Holding(p) =>
         /\ local[p].held = UpTo(local[p].up_to)
         /\ \A n \in local[p].held : getting_synced[n]
         /\ \A q \in Threads \ {p} : local[p].held \cap local[q].held = {}
    /\ logfile_number \in logs \cap alive_log_files

(* What SyncWAL, FlushWAL(true) or a write with sync promised when it      *)
(* returned survives a crash now: the records, and the directory entries   *)
(* of their logs, of every log that recovery still needs, including the    *)
(* logs before the current one (no hole).                                  *)
AckedIsDurable ==
    \A n \in Logs : n >= min_log_number_to_keep /\ acked[n] > 0 =>
        n \in linked \cap files /\ acked[n] <= synced[n]

(* "all the log files except the most recent one are synced" before a      *)
(* flush of one of several column families: once a memtable is installed   *)
(* in the MANIFEST, a crash loses no record of a log that memtable could   *)
(* have come from, so a batch over two column families is not torn.        *)
FlushedIsBacked ==
    NeedsToSyncClosedWals =>
        \A n \in Logs : n >= min_log_number_to_keep /\ n < installed
                            /\ flushed[n] > 0 =>
            n \in linked \cap files /\ synced[n] = flushed[n]

(* A log with a record that is in no SST file is kept: FindObsoleteFiles   *)
(* deletes no such file and recovery, which skips the logs before a column *)
(* family's log number, reads it.                                          *)
UnflushedDataIsKept ==
    \A c \in Families :
        LET unflushed == UNION ({cf[c].mem} \cup
                            {cf[c].imm[i].logs : i \in 1..Len(cf[c].imm)})
        IN  \A n \in unflushed :
                n \in files /\ n >= cf[c].log /\ n >= min_log_number_to_keep

(* WalSet::CheckWals succeeds if the process crashes now and the database  *)
(* is reopened: every log the MANIFEST tracks is on disk, with at least    *)
(* the recorded size.                                                      *)
CheckWalsSucceeds ==
    \A n \in Logs : manifest.wals[n] > 0 =>
        n \in linked \cap files /\ manifest.wals[n] <= synced[n]

(* Every call returns: no thread waits for ever on log_sync_cv_, in        *)
(* PrepareForSync or in FindObsoleteFiles.                                 *)
EveryCallReturns ==
    \A p \in Threads : pc[p] # "idle" ~> pc[p] = "idle"
=============================================================================
