--------------------------- MODULE WalInvariants ----------------------------
(***************************************************************************)
(* The inductive invariants of WalFiles, in five layers: each is kept by   *)
(* every step from a state in which it and the layers before it hold.      *)
(***************************************************************************)
EXTENDS WalFiles

(* A non-empty set of numbers has a least one: what the loops over logs_   *)
(* and over the column families find.  WalTheorems proves it.              *)
LeastExists == \A S \in SUBSET Nat : S # {} => Least(S) \in S /\ \A m \in S : Least(S) <= m

(* Where each thread may be.                                               *)
Places ==
    /\ \A p \in Syncers : pc[p] \in {"idle", "prepare", "sync", "mark", "apply"}
    /\ \A p \in Purgers : pc[p] \in {"idle", "pop", "delete"}
    /\ pc[Writer] \in {"idle", "prepare", "append", "sync", "mark", "apply",
                       "delete_wals"}
    /\ pc[Flusher] \in {"idle", "closed", "prepare", "sync", "mark", "apply",
                        "failed", "pick", "compute", "install"}

(* The logs that recovery reads.                                           *)
Needed(n) == min_log_number_to_keep <= n /\ n <= logfile_number

(* The memtables of a column family are in the order of their logs, from   *)
(* its log number to the current log.                                      *)
MemtablesInOrder ==
    \A c \in Families :
        /\ min_log_number_to_keep <= cf[c].log
        /\ cf[c].log <= logfile_number
        /\ \A n \in cf[c].mem : cf[c].log <= n /\ n <= logfile_number
        /\ \A i \in 1..Len(cf[c].imm) :
             /\ cf[c].imm[i].next_log_number <= logfile_number
             /\ \A n \in cf[c].imm[i].logs : cf[c].log <= n /\ n <= logfile_number
             /\ \A n \in cf[c].mem : cf[c].imm[i].next_log_number <= n
             /\ \A j \in i + 1..Len(cf[c].imm) : \A n \in cf[c].imm[j].logs :
                  cf[c].imm[i].next_log_number <= n

(* The job of the flush thread: the first memtables of one column family,  *)
(* which only it removes.                                                  *)
FlushJob ==
    pc[Flusher] # "idle" => \E c \in Families :
        /\ local[Flusher].cfs = {c}
        /\ local[Flusher].count \in 1..Len(cf[c].imm)

(* What the flush thread computed before it installs is still no more than *)
(* what every column family needs.                                         *)
FlushKnows ==
    pc[Flusher] = "install" => \A c \in local[Flusher].cfs :
        /\ local[Flusher].min_log <= NextLog(c)
        /\ \A d \in Families \ {c} : local[Flusher].min_log <= cf[d].log

(* FindObsoleteFiles collected only logs below the smallest log to keep,   *)
(* which never goes back.                                                  *)
PurgeKnows ==
    \A p \in Purgers :
        /\ local[p].min_log <= min_log_number_to_keep
        /\ \A n \in local[p].deletes : n \in Logs /\ n < min_log_number_to_keep
        /\ pc[p] = "delete" => local[p].deletes # {}

(* The first layer: no log that recovery needs is deleted.                 *)
Kept ==
    /\ MemtablesInOrder /\ FlushKnows /\ PurgeKnows
    /\ \A n \in Logs : Needed(n) => n \in files
    /\ pc[Writer] = "delete_wals" => \E c \in Families : local[Writer].cfs = {c}

(* A thread in one of the three ways to sync, and one between              *)
(* PrepareForSync and MarkLogsSynced.                                      *)
SyncLabels == {"prepare", "append", "sync", "mark", "apply"}

InSync(p) == pc[p] \in {"append", "sync", "mark"}

(* What a thread that syncs knows of logs_: it holds the logs up to up_to  *)
(* while it is between PrepareForSync and MarkLogsSynced.                  *)
SyncerOK(p) ==
    /\ pc[p] \in SyncLabels => local[p].up_to <= logfile_number
    /\ InSync(p) => local[p].held = UpTo(local[p].up_to)
    /\ ~InSync(p) => local[p].held = {}
    /\ \A n \in local[p].held : getting_synced[n]
    /\ local[p].todo \subseteq local[p].held

(* The second layer: the protocol on logs_.  A log is getting_synced       *)
(* because some thread holds it, and only one thread holds logs.           *)
Protocol ==
    /\ \A n \in logs : n <= logfile_number
    /\ logfile_number \in logs /\ logfile_number \in alive_log_files
    /\ \A n \in Logs : getting_synced[n] => \E p \in Threads : n \in local[p].held
    /\ \A n \in Logs : pre_sync_size[n] <= flushed[n]
    /\ \A p \in Threads : SyncerOK(p)
    /\ \A p, q \in Threads : p # q => local[p].held = {} \/ local[q].held = {}

(* The directory entries of the logs up to k survive a crash.              *)
Linked(k) == \A n \in Logs : Needed(n) /\ n <= k => n \in linked

(* A thread that has synced all it held without an error.                  *)
Clean(p) == pc[p] \in {"mark", "apply"} /\ local[p].ok

(* What the files hold: a log that left logs_ and is still needed is       *)
(* synced and linked, and log_dir_synced_ is true only when every          *)
(* directory entry is.                                                     *)
FilesOK ==
    /\ \A n \in Logs : synced[n] <= flushed[n]
    /\ \A n \in Logs : n > logfile_number => flushed[n] = 0
    /\ log_dir_synced => Linked(logfile_number)
    /\ \A n \in Logs : Needed(n) /\ n \notin logs
          => n \in linked /\ synced[n] = flushed[n]

(* What a thread has synced so far of what it promised.                    *)
SyncKnows(p) ==
    /\ pc[p] \in {"append", "sync"} /\ ~local[p].need_dir => Linked(local[p].up_to)
    /\ Clean(p) => Linked(local[p].up_to) /\ local[p].todo = {}
    /\ pc[p] = "append" => local[p].todo = local[p].held
    /\ pc[p] = "apply" => local[p].ok
    /\ pc[p] = "sync" \/ Clean(p) =>
         /\ \A n \in local[p].held \ local[p].todo : pre_sync_size[n] <= synced[n]
         /\ \A n \in Logs : Needed(n) /\ n <= local[p].up_to /\ n \notin local[p].todo
               => local[p].promise[n] <= synced[n]

(* A promise is about logs up to up_to and counts records that were        *)
(* written.                                                                *)
PromiseOK(p) ==
    /\ \A n \in Logs : n > local[p].up_to => local[p].promise[n] = 0
    /\ p \in Syncers => \A n \in Logs : local[p].promise[n] <= flushed[n]
    /\ p = Flusher => local[p].promise = NoSizes
    /\ p = Writer =>
         /\ \A n \in Logs : local[p].promise[n] <=
               flushed[n] + (IF n = logfile_number THEN buffered ELSE 0)
         /\ pc[p] \in {"prepare", "append", "sync", "mark"}
               => local[p].up_to = logfile_number
         /\ pc[p] \in {"idle", "delete_wals"} => local[p].promise = NoSizes

(* AckedIsDurable without the file itself, which Kept covers.              *)
AckedOK ==
    \A n \in Logs : min_log_number_to_keep <= n /\ acked[n] > 0
       => n <= logfile_number /\ n \in linked /\ acked[n] <= synced[n]

(* The third layer: what is synced.                                        *)
Durable ==
    /\ FilesOK /\ AckedOK
    /\ \A p \in Threads : SyncKnows(p) /\ PromiseOK(p)

(* The logs that recovery needs below k are linked and wholly synced.      *)
BackedBelow(k) ==
    \A n \in Logs : Needed(n) /\ n < k => n \in linked /\ synced[n] = flushed[n]

(* FlushedIsBacked, for the newest flush installed.                        *)
InstalledBacked == installed <= logfile_number /\ BackedBelow(installed)

(* What a flush knows of the closed logs on its way from SyncClosedLogs to *)
(* the installation.                                                       *)
FlusherBacks ==
    /\ \A c \in local[Flusher].cfs :
         /\ pc[Flusher] \in {"prepare", "sync", "mark", "apply"}
              => NextLog(c) <= local[Flusher].up_to + 1
         /\ pc[Flusher] \in {"pick", "compute", "install"} => BackedBelow(NextLog(c))
    /\ pc[Flusher] \in {"prepare", "sync", "mark", "apply"}
            => local[Flusher].up_to < logfile_number
    /\ pc[Flusher] = "sync" \/ Clean(Flusher) => \A n \in Logs :
         Needed(n) /\ n <= local[Flusher].up_to /\ n \notin local[Flusher].todo
           => synced[n] = flushed[n]
    /\ local[Flusher].need_dir \/ pc[Flusher] # "sync"

(* The fourth layer, which a database with one column family does without. *)
Backed == NeedsToSyncClosedWals => InstalledBacked /\ FlusherBacks

(* A log in the WalSet is linked and synced up to its recorded size, and a *)
(* tracked log is one that is kept.                                        *)
WalSetOK ==
    /\ \A n \in Logs : n < wal_set.min_wal_number_to_keep => wal_set.wals[n] = 0
    /\ track_and_verify_wals_in_manifest
          => min_log_number_to_keep <= wal_set.min_wal_number_to_keep
    /\ \A n \in Logs : wal_set.wals[n] > 0 =>
          /\ track_and_verify_wals_in_manifest
          /\ n <= logfile_number /\ n \in linked /\ wal_set.wals[n] <= synced[n]

(* The same for the edit that a thread is about to apply, whose logs may   *)
(* have become obsolete since.                                             *)
SyncedWalsOK(p) ==
    \A n \in Logs : local[p].synced_wals[n] > 0 =>
        /\ track_and_verify_wals_in_manifest
        /\ n <= logfile_number
        /\ min_log_number_to_keep <= n
              => n \in linked /\ local[p].synced_wals[n] <= synced[n]

(* A flush that found no log to delete computed no more than the WalSet    *)
(* already had.                                                            *)
FlushDeletes ==
    pc[Flusher] = "install" /\ ~local[Flusher].ok
        => local[Flusher].min_log <= wal_set.min_wal_number_to_keep

(* While the MANIFEST is not replaced its replay gives the WalSet.         *)
OneManifest ==
    /\ setup.rollovers = 0 => rollovers = 0
    /\ rollovers = 0 => manifest = wal_set

(* The fifth layer: what the MANIFEST says of the logs.                    *)
Tracked ==
    /\ WalSetOK /\ FlushDeletes /\ OneManifest
    /\ \A p \in Threads : SyncedWalsOK(p)
=============================================================================
