------------------------- MODULE WalTrackingProofs --------------------------
(***************************************************************************)
(* The fourth and fifth layer of the invariants of WalFiles: a flush of    *)
(* one of several column families is backed by the logs before the current *)
(* one, and the MANIFEST tracks only logs that are on disk.                *)
(***************************************************************************)
EXTENDS WalSyncProofs

(* What no step takes back: Monotone, and a log that is not the current    *)
(* one does not grow.                                                      *)
Advances ==
    /\ Monotone
    /\ \A n \in Logs : n # logfile_number => flushed'[n] = flushed[n]
    /\ setup' = setup

(* Every step advances.                                                    *)
LEMMA StepAdvances ==
    ASSUME TypeOK, Places, Kept, Protocol, Durable, [Next]_vars, TypeOK'
    PROVE  Advances
<1>0. local[Flusher] \in Locals
  BY Zenon DEF TypeOK, Threads
<1>a. setup' = setup
  <2>2. CASE Calls
    BY <2>2, Zenon DEF Calls, SyncWAL, FlushWAL, Write, WriteSync, WaitOrPrepare, SwitchKeepsLog, SwitchMemtable,
       FlushBegin, SwitchFails, FindObsoleteFiles, fixedVars
  <2>3. ASSUME NEW p \in Threads, Syncing(p) PROVE setup' = setup
    BY <2>3, Zenon DEF Syncing, PrepareForSync, SyncLog, SyncDir, SyncFails, MarkLogsSynced, MarkLogsNotSynced,
       ApplyWALToManifest, Finish, fixedVars
  <2>4. CASE WriterStep \/ FlushStep \/ \E p \in Purgers : PurgeStep(p)
    BY <2>4, Zenon DEF WriterStep, FlushStep, PurgeStep, WriteToWAL, WriteToWALFails, SwitchDeletesWals, SyncClosedLogs,
       WaitOrPrepare, FlushFails, FlushPick, FlushCompute, FlushInstall, PopLogs, DeleteFile, fixedVars
  <2>5. CASE UNCHANGED vars
    BY <2>5, Zenon DEF vars, fixedVars
  <2> QED
    BY <2>2, <2>3, <2>4, <2>5, Zenon DEF Next
<1>b. ASSUME UNCHANGED <<logfile_number, min_log_number_to_keep, synced, linked, flushed>> PROVE Advances
  BY <1>a, <1>b, Numbers DEF Advances, Monotone
<1>c. ASSUME CurrentGrows, UNCHANGED <<min_log_number_to_keep, synced, linked>> PROVE Advances
  BY <1>a, <1>c, Numbers DEF Advances, Monotone, CurrentGrows
<1>1. ASSUME NEW p \in Threads, SyncLog(p) PROVE Advances
  <2> DEFINE now == IF p = Writer /\ manual_wal_flush THEN local[p].todo ELSE {Least(local[p].todo)}
  <2>1. /\ UNCHANGED <<logfile_number, min_log_number_to_keep, linked>>
        /\ synced' = [n \in Logs |-> IF n \in now THEN flushed'[n] ELSE synced[n]]
    BY <1>1, Zenon DEF SyncLog, logVars, versionVars
  <2>2. CurrentGrows
    BY <1>1, <2>1, FlushBufferEffect, Zenon DEF SyncLog
  <2> HIDE DEF now
  <2>3. ASSUME NEW n \in Logs PROVE synced[n] <= synced'[n]
    <3>1. synced[n] <= flushed[n] /\ flushed[n] <= flushed'[n] /\ flushed'[n] \in Nat
      BY <2>2, Zenon DEF Durable, FilesOK, CurrentGrows, TypeOK, Sizes
    <3> QED
      BY <2>1, <3>1, Numbers
  <2> QED
    BY <1>a, <2>1, <2>2, <2>3, Numbers DEF Advances, Monotone, CurrentGrows
<1>2. ASSUME NEW p \in Threads, SyncDir(p) PROVE Advances
  <2>1. UNCHANGED <<logfile_number, min_log_number_to_keep, synced, flushed>> /\ linked \subseteq linked'
    BY <1>2, Zenon DEF SyncDir, logVars, versionVars
  <2> QED
    BY <1>a, <2>1, Numbers DEF Advances, Monotone
<1>3. ASSUME NEW p \in Threads, PrepareForSync(p) \/ SyncFails(p) \/ MarkLogsSynced(p) \/ MarkLogsNotSynced(p)
                                  \/ ApplyWALToManifest(p) PROVE Advances
  BY <1>b, <1>3, Zenon DEF PrepareForSync, SyncFails, MarkLogsSynced, MarkLogsNotSynced, ApplyWALToManifest,
     logVars, fileVars, versionVars
<1>4. ASSUME NEW p, SyncWAL(p) \/ FlushWAL(p) PROVE Advances
  <2>1. CASE SyncWAL(p)
    BY <1>b, <2>1, Zenon DEF SyncWAL, WaitOrPrepare, fileVars, versionVars
  <2>2. CASE FlushWAL(p)
    <3>1. UNCHANGED <<logfile_number, min_log_number_to_keep, synced, linked>>
      BY <2>2, Zenon DEF FlushWAL, logVars, versionVars
    <3> QED
      BY <1>c, <2>2, <3>1, FlushBufferEffect, Zenon DEF FlushWAL
  <2> QED
    BY <1>4, <2>1, <2>2, Zenon
<1>5. ASSUME NEW C, Write(C) PROVE Advances
  <2>1. UNCHANGED <<logfile_number, min_log_number_to_keep, synced, linked>>
    BY <1>5, Zenon DEF Write
  <2> QED
    BY <1>c, <1>5, <2>1, AddRecordEffect, Zenon DEF Write
<1>6. CASE WriteToWAL
  <2>1. UNCHANGED <<logfile_number, min_log_number_to_keep, synced, linked>>
    BY <1>6, Zenon DEF WriteToWAL, versionVars
  <2> QED
    BY <1>c, <1>6, <2>1, AddRecordEffect, Zenon DEF WriteToWAL
<1>7. ASSUME NEW c, SwitchMemtable(c) PROVE Advances
  <2>1. /\ logfile_number' = logfile_number + 1 /\ UNCHANGED <<min_log_number_to_keep, synced, linked>>
        /\ flushed' = [flushed EXCEPT ![logfile_number] = @ + buffered]
    BY <1>7, Zenon DEF SwitchMemtable
  <2>2. \A n \in Logs : flushed[n] <= flushed'[n] /\ (n # logfile_number => flushed'[n] = flushed[n])
    BY <2>1, Numbers DEF TypeOK, Sizes
  <2> QED
    BY <1>a, <2>1, <2>2, Numbers DEF Advances, Monotone
<1>8. CASE SyncClosedLogs \/ \E C \in setup.sync_batches : WriteSync(C)
  BY <1>b, <1>8, Zenon DEF SyncClosedLogs, WriteSync, WaitOrPrepare, fileVars, versionVars
<1>9. ASSUME NEW c, SwitchKeepsLog(c) \/ FlushBegin(c) \/ FlushPick(c) \/ FlushCompute(c) PROVE Advances
  BY <1>b, <1>9, Zenon DEF SwitchKeepsLog, FlushBegin, FlushPick, FlushCompute, logVars, fileVars, versionVars
<1>10. CASE SwitchFails \/ WriteToWALFails \/ SwitchDeletesWals \/ FlushFails
  BY <1>b, <1>10, Zenon DEF SwitchFails, WriteToWALFails, SwitchDeletesWals, FlushFails, logVars, fileVars, versionVars
<1>11. ASSUME NEW c, FlushInstall(c) PROVE Advances
  <2>1. UNCHANGED <<logfile_number, synced, linked, flushed>>
        /\ min_log_number_to_keep' = Larger(min_log_number_to_keep, local[Flusher].min_log)
    BY <1>11, Zenon DEF FlushInstall, logVars, fileVars
  <2>2. min_log_number_to_keep <= min_log_number_to_keep'
    <3>1. local[Flusher].min_log \in Nat
      BY <1>0, Zenon DEF Locals
    <3> QED
      BY <2>1, <3>1, Numbers DEF Larger
  <2> QED
    BY <1>a, <2>1, <2>2, Numbers DEF Advances, Monotone
<1>12. ASSUME NEW p, FindObsoleteFiles(p) \/ PopLogs(p) \/ DeleteFile(p) PROVE Advances
  BY <1>b, <1>12, Zenon DEF FindObsoleteFiles, PopLogs, DeleteFile, logVars, fileVars, versionVars
<1>13. CASE UNCHANGED vars
  BY <1>b, <1>13, Zenon DEF vars, logVars, fileVars, versionVars
<1> QED
  BY <1>1, <1>2, <1>3, <1>4, <1>5, <1>6, <1>7, <1>8, <1>9, <1>10, <1>11, <1>12, <1>13, Zenon
     DEF Next, Calls, WriterStep, FlushStep, PurgeStep, Syncing

(* The steps of the flush thread, and a step of another thread as it sees  *)
(* it.                                                                     *)
FlusherStep ==
    \/ SyncClosedLogs \/ FlushFails \/ Syncing(Flusher)
    \/ \E c \in Families : FlushBegin(c) \/ FlushPick(c) \/ FlushCompute(c) \/ FlushInstall(c)

FlusherRests ==
    /\ pc'[Flusher] = pc[Flusher] /\ local'[Flusher] = local[Flusher]
    /\ installed' = installed
    /\ Grows

(* A step of another thread leaves the flush thread alone.                 *)
LEMMA OthersRest ==
    ASSUME TypeOK, Places, Kept, [Next]_vars, ~FlusherStep
    PROVE  FlusherRests
<1>a. /\ local \in [Threads -> Locals] /\ pc \in [Threads -> Labels] /\ Flusher \in Threads
      /\ Writer \in Threads /\ Writer # Flusher /\ Flusher \notin Purgers /\ Flusher \notin Syncers
      /\ setup.syncers \subseteq Syncers /\ Purgers \subseteq Threads /\ Syncers \subseteq Threads
  BY WalAssumption, Zenon DEF TypeOK, Threads
<1>b. ASSUME UNCHANGED cf \/ \E C : InsertInto(C) PROVE Grows
  <2>1. \A c \in Families : cf'[c].log = cf[c].log /\ cf'[c].imm = cf[c].imm
    BY <1>b, InsertEffect, Zenon
  <2> QED
    BY <2>1 DEF Grows, TypeOK, ColumnFamilies, Logs
<1>c. ASSUME NEW p \in Threads \ {Flusher}, NEW m, NEW x, local' = [local EXCEPT ![p] = m],
             pc' = [pc EXCEPT ![p] = x]
      PROVE  pc'[Flusher] = pc[Flusher] /\ local'[Flusher] = local[Flusher]
  BY <1>a, <1>c, Zenon
<1>d. ASSUME NEW p \in Threads \ {Flusher}, Finish(p)
      PROVE  pc'[Flusher] = pc[Flusher] /\ local'[Flusher] = local[Flusher] /\ installed' = installed
  <2>1. Others(p)
    BY <1>d, FinishEffect, Zenon
  <2>2. installed' = installed
    BY <1>d, Zenon DEF Finish
  <2> QED
    BY <1>a, <1>d, <2>1, <2>2, Zenon DEF Others
<1>1. ASSUME NEW p \in Threads \ {Flusher}, NEW l, WaitOrPrepare(p, l) PROVE FlusherRests
  <2>1. pc'[Flusher] = pc[Flusher] /\ local'[Flusher] = local[Flusher]
    BY <1>1, <1>c, Zenon DEF WaitOrPrepare, PrepareLogs, Goto
  <2> QED
    BY <1>1, <1>b, <2>1, Zenon DEF WaitOrPrepare, fixedVars, versionVars, FlusherRests
<1>2. ASSUME NEW p \in Threads, PrepareForSync(p) PROVE FlusherRests
  <2>1. p # Flusher
    BY <1>2, Zenon DEF FlusherStep, Syncing
  <2>2. WaitOrPrepare(p, local[p])
    BY <1>2, Zenon DEF PrepareForSync, WaitOrPrepare
  <2> QED
    BY <1>1, <2>1, <2>2, Zenon
<1>3. ASSUME NEW p \in Threads, SyncLog(p) PROVE FlusherRests
  <2>1. p # Flusher
    BY <1>3, Zenon DEF FlusherStep, Syncing
  <2>2. \E S : local' = [local EXCEPT ![p].todo = @ \ S]
    BY <1>3, Zenon DEF SyncLog
  <2>3. UNCHANGED <<pc, cf, installed>>
    BY <1>3, Zenon DEF SyncLog, versionVars, fixedVars
  <2> QED
    BY <1>a, <1>b, <2>1, <2>2, <2>3, SyncLogEffect, Zenon DEF FlusherRests
<1>4. ASSUME NEW p \in Threads, SyncDir(p) \/ SyncFails(p) PROVE FlusherRests
  <2>1. p # Flusher
    BY <1>4, Zenon DEF FlusherStep, Syncing
  <2>2. UNCHANGED local \/ local' = [local EXCEPT ![p].ok = FALSE]
    BY <1>4, Zenon DEF SyncDir, SyncFails
  <2>3. UNCHANGED <<cf, installed>> /\ Goto(p, "mark")
    BY <1>4, Zenon DEF SyncDir, SyncFails, versionVars, fixedVars
  <2> QED
    BY <1>a, <1>b, <2>1, <2>2, <2>3, FailEffect, Zenon DEF FlusherRests, Goto
<1>5. ASSUME NEW p \in Threads, MarkLogsSynced(p) \/ MarkLogsNotSynced(p) \/ ApplyWALToManifest(p)
      PROVE  FlusherRests
  <2>1. p # Flusher
    BY <1>5, Zenon DEF FlusherStep, Syncing
  <2>2. Grows
    BY <1>5, <1>b, Zenon DEF MarkLogsSynced, MarkLogsNotSynced, ApplyWALToManifest, versionVars
  <2>3. CASE Finish(p)
    BY <1>d, <2>1, <2>2, <2>3, Zenon DEF FlusherRests
  <2>4. CASE ~Finish(p)
    <3>1. /\ \E sizes : local' = [local EXCEPT ![p].synced_wals = sizes, ![p].held = {}, ![p].todo = {}]
          /\ Goto(p, "apply") /\ installed' = installed
      BY <1>5, <2>4, Zenon DEF MarkLogsSynced, MarkLogsNotSynced, ApplyWALToManifest, fixedVars
    <3> QED
      BY <1>a, <2>1, <2>2, <3>1, TrackEffect, Zenon DEF FlusherRests, Goto
  <2> QED
    BY <2>3, <2>4, Zenon
<1>6. ASSUME NEW p \in setup.syncers, SyncWAL(p) \/ FlushWAL(p) PROVE FlusherRests
  <2>1. p \in Threads \ {Flusher}
    BY <1>a, Zenon
  <2>2. CASE SyncWAL(p)
    BY <1>1, <2>1, <2>2, Zenon DEF SyncWAL
  <2>3. CASE FlushWAL(p)
    BY <1>b, <2>3, Zenon DEF FlushWAL, FlusherRests, versionVars, fixedVars
  <2> QED
    BY <1>6, <2>2, <2>3, Zenon
<1>7. ASSUME NEW C, WriteSync(C) PROVE FlusherRests
  BY <1>1, <1>7, <1>a, Zenon DEF WriteSync
<1>8. ASSUME NEW C, Write(C) PROVE FlusherRests
  <2>1. Grows
    BY <1>b, <1>8, Zenon DEF Write
  <2> QED
    BY <1>8, <2>1, Zenon DEF Write, FlusherRests, fixedVars
<1>9. CASE SwitchFails
  BY <1>9, <1>b, Zenon DEF SwitchFails, FlusherRests, versionVars, fixedVars
<1>10. CASE WriteToWAL
  <2>1. UNCHANGED <<cf, installed>> /\ pc'[Flusher] = pc[Flusher] /\ local'[Flusher] = local[Flusher]
    BY <1>10, <1>a, Zenon DEF WriteToWAL, versionVars, fixedVars, Goto
  <2> QED
    BY <1>b, <2>1, Zenon DEF FlusherRests
<1>11. CASE WriteToWALFails
  <2>1. UNCHANGED <<cf, installed>> /\ pc'[Flusher] = pc[Flusher] /\ local'[Flusher] = local[Flusher]
    BY <1>11, <1>a, Zenon DEF WriteToWALFails, versionVars, fixedVars, Goto
  <2> QED
    BY <1>b, <2>1 DEF FlusherRests
<1>12. ASSUME NEW c \in Families, SwitchKeepsLog(c) PROVE FlusherRests
  <2>1. UNCHANGED <<installed, pc, local>> /\ Seal(c, logfile_number, {})
    BY <1>12, Zenon DEF SwitchKeepsLog, fixedVars
  <2>2. Grows
    BY <2>1, SealGrows, Numbers DEF Kept, TypeOK
  <2> QED
    BY <2>1, <2>2, Zenon DEF FlusherRests
<1>13. ASSUME NEW c \in Families, SwitchMemtable(c) PROVE FlusherRests
  <2>1. installed' = installed /\ pc'[Flusher] = pc[Flusher] /\ local'[Flusher] = local[Flusher]
    BY <1>13, <1>a, Zenon DEF SwitchMemtable, fixedVars, Goto
  <2>2. UNCHANGED cf \/ \E advance : Seal(c, logfile_number + 1, advance)
    BY <1>13, Zenon DEF SwitchMemtable
  <2>3. logfile_number + 1 \in Logs /\ logfile_number <= logfile_number + 1
    <3>1. setup.logs \in Logs /\ logfile_number + 1 <= setup.logs
      BY <1>13, WalAssumption, Zenon DEF SwitchMemtable, TypeOK
    <3>2. logfile_number \in 1..MaxLogs /\ setup.logs \in 1..MaxLogs /\ MaxLogs \in Nat
      BY <3>1, WalAssumption, Zenon DEF Logs, TypeOK
    <3> QED
      BY <3>1, <3>2 DEF Logs
  <2> QED
    BY <1>b, <2>1, <2>2, <2>3, SealGrows, Zenon DEF FlusherRests, Kept
<1>14. CASE SwitchDeletesWals
  <2>1. installed' = installed /\ pc'[Flusher] = pc[Flusher] /\ local'[Flusher] = local[Flusher]
    BY <1>14, <1>a, Zenon DEF SwitchDeletesWals, fixedVars, Goto, Forget
  <2>2. \E c, advance : Seal(c, logfile_number, advance)
    BY <1>14, Zenon DEF SwitchDeletesWals
  <2> QED
    BY <2>1, <2>2, SealGrows, Numbers DEF FlusherRests, Kept, TypeOK
<1>15. ASSUME NEW p \in Purgers, FindObsoleteFiles(p) \/ PopLogs(p) \/ DeleteFile(p) PROVE FlusherRests
  <2>1. pc'[Flusher] = pc[Flusher] /\ local'[Flusher] = local[Flusher]
    BY <1>15, <1>a, Zenon DEF FindObsoleteFiles, PopLogs, DeleteFile, Goto, Forget
  <2>2. UNCHANGED <<cf, installed>>
    BY <1>15, Zenon DEF FindObsoleteFiles, PopLogs, DeleteFile, versionVars, fixedVars
  <2> QED
    BY <1>b, <2>1, <2>2, Zenon DEF FlusherRests
<1>16. CASE UNCHANGED vars
  BY <1>16, <1>b, Zenon DEF vars, versionVars, fixedVars, FlusherRests
<1> QED
  BY <1>2, <1>3, <1>4, <1>5, <1>6, <1>7, <1>8, <1>9, <1>10, <1>11, <1>12, <1>13, <1>14, <1>15, <1>16, Zenon
     DEF Next, Calls, WriterStep, FlushStep, PurgeStep, Syncing, FlusherStep

(* At first nothing is installed.                                          *)
LEMMA InitBacked == Init => Backed
<1> SUFFICES ASSUME Init PROVE InstalledBacked /\ FlusherBacks
  BY Zenon DEF Backed
<1>1. InstalledBacked
  BY DEF InstalledBacked, BackedBelow, Init, Logs
<1>2. pc[Flusher] = "idle"
  BY Zenon DEF Init, Threads
<1>3. FlusherBacks
  BY <1>2, Zenon DEF FlusherBacks, Clean
<1> QED
  BY <1>1, <1>3, Zenon

(* A closed log that is synced and linked stays so.                        *)
LEMMA BackedLogKept ==
    ASSUME TypeOK, TypeOK', FilesOK', Advances, NEW n \in Logs, n < logfile_number
    PROVE  /\ Needed(n)' => Needed(n)
           /\ n \in linked => n \in linked'
           /\ synced[n] = flushed[n] => synced'[n] = flushed'[n]
<1>1. min_log_number_to_keep' \in Nat /\ synced'[n] \in Nat /\ flushed'[n] \in Nat
  BY Zenon DEF TypeOK, Sizes
<1>2. Needed(n)' => Needed(n)
  BY <1>1, Numbers DEF Needed, Advances, Monotone
<1>3. n \in linked => n \in linked'
  BY Zenon DEF Advances, Monotone
<1>4. synced[n] = flushed[n] => synced'[n] = flushed'[n]
  <2>1. flushed'[n] = flushed[n] /\ synced[n] <= synced'[n] /\ synced'[n] <= flushed'[n]
    BY Numbers DEF Advances, Monotone, FilesOK
  <2> QED
    BY <1>1, <2>1, Numbers
<1> QED
  BY <1>2, <1>3, <1>4, Zenon

(* The number of the log after the flusher's memtables.                    *)
LEMMA NextLogIs ==
    ASSUME TypeOK, FlushJob, Kept, pc[Flusher] # "idle", NEW c \in local[Flusher].cfs
    PROVE  NextLog(c) \in Nat /\ NextLog(c) <= logfile_number /\ c \in Families
           /\ local[Flusher].cfs = {c} /\ local[Flusher].count \in 1..Len(cf[c].imm)
<1>1. c \in Families /\ local[Flusher].cfs = {c} /\ local[Flusher].count \in 1..Len(cf[c].imm)
  BY Zenon DEF FlushJob
<1>2. NextLog(c) <= logfile_number
  BY <1>1, Zenon DEF Kept, MemtablesInOrder, NextLog
<1>3. NextLog(c) \in Logs
  BY <1>1, NextLogType, Zenon
<1> QED
  BY <1>1, <1>2, <1>3, Numbers, Zenon

(* The flush thread's knowledge outlives the steps of the others: they     *)
(* change only the current log, and it is about closed ones.               *)
LEMMA RestBacks ==
    ASSUME TypeOK, FlushJob, Kept, TypeOK', FilesOK', Advances, FlusherRests, FlusherBacks
    PROVE  FlusherBacks'
<1>a. pc'[Flusher] = pc[Flusher] /\ local'[Flusher] = local[Flusher]
  BY Zenon DEF FlusherRests
<1>b. logfile_number' \in Nat /\ logfile_number <= logfile_number'
  BY DEF Advances, Monotone, TypeOK, Logs
<1>c. Flusher \in Threads
  BY Zenon DEF Threads
<1>1. ASSUME NEW c \in local[Flusher].cfs, pc[Flusher] # "idle"
      PROVE  /\ NextLog(c)' = NextLog(c)
             /\ BackedBelow(NextLog(c)) => BackedBelow(NextLog(c))'
  <2>1. NextLog(c) \in Nat /\ NextLog(c) <= logfile_number /\ c \in Families
        /\ local[Flusher].count \in 1..Len(cf[c].imm)
    BY <1>1, NextLogIs, Zenon
  <2>2. NextLog(c)' = NextLog(c)
    BY <1>a, <2>1, Zenon DEF NextLog, FlusherRests, Grows
  <2>3. ASSUME BackedBelow(NextLog(c)), NEW n \in Logs, Needed(n)', n < NextLog(c)'
        PROVE  n \in linked' /\ synced'[n] = flushed'[n]
    <3>1. n < logfile_number /\ n < NextLog(c)
      BY <2>1, <2>2, <2>3, Numbers
    <3> QED
      BY <2>3, <3>1, BackedLogKept, Zenon DEF BackedBelow
  <2> QED
    BY <2>2, <2>3, Zenon DEF BackedBelow
<1>2. \A c \in local'[Flusher].cfs :
         /\ pc'[Flusher] \in {"prepare", "sync", "mark", "apply"}
              => NextLog(c)' <= local'[Flusher].up_to + 1
         /\ pc'[Flusher] \in {"pick", "compute", "install"} => BackedBelow(NextLog(c))'
  BY <1>1, <1>a, Zenon DEF FlusherBacks
<1>3. pc'[Flusher] \in {"prepare", "sync", "mark", "apply"} => local'[Flusher].up_to < logfile_number'
  BY <1>a, <1>b, <1>c, Numbers DEF FlusherBacks
<1>4. ASSUME pc[Flusher] = "sync" \/ Clean(Flusher), NEW n \in Logs,
             Needed(n)', n <= local[Flusher].up_to, n \notin local[Flusher].todo
      PROVE  synced'[n] = flushed'[n]
  <2>1. n < logfile_number
    BY <1>4, <1>c, Numbers DEF FlusherBacks, Clean
  <2> QED
    BY <1>4, <2>1, BackedLogKept, Zenon DEF FlusherBacks
<1> QED
  BY <1>a, <1>2, <1>3, <1>4, Zenon DEF FlusherBacks, Clean

(* A step of the flush thread that leaves it neither syncing nor with logs *)
(* that it has synced.                                                     *)
LEMMA IdleBacks ==
    ASSUME pc'[Flusher] \in {"idle", "closed", "failed"}
    PROVE  FlusherBacks'
BY Zenon DEF FlusherBacks, Clean

(* The closed logs are synced: what a flush relies on when it goes on.     *)
LEMMA SyncedBacks ==
    ASSUME TypeOK, TypeOK', FlushJob, Kept, Durable, FlusherBacks, Clean(Flusher),
           pc'[Flusher] = "pick", local'[Flusher].cfs = local[Flusher].cfs,
           local'[Flusher].count = local[Flusher].count,
           UNCHANGED <<cf, logfile_number, min_log_number_to_keep, linked, synced, flushed>>
    PROVE  FlusherBacks'
<1>a. Flusher \in Threads /\ pc[Flusher] # "idle"
  BY Zenon DEF Threads, Clean
<1>1. ASSUME NEW c \in local[Flusher].cfs, NEW n \in Logs, Needed(n), n < NextLog(c)
      PROVE  n \in linked /\ synced[n] = flushed[n]
  <2>1. NextLog(c) \in Nat /\ NextLog(c) <= local[Flusher].up_to + 1
    BY <1>a, <1>1, NextLogIs, Zenon DEF FlusherBacks, Clean
  <2>2. n <= local[Flusher].up_to
    BY <1>a, <1>1, <2>1, Numbers
  <2>3. Linked(local[Flusher].up_to) /\ local[Flusher].todo = {}
    BY <1>a, Zenon DEF Durable, SyncKnows
  <2> QED
    BY <1>1, <2>2, <2>3, Zenon DEF FlusherBacks, Linked
<1>2. \A c \in local'[Flusher].cfs : BackedBelow(NextLog(c))'
  BY <1>1, Zenon DEF BackedBelow, NextLog, Needed
<1> QED
  BY <1>2, Zenon DEF FlusherBacks, Clean

(* SyncClosedLogs covers the logs before the current one: all logs that    *)
(* the memtables could have come from.                                     *)
LEMMA PrepareBacks ==
    ASSUME TypeOK, TypeOK', FlushJob, Kept, Durable, FlusherBacks,
           SyncClosedLogs \/ PrepareForSync(Flusher)
    PROVE  FlusherBacks'
<1>a. Flusher \in Threads /\ Writer # Flusher /\ local[Flusher] \in Locals
      /\ local[Flusher].up_to \in Nat
  BY WalAssumption, Zenon DEF Threads, TypeOK, Locals
<1>1. PICK l \in Locals : /\ WaitOrPrepare(Flusher, l) /\ pc[Flusher] # "idle"
                          /\ l.cfs = local[Flusher].cfs /\ l.count = local[Flusher].count
                          /\ l.up_to \in Nat /\ l.up_to < logfile_number
                          /\ \A c \in l.cfs : NextLog(c) <= l.up_to + 1
  <2>1. CASE SyncClosedLogs
    <3> DEFINE l == [local[Flusher] EXCEPT !.up_to = logfile_number - 1]
    <3>1. logfile_number - 1 \in Nat
      BY DEF TypeOK, Logs
    <3>2. l \in Locals /\ l.cfs = local[Flusher].cfs /\ l.count = local[Flusher].count
          /\ l.up_to = logfile_number - 1
      BY <1>a, <3>1, Zenon DEF Locals
    <3>3. WaitOrPrepare(Flusher, l) /\ pc[Flusher] # "idle"
      BY <2>1, Zenon DEF SyncClosedLogs
    <3> HIDE DEF l
    <3>4. \A c \in l.cfs : NextLog(c) <= l.up_to + 1
      BY <3>1, <3>2, <3>3, NextLogIs, Numbers
    <3>5. l.up_to \in Nat /\ l.up_to < logfile_number
      BY <3>1, <3>2, Numbers
    <3> QED
      BY <3>2, <3>3, <3>4, <3>5, Zenon
  <2>2. CASE PrepareForSync(Flusher)
    <3>1. WaitOrPrepare(Flusher, local[Flusher]) /\ pc[Flusher] = "prepare"
      BY <2>2, Zenon DEF PrepareForSync, WaitOrPrepare
    <3> QED
      BY <1>a, <3>1, Zenon DEF FlusherBacks
  <2> QED
    BY <2>1, <2>2, Zenon
<1>2. UNCHANGED <<cf, logs, logfile_number, min_log_number_to_keep, linked, synced, flushed>>
  BY <1>1, Zenon DEF WaitOrPrepare, versionVars, fileVars
<1>3. \/ MustWait(l) /\ pc'[Flusher] = "prepare" /\ local'[Flusher] = l
      \/ /\ ~MustWait(l) /\ pc'[Flusher] = IF UpTo(l.up_to) = {} THEN "pick" ELSE "sync"
         /\ local'[Flusher].todo = UpTo(l.up_to) /\ local'[Flusher].need_dir = TRUE
         /\ local'[Flusher].up_to = l.up_to
         /\ local'[Flusher].cfs = l.cfs /\ local'[Flusher].count = l.count
  BY <1>a, <1>1, PrepareEffect, Zenon
<1>4. /\ local'[Flusher].cfs = l.cfs /\ local'[Flusher].count = local[Flusher].count
      /\ local'[Flusher].up_to = l.up_to
      /\ \A c \in l.cfs : NextLog(c)' = NextLog(c)
  BY <1>1, <1>2, <1>3, Zenon DEF NextLog
<1>5. ASSUME NEW n \in Logs, Needed(n)', n \notin UpTo(l.up_to), n <= l.up_to
      PROVE  n \in linked' /\ synced'[n] = flushed'[n]
  BY <1>2, <1>5, Zenon DEF Durable, FilesOK, UpTo, Needed
<1>6. CASE MustWait(l)
  <2>1. pc'[Flusher] = "prepare"
    BY <1>3, <1>6, Zenon
  <2> QED
    BY <1>1, <1>2, <1>4, <2>1, Zenon DEF FlusherBacks, Clean
<1>7. CASE ~MustWait(l) /\ UpTo(l.up_to) # {}
  <2>1. pc'[Flusher] = "sync" /\ local'[Flusher].need_dir = TRUE /\ local'[Flusher].todo = UpTo(l.up_to)
    BY <1>3, <1>7, Zenon
  <2> QED
    BY <1>1, <1>2, <1>4, <1>5, <2>1, Zenon DEF FlusherBacks, Clean
<1>8. CASE ~MustWait(l) /\ UpTo(l.up_to) = {}
  <2>1. pc'[Flusher] = "pick"
    BY <1>3, <1>8, Zenon
  <2>2. ASSUME NEW c \in l.cfs, NEW n \in Logs, Needed(n)', n < NextLog(c)'
        PROVE  n \in linked' /\ synced'[n] = flushed'[n]
    <3>1. NextLog(c) \in Nat /\ NextLog(c) <= l.up_to + 1 /\ NextLog(c)' = NextLog(c)
      BY <1>1, <1>4, NextLogIs, Zenon
    <3>2. n <= l.up_to
      BY <1>1, <2>2, <3>1, Numbers
    <3> QED
      BY <1>5, <1>8, <2>2, <3>2, Zenon
  <2>3. \A c \in local'[Flusher].cfs : BackedBelow(NextLog(c))'
    BY <1>4, <2>2, Zenon DEF BackedBelow
  <2> QED
    BY <2>1, <2>3, Zenon DEF FlusherBacks, Clean
<1> QED
  BY <1>6, <1>7, <1>8, Zenon

(* A closed log that has been synced is wholly synced.                     *)
LEMMA SyncLogBacks ==
    ASSUME TypeOK, TypeOK', Protocol, FilesOK', Advances, FlusherBacks, SyncLog(Flusher)
    PROVE  FlusherBacks'
<1> DEFINE now == {Least(local[Flusher].todo)}
<1>a. Flusher \in Threads /\ Flusher # Writer
  BY WalAssumption, Zenon DEF Threads
<1>1. /\ pc[Flusher] = "sync" /\ UNCHANGED <<pc, cf, logfile_number>>
      /\ local' = [local EXCEPT ![Flusher].todo = @ \ now]
      /\ synced' = [n \in Logs |-> IF n \in now THEN flushed'[n] ELSE synced[n]]
  BY <1>a DEF SyncLog, logVars, versionVars
<1> HIDE DEF now
<1>2. /\ local'[Flusher].todo = local[Flusher].todo \ now
      /\ local'[Flusher].need_dir = local[Flusher].need_dir /\ local'[Flusher].up_to = local[Flusher].up_to
      /\ local'[Flusher].cfs = local[Flusher].cfs /\ local'[Flusher].count = local[Flusher].count
  BY <1>1, <1>a, SyncLogEffect, Zenon
<1>3. \A c \in local[Flusher].cfs : NextLog(c)' = NextLog(c)
  BY <1>1, <1>2, Zenon DEF NextLog
<1>4. ASSUME NEW n \in Logs, Needed(n)', n <= local[Flusher].up_to, n \notin local[Flusher].todo \ now
      PROVE  synced'[n] = flushed'[n]
  <2>1. CASE n \in now
    BY <1>1, <2>1, Zenon
  <2>2. CASE n \notin now
    <3>1. n < logfile_number
      BY <1>1, <1>4, <1>a, Numbers DEF FlusherBacks
    <3> QED
      BY <1>1, <1>4, <2>2, <3>1, BackedLogKept, Zenon DEF FlusherBacks
  <2> QED
    BY <2>1, <2>2, Zenon
<1> QED
  BY <1>1, <1>2, <1>3, <1>4 DEF FlusherBacks, Clean

(* MarkLogsSynced hands the synced logs on to the flush.                   *)
LEMMA MarkBacks ==
    ASSUME TypeOK, TypeOK', FlushJob, Kept, Durable, FlusherBacks, MarkLogsSynced(Flusher)
    PROVE  FlusherBacks'
<1>a. Flusher \in Threads /\ Flusher # Writer
  BY WalAssumption, Zenon DEF Threads
<1>1. /\ Clean(Flusher)
      /\ UNCHANGED <<cf, logfile_number, min_log_number_to_keep, linked, synced, flushed>>
  BY <1>a, Zenon DEF MarkLogsSynced, Clean, fileVars
<1>2. CASE Finish(Flusher)
  <2>1. pc'[Flusher] = "pick" /\ local'[Flusher].cfs = local[Flusher].cfs
        /\ local'[Flusher].count = local[Flusher].count
    BY <1>1, <1>2, <1>a, FinishEffect, Zenon DEF Clean
  <2> QED
    BY <1>1, <2>1, SyncedBacks, Zenon
<1>3. CASE ~Finish(Flusher)
  <2>1. /\ \E sizes : local' = [local EXCEPT ![Flusher].synced_wals = sizes, ![Flusher].held = {},
                                   ![Flusher].todo = {}]
        /\ Goto(Flusher, "apply")
    BY <1>3, Zenon DEF MarkLogsSynced
  <2>2. /\ pc'[Flusher] = "apply" /\ local'[Flusher].todo = {}
        /\ local'[Flusher].up_to = local[Flusher].up_to
        /\ local'[Flusher].cfs = local[Flusher].cfs /\ local'[Flusher].count = local[Flusher].count
    BY <1>a, <2>1, TrackEffect, Zenon DEF Goto, TypeOK
  <2>3. local[Flusher].todo = {} /\ pc[Flusher] \in {"mark", "apply"}
    BY <1>1, <1>a, Zenon DEF Durable, SyncKnows, Clean
  <2>4. \A c \in local[Flusher].cfs : NextLog(c)' = NextLog(c)
    BY <1>1, <2>2, Zenon DEF NextLog
  <2> QED
    BY <1>1, <2>2, <2>3, <2>4 DEF FlusherBacks, Clean, Needed
<1> QED
  BY <1>2, <1>3, Zenon

(* Every step keeps what the flush thread knows.                           *)
LEMMA StepFlusherBacks ==
    ASSUME TypeOK, Places, FlushJob, Kept, Protocol, Durable, NeedsToSyncClosedWals, FlusherBacks,
           [Next]_vars, TypeOK', Durable', FlushJob', Advances
    PROVE  FlusherBacks'
<1>a. /\ local \in [Threads -> Locals] /\ pc \in [Threads -> Labels] /\ Flusher \in Threads
      /\ FilesOK' /\ local[Flusher] \in Locals
  BY Zenon DEF TypeOK, Durable, Threads
<1>1. CASE ~FlusherStep
  BY <1>1, <1>a, OthersRest, RestBacks, Zenon
<1>2. CASE SyncClosedLogs \/ PrepareForSync(Flusher)
  BY <1>2, PrepareBacks, Zenon
<1>3. CASE SyncLog(Flusher)
  BY <1>3, <1>a, SyncLogBacks, Zenon
<1>4. CASE SyncDir(Flusher)
  <2>1. /\ pc[Flusher] = "sync" /\ pc'[Flusher] = "mark" /\ local[Flusher].todo = {}
        /\ UNCHANGED <<local, cf, logfile_number, min_log_number_to_keep, synced, flushed>>
    BY <1>4, <1>a, Zenon DEF SyncDir, Goto, logVars, versionVars
  <2>2. \A c \in local[Flusher].cfs : NextLog(c)' = NextLog(c)
    BY <2>1, Zenon DEF NextLog
  <2> QED
    BY <2>1, <2>2, Zenon DEF FlusherBacks, Clean, Needed
<1>5. CASE SyncFails(Flusher)
  <2>1. /\ pc[Flusher] = "sync" /\ pc'[Flusher] = "mark"
        /\ UNCHANGED <<cf, logfile_number>> /\ local' = [local EXCEPT ![Flusher].ok = FALSE]
    BY <1>5, <1>a, Zenon DEF SyncFails, Goto, logVars, versionVars
  <2>2. /\ local'[Flusher].ok = FALSE /\ local'[Flusher].up_to = local[Flusher].up_to
        /\ local'[Flusher].cfs = local[Flusher].cfs /\ local'[Flusher].count = local[Flusher].count
    BY <1>a, <2>1, FailEffect, Zenon
  <2>3. \A c \in local[Flusher].cfs : NextLog(c)' = NextLog(c)
    BY <2>1, <2>2, Zenon DEF NextLog
  <2> QED
    BY <2>1, <2>2, <2>3, Zenon DEF FlusherBacks, Clean
<1>6. CASE MarkLogsSynced(Flusher)
  BY <1>6, MarkBacks, Zenon
<1>7. CASE MarkLogsNotSynced(Flusher)
  <2>1. pc'[Flusher] = "failed"
    BY <1>7, <1>a, FinishEffect, Zenon DEF MarkLogsNotSynced
  <2> QED
    BY <2>1, IdleBacks, Zenon
<1>8. CASE ApplyWALToManifest(Flusher)
  <2>1. /\ pc[Flusher] = "apply" /\ Finish(Flusher)
        /\ UNCHANGED <<cf, logfile_number, min_log_number_to_keep, linked, synced, flushed>>
    BY <1>8, Zenon DEF ApplyWALToManifest, logVars, fileVars
  <2>2. Clean(Flusher)
    BY <1>a, <2>1, Zenon DEF Durable, SyncKnows, Clean
  <2>3. pc'[Flusher] = "pick" /\ local'[Flusher].cfs = local[Flusher].cfs
        /\ local'[Flusher].count = local[Flusher].count
    BY <1>a, <2>1, <2>2, FinishEffect, Zenon DEF Clean
  <2> QED
    BY <2>1, <2>2, <2>3, SyncedBacks, Zenon
<1>9. CASE FlushFails \/ \E c \in Families : FlushInstall(c)
  <2>1. pc'[Flusher] = "idle"
    BY <1>9, <1>a, Zenon DEF FlushFails, FlushInstall, Goto
  <2> QED
    BY <2>1, IdleBacks, Zenon
<1>10. ASSUME NEW c \in Families, FlushBegin(c) PROVE FlusherBacks'
  <2>1. pc'[Flusher] = "closed"
    BY <1>10, <1>a, Zenon DEF FlushBegin, Goto
  <2> QED
    BY <2>1, IdleBacks, Zenon
<1>11. ASSUME NEW c \in Families, FlushPick(c) \/ FlushCompute(c) PROVE FlusherBacks'
  <2>1. /\ pc[Flusher] \in {"pick", "compute"} /\ pc'[Flusher] \in {"compute", "install"}
        /\ UNCHANGED <<cf, logfile_number, min_log_number_to_keep, linked, synced, flushed>>
    BY <1>11, <1>a, Zenon DEF FlushPick, FlushCompute, Goto, logVars, fileVars, versionVars
  <2>2. local'[Flusher].cfs = local[Flusher].cfs /\ local'[Flusher].count = local[Flusher].count
    BY <1>11, <1>a DEF FlushPick, FlushCompute, Locals
  <2>3. \A d \in local[Flusher].cfs : BackedBelow(NextLog(d)) => BackedBelow(NextLog(d))'
    BY <2>1, <2>2, Zenon DEF NextLog, BackedBelow, Needed
  <2> QED
    BY <2>1, <2>2, <2>3, Zenon DEF FlusherBacks, Clean
<1> QED
  BY <1>1, <1>2, <1>3, <1>4, <1>5, <1>6, <1>7, <1>8, <1>9, <1>10, <1>11, Zenon DEF FlusherStep, Syncing

(* Every step keeps the fourth layer.                                      *)
LEMMA StepBacked ==
    /\ TypeOK /\ Places /\ FlushJob /\ Kept /\ Protocol /\ Durable /\ Backed /\ [Next]_vars
    /\ TypeOK' /\ FlushJob' /\ Durable'
    => Backed'
<1> SUFFICES ASSUME TypeOK, Places, FlushJob, Kept, Protocol, Durable, Backed, [Next]_vars,
                    TypeOK', FlushJob', Durable', NeedsToSyncClosedWals'
             PROVE  InstalledBacked' /\ FlusherBacks'
  BY Zenon DEF Backed
<1>1. Advances
  BY StepAdvances, Zenon
<1>2. InstalledBacked /\ FlusherBacks /\ NeedsToSyncClosedWals
  <2>1. NeedsToSyncClosedWals
    BY <1>1, Zenon DEF NeedsToSyncClosedWals, Families, Advances
  <2> QED
    BY <2>1, Zenon DEF Backed
<1>3. FlusherBacks'
  BY <1>1, <1>2, StepFlusherBacks, Zenon
<1>a. installed \in Nat /\ installed <= logfile_number /\ logfile_number' \in Nat
      /\ logfile_number <= logfile_number' /\ logfile_number \in Nat /\ FilesOK'
  BY <1>1, <1>2 DEF InstalledBacked, TypeOK, Advances, Monotone, Logs, Durable
<1>4. ASSUME NEW n \in Logs, Needed(n)', n < installed PROVE n \in linked' /\ synced'[n] = flushed'[n]
  <2>1. n < logfile_number
    BY <1>4, <1>a, Numbers
  <2> QED
    BY <1>1, <1>2, <1>4, <1>a, <2>1, BackedLogKept, Zenon DEF InstalledBacked, BackedBelow
<1>5. ASSUME installed' = installed PROVE InstalledBacked'
  BY <1>4, <1>5, <1>a DEF InstalledBacked, BackedBelow
<1>6. ASSUME NEW c \in Families, FlushInstall(c) PROVE InstalledBacked'
  <2>1. /\ pc[Flusher] = "install" /\ c \in local[Flusher].cfs /\ logfile_number' = logfile_number
        /\ installed' = Larger(installed, NextLog(c))
    BY <1>6, Zenon DEF FlushInstall, logVars
  <2>2. NextLog(c) \in Nat /\ NextLog(c) <= logfile_number /\ BackedBelow(NextLog(c))
    BY <1>2, <2>1, NextLogIs, Zenon DEF FlusherBacks
  <2>3. ASSUME NEW n \in Logs, Needed(n)', n < NextLog(c) PROVE n \in linked' /\ synced'[n] = flushed'[n]
    <3>1. n < logfile_number
      BY <1>a, <2>2, <2>3, Numbers
    <3> QED
      BY <1>1, <1>a, <2>2, <2>3, <3>1, BackedLogKept, Zenon DEF BackedBelow
  <2>4. installed' = installed \/ installed' = NextLog(c)
    BY <2>1, Zenon DEF Larger
  <2>5. CASE installed' = NextLog(c)
    BY <1>a, <2>1, <2>2, <2>3, <2>5, Zenon DEF InstalledBacked, BackedBelow
  <2> QED
    BY <1>5, <2>4, <2>5, Zenon
<1>7. ASSUME ~\E c \in Families : FlushInstall(c) PROVE installed' = installed
  <2>1. CASE ~FlusherStep
    BY <2>1, OthersRest, Zenon DEF FlusherRests
  <2>2. CASE Syncing(Flusher)
    BY <2>2, Zenon DEF Syncing, PrepareForSync, SyncLog, SyncDir, SyncFails, MarkLogsSynced, MarkLogsNotSynced,
       ApplyWALToManifest, Finish, fixedVars
  <2>3. CASE SyncClosedLogs \/ FlushFails \/ \E c \in Families : FlushBegin(c) \/ FlushPick(c) \/ FlushCompute(c)
    BY <2>3, Zenon DEF SyncClosedLogs, WaitOrPrepare, FlushFails, FlushBegin, FlushPick, FlushCompute, fixedVars
  <2> QED
    BY <1>7, <2>1, <2>2, <2>3, Zenon DEF FlusherStep
<1> QED
  BY <1>3, <1>5, <1>6, <1>7, Zenon

(* The fourth layer gives FlushedIsBacked.                                 *)
LEMMA BackedSuffices == TypeOK /\ Kept /\ Durable /\ Backed => FlushedIsBacked
<1> SUFFICES ASSUME TypeOK, Kept, Durable, Backed, NeedsToSyncClosedWals, NEW n \in Logs,
                    n >= min_log_number_to_keep, n < installed, flushed[n] > 0
             PROVE  n \in linked \cap files /\ synced[n] = flushed[n]
  BY Zenon DEF FlushedIsBacked
<1>1. InstalledBacked /\ installed \in Nat
  BY Zenon DEF Backed, TypeOK
<1>2. Needed(n)
  BY <1>1, Numbers DEF InstalledBacked, Needed
<1> QED
  BY <1>1, <1>2, Zenon DEF InstalledBacked, BackedBelow, Kept

(* The numbers of the WalSet and of the edits.                             *)
LEMMA WalSetNumbers ==
    ASSUME TypeOK
    PROVE  /\ wal_set.min_wal_number_to_keep \in Nat
           /\ \A n \in Logs : wal_set.wals[n] \in Nat
           /\ \A p \in Threads : local[p].min_log \in Nat /\ local[p].synced_wals \in Sizes
                                 /\ \A n \in Logs : local[p].synced_wals[n] \in Nat
           /\ NoSizes \in Sizes /\ \A n \in Logs : NoSizes[n] = 0
<1>1. wal_set.wals \in Sizes /\ wal_set.min_wal_number_to_keep \in Nat
  BY Zenon DEF TypeOK, WalSets
<1>2. \A p \in Threads : local[p].min_log \in Nat /\ local[p].synced_wals \in Sizes
  BY Zenon DEF TypeOK, Locals
<1>3. NoSizes \in Sizes /\ \A n \in Logs : NoSizes[n] = 0
  BY Zenon DEF NoSizes, Sizes
<1> QED
  BY <1>1, <1>2, <1>3, Zenon DEF Sizes

(* The numbers after a step.                                               *)
LEMMA NumbersThen ==
    ASSUME TypeOK'
    PROVE  /\ logfile_number' \in Nat /\ min_log_number_to_keep' \in Nat
           /\ wal_set'.min_wal_number_to_keep \in Nat
           /\ \A n \in Logs : synced'[n] \in Nat /\ wal_set'.wals[n] \in Nat
<1>1. wal_set'.wals \in Sizes /\ wal_set'.min_wal_number_to_keep \in Nat
  BY Zenon DEF TypeOK, WalSets
<1>2. logfile_number' \in Nat /\ min_log_number_to_keep' \in Nat
  BY DEF TypeOK, Logs
<1>3. synced' \in Sizes
  BY Zenon DEF TypeOK
<1> QED
  BY <1>1, <1>2, <1>3, Zenon DEF Sizes

(* A recovered MANIFEST tracks no log.                                     *)
LEMMA InitTracked == Init => Tracked
<1> SUFFICES ASSUME Init PROVE Tracked
  BY Zenon
<1>1. \A n \in Logs : NoSizes[n] = 0
  BY Zenon DEF NoSizes
<1>2. wal_set.wals = NoSizes /\ (track_and_verify_wals_in_manifest => wal_set.min_wal_number_to_keep = 1)
  BY Zenon DEF Init, RecoveredWalSet
<1>3. WalSetOK
  BY <1>1, <1>2 DEF WalSetOK, Init
<1>4. \A p \in Threads : pc[p] = "idle" /\ local[p].synced_wals = NoSizes
  BY Zenon DEF Init, NoLocal
<1>5. \A p \in Threads : SyncedWalsOK(p)
  BY <1>1, <1>4 DEF SyncedWalsOK
<1>6. OneManifest
  BY Zenon DEF OneManifest, Init
<1>7. FlushDeletes
  BY <1>4, Zenon DEF FlushDeletes, Threads
<1> QED
  BY <1>3, <1>5, <1>6, <1>7, Zenon DEF Tracked

(* What WalSet::AddWals and DeleteWalsBefore do to the set of one edit.    *)
LEMMA EditEffect ==
    ASSUME TypeOK, NEW sizes \in Sizes, NEW number \in Nat, LogAndApply(sizes, number)
    PROVE  /\ wal_set'.min_wal_number_to_keep = Larger(wal_set.min_wal_number_to_keep, number)
           /\ \A n \in Logs :
                \/ wal_set'.wals[n] = 0
                \/ wal_set'.wals[n] = wal_set.wals[n] /\ wal_set'.min_wal_number_to_keep <= n
                \/ wal_set'.wals[n] = wal_set.wals[n]
                     /\ wal_set'.min_wal_number_to_keep = wal_set.min_wal_number_to_keep
                \/ wal_set'.wals[n] = sizes[n] /\ wal_set'.min_wal_number_to_keep <= n
           /\ \A n \in Logs : n < wal_set'.min_wal_number_to_keep =>
                \/ wal_set'.wals[n] = 0
                \/ wal_set'.wals[n] = wal_set.wals[n] /\ n < wal_set.min_wal_number_to_keep
<1> DEFINE added == AddWals(wal_set, sizes)
<1>1. wal_set' = DeleteWalsBefore(added, number)
  BY Zenon DEF LogAndApply
<1>2. wal_set \in WalSets
  BY Zenon DEF TypeOK
<1>3. /\ added.min_wal_number_to_keep = wal_set.min_wal_number_to_keep
      /\ \A n \in Logs : added.wals[n] = IF n < wal_set.min_wal_number_to_keep THEN wal_set.wals[n]
                                         ELSE Larger(wal_set.wals[n], sizes[n])
  BY <1>2, Zenon DEF AddWals, WalSets
<1> HIDE DEF added
<1>4. \A n \in Logs : wal_set.wals[n] \in Nat /\ sizes[n] \in Nat /\ n \in Nat
  BY WalSetNumbers, Numbers, Zenon DEF Sizes
<1>5. wal_set.min_wal_number_to_keep \in Nat
  BY WalSetNumbers, Zenon
<1>6. CASE number <= added.min_wal_number_to_keep
  <2>1. wal_set' = added
    BY <1>1, <1>6, Zenon DEF DeleteWalsBefore
  <2> QED
    BY <1>3, <1>4, <1>5, <1>6, <2>1 DEF Larger
<1>7. CASE ~(number <= added.min_wal_number_to_keep)
  <2>1. /\ wal_set'.min_wal_number_to_keep = number
        /\ \A n \in Logs : wal_set'.wals[n] = IF n < number THEN 0 ELSE added.wals[n]
    BY <1>1, <1>7, Zenon DEF DeleteWalsBefore
  <2> QED
    BY <1>3, <1>4, <1>5, <1>7, <2>1 DEF Larger
<1> QED
  BY <1>6, <1>7, Zenon

(* An edit whose logs are synced, and whose deletion reaches the smallest  *)
(* log to keep, leaves a WalSet that CheckWals would accept.               *)
LEMMA EditWalSet ==
    ASSUME TypeOK, TypeOK', WalSetOK, Advances, NEW sizes \in Sizes, NEW number \in Nat,
           LogAndApply(sizes, number),
           \A n \in Logs : sizes[n] > 0 =>
              /\ track_and_verify_wals_in_manifest /\ n <= logfile_number
              /\ min_log_number_to_keep <= n => n \in linked /\ sizes[n] <= synced[n],
           track_and_verify_wals_in_manifest =>
              min_log_number_to_keep' <= Larger(wal_set.min_wal_number_to_keep, number)
    PROVE  WalSetOK' /\ wal_set.min_wal_number_to_keep <= wal_set'.min_wal_number_to_keep
<1>a. track_and_verify_wals_in_manifest' = track_and_verify_wals_in_manifest
  BY Zenon DEF track_and_verify_wals_in_manifest, Advances
<1>b. /\ logfile_number' \in Nat /\ min_log_number_to_keep' \in Nat
      /\ wal_set'.min_wal_number_to_keep \in Nat
      /\ \A n \in Logs : synced'[n] \in Nat /\ wal_set'.wals[n] \in Nat /\ sizes[n] \in Nat
  BY NumbersThen, Zenon DEF Sizes
<1>1. wal_set'.min_wal_number_to_keep = Larger(wal_set.min_wal_number_to_keep, number)
  BY EditEffect, Zenon
<1>2. wal_set.min_wal_number_to_keep <= wal_set'.min_wal_number_to_keep
  BY <1>1, WalSetNumbers DEF Larger
<1>3. \A n \in Logs : n < wal_set'.min_wal_number_to_keep => wal_set'.wals[n] = 0
  BY EditEffect, Zenon DEF WalSetOK
<1>4. track_and_verify_wals_in_manifest => min_log_number_to_keep' <= wal_set'.min_wal_number_to_keep
  BY <1>1, Zenon
<1>5. ASSUME NEW n \in Logs, wal_set'.wals[n] > 0
      PROVE  /\ track_and_verify_wals_in_manifest
             /\ n <= logfile_number' /\ n \in linked' /\ wal_set'.wals[n] <= synced'[n]
  <2>1. /\ logfile_number <= logfile_number' /\ synced[n] <= synced'[n] /\ linked \subseteq linked'
        /\ min_log_number_to_keep <= min_log_number_to_keep'
    BY Zenon DEF Advances, Monotone
  <2>2. CASE wal_set'.wals[n] = wal_set.wals[n]
    <3>1. track_and_verify_wals_in_manifest /\ n <= logfile_number /\ n \in linked
          /\ wal_set.wals[n] <= synced[n]
      BY <1>5, <2>2, Zenon DEF WalSetOK
    <3> QED
      BY <1>b, <2>1, <2>2, <3>1, Numbers, WalSetNumbers
  <2>3. CASE wal_set'.wals[n] = sizes[n] /\ wal_set'.min_wal_number_to_keep <= n
    <3>1. track_and_verify_wals_in_manifest /\ n <= logfile_number
      BY <1>5, <2>3, Zenon
    <3>2. min_log_number_to_keep <= n
      BY <1>4, <1>b, <2>1, <2>3, <3>1, Numbers
    <3>3. n \in linked /\ sizes[n] <= synced[n]
      BY <1>5, <2>3, <3>2, Zenon
    <3> QED
      BY <1>b, <2>1, <2>3, <3>1, <3>3, Numbers
  <2> QED
    BY <1>5, <1>b, <2>2, <2>3, EditEffect
<1> QED
  BY <1>2, <1>3, <1>4, <1>5, <1>a, Zenon DEF WalSetOK

(* A step that applies no edit keeps the WalSet acceptable.                *)
LEMMA WalSetKept ==
    ASSUME TypeOK, TypeOK', WalSetOK, Advances, UNCHANGED <<wal_set, min_log_number_to_keep>>
    PROVE  WalSetOK'
<1>a. track_and_verify_wals_in_manifest' = track_and_verify_wals_in_manifest
  BY Zenon DEF track_and_verify_wals_in_manifest, Advances
<1>1. ASSUME NEW n \in Logs, wal_set.wals[n] > 0
      PROVE  /\ track_and_verify_wals_in_manifest
             /\ n <= logfile_number' /\ n \in linked' /\ wal_set.wals[n] <= synced'[n]
  <2>1. /\ logfile_number <= logfile_number' /\ synced[n] <= synced'[n] /\ linked \subseteq linked'
    BY Zenon DEF Advances, Monotone
  <2>2. logfile_number' \in Nat /\ synced'[n] \in Nat
    BY NumbersThen, Zenon
  <2> QED
    BY <1>1, <2>1, <2>2, Numbers, WalSetNumbers DEF WalSetOK
<1> QED
  BY <1>1, <1>a, Zenon DEF WalSetOK

(* The edit of a thread stays right while others run.                      *)
LEMMA SyncedWalsKept ==
    ASSUME TypeOK, TypeOK', Advances, NEW p \in Threads, SyncedWalsOK(p),
           local'[p].synced_wals \in {NoSizes, local[p].synced_wals}
    PROVE  SyncedWalsOK(p)'
<1>a. track_and_verify_wals_in_manifest' = track_and_verify_wals_in_manifest
  BY Zenon DEF track_and_verify_wals_in_manifest, Advances
<1> SUFFICES ASSUME NEW n \in Logs, local'[p].synced_wals[n] > 0
             PROVE  /\ track_and_verify_wals_in_manifest
                    /\ n <= logfile_number'
                    /\ min_log_number_to_keep' <= n
                          => n \in linked' /\ local'[p].synced_wals[n] <= synced'[n]
  BY <1>a, Zenon DEF SyncedWalsOK
<1>1. local'[p].synced_wals = local[p].synced_wals
  BY WalSetNumbers
<1>2. /\ logfile_number <= logfile_number' /\ synced[n] <= synced'[n] /\ linked \subseteq linked'
      /\ min_log_number_to_keep <= min_log_number_to_keep'
  BY Zenon DEF Advances, Monotone
<1>3. logfile_number' \in Nat /\ min_log_number_to_keep' \in Nat /\ synced'[n] \in Nat
  BY NumbersThen, Zenon
<1>4. track_and_verify_wals_in_manifest /\ n <= logfile_number
  BY <1>1, Zenon DEF SyncedWalsOK
<1>5. n <= logfile_number'
  BY <1>2, <1>3, <1>4, Numbers
<1>6. ASSUME min_log_number_to_keep' <= n PROVE n \in linked' /\ local'[p].synced_wals[n] <= synced'[n]
  <2>1. min_log_number_to_keep <= n
    BY <1>2, <1>3, <1>6, Numbers
  <2>2. n \in linked /\ local[p].synced_wals[n] <= synced[n]
    BY <1>1, <2>1, Zenon DEF SyncedWalsOK
  <2> QED
    BY <1>1, <1>2, <1>3, <2>2, Numbers, WalSetNumbers
<1> QED
  BY <1>4, <1>5, <1>6, Zenon

(* LogAndApply writes to the MANIFEST what it does to the WalSet.          *)
LEMMA ManifestStep ==
    ASSUME TypeOK, OneManifest, setup' = setup,
           \/ UNCHANGED <<wal_set, manifest, rollovers>>
           \/ \E sizes, number : LogAndApply(sizes, number)
    PROVE  OneManifest'
<1>1. CASE UNCHANGED <<wal_set, manifest, rollovers>>
  BY <1>1, Zenon DEF OneManifest
<1>2. ASSUME NEW sizes, NEW number, LogAndApply(sizes, number) PROVE OneManifest'
  <2>1. rollovers \in Nat /\ setup.rollovers \in Nat
    BY WalAssumption, Zenon DEF TypeOK
  <2>2. CASE UNCHANGED rollovers /\ manifest' = DeleteWalsBefore(AddWals(manifest, sizes), number)
    <3>1. wal_set' = DeleteWalsBefore(AddWals(wal_set, sizes), number)
      BY <1>2, Zenon DEF LogAndApply
    <3> QED
      BY <2>2, <3>1, Zenon DEF OneManifest
  <2>3. CASE rollovers < setup.rollovers /\ rollovers' = rollovers + 1
    <3>1. setup.rollovers # 0 /\ rollovers' # 0
      BY <2>1, <2>3
    <3> QED
      BY <3>1, Zenon DEF OneManifest
  <2> QED
    BY <1>2, <2>2, <2>3, Zenon DEF LogAndApply
<1> QED
  BY <1>1, <1>2, Zenon

(* MarkLogsSynced records sizes that have been synced.                     *)
LEMMA MarkTracks ==
    ASSUME TypeOK, TypeOK', Protocol, Durable, Advances, NEW p \in Threads, MarkLogsSynced(p)
    PROVE  Others(p) /\ SyncedWalsOK(p)'
<1>a. track_and_verify_wals_in_manifest' = track_and_verify_wals_in_manifest
  BY Zenon DEF track_and_verify_wals_in_manifest, Advances
<1> DEFINE inactive == {n \in UpTo(local[p].up_to) : n < logfile_number}
           sizes == [n \in Logs |-> IF track_and_verify_wals_in_manifest /\ n \in inactive
                                    THEN pre_sync_size[n] ELSE 0]
<1>1. /\ pc[p] = "mark" /\ local[p].ok
      /\ UNCHANGED <<logfile_number, min_log_number_to_keep, linked, synced>>
  BY Zenon DEF MarkLogsSynced, fileVars
<1>2. CASE Finish(p)
  <2>1. Others(p) /\ local'[p].synced_wals = NoSizes
    BY <1>2, FinishEffect, Zenon
  <2>2. \A n \in Logs : local'[p].synced_wals[n] = 0
    BY <2>1, WalSetNumbers, Zenon
  <2>3. SyncedWalsOK(p)'
    BY <2>2 DEF SyncedWalsOK
  <2> QED
    BY <2>1, <2>3, Zenon
<1>3. CASE ~Finish(p)
  <2>1. /\ local' = [local EXCEPT ![p].synced_wals = sizes, ![p].held = {}, ![p].todo = {}]
        /\ Goto(p, "apply")
    BY <1>3, Zenon DEF MarkLogsSynced
  <2> HIDE DEF sizes
  <2>2. Others(p) /\ local'[p].synced_wals = sizes
    BY <2>1, TrackEffect, Zenon DEF Others, Goto, TypeOK
  <2>3. SyncerOK(p) /\ SyncKnows(p) /\ Clean(p)
    BY <1>1, Zenon DEF Protocol, Durable, Clean
  <2>4. /\ Linked(local[p].up_to)
        /\ \A n \in UpTo(local[p].up_to) : pre_sync_size[n] <= synced[n]
    BY <1>1, <2>3, Zenon DEF SyncKnows, SyncerOK, InSync
  <2>5. ASSUME NEW n \in Logs, sizes[n] > 0
        PROVE  /\ track_and_verify_wals_in_manifest /\ n <= logfile_number
               /\ min_log_number_to_keep <= n => n \in linked /\ sizes[n] <= synced[n]
    <3>1. /\ track_and_verify_wals_in_manifest /\ n \in UpTo(local[p].up_to) /\ n < logfile_number
          /\ sizes[n] = pre_sync_size[n]
      BY <2>5 DEF sizes
    <3>2. n <= logfile_number /\ n <= local[p].up_to
      BY <3>1, Numbers DEF UpTo
    <3> QED
      BY <2>4, <3>1, <3>2, Zenon DEF Linked, Needed
  <2> QED
    BY <1>1, <1>a, <2>2, <2>5, Zenon DEF SyncedWalsOK
<1> QED
  BY <1>2, <1>3, Zenon

(* Every step keeps the edits of all threads right.                        *)
LEMMA StepSyncedWals ==
    ASSUME TypeOK, Places, FlushJob, Kept, Protocol, Durable, [Next]_vars, TypeOK', Advances,
           \A q \in Threads : SyncedWalsOK(q)
    PROVE  \A q \in Threads : SyncedWalsOK(q)'
<1>a. /\ local \in [Threads -> Locals] /\ pc \in [Threads -> Labels]
      /\ Writer \in Threads /\ Flusher \in Threads /\ Purgers \subseteq Threads
      /\ NoLocal.synced_wals = NoSizes
  BY Zenon DEF TypeOK, Threads, NoLocal
<1>b. ASSUME NEW p \in Threads, \A q \in Threads \ {p} : local'[q] = local[q],
             local'[p].synced_wals \in {NoSizes, local[p].synced_wals}
      PROVE  \A q \in Threads : SyncedWalsOK(q)'
  BY <1>b, SyncedWalsKept, Zenon
<1>1. CASE \/ \E p \in setup.syncers : SyncWAL(p)
           \/ SyncClosedLogs
           \/ \E C \in setup.sync_batches : WriteSync(C)
           \/ \E p \in Threads : PrepareForSync(p)
  <2>1. PICK p \in Threads \ Purgers, l \in Locals : StartsSync(p, l) /\ WaitOrPrepare(p, l)
    BY <1>1, PrepareCases, Zenon
  <2>2. Others(p) /\ local'[p].synced_wals = l.synced_wals
    BY <2>1, PrepareEffect, Zenon
  <2>3. l.synced_wals \in {NoSizes, local[p].synced_wals}
    BY <1>a, <2>1, Zenon DEF StartsSync, NoLocal, Locals
  <2> QED
    BY <1>b, <2>2, <2>3, Zenon DEF Others
<1>2. CASE UNCHANGED local
  BY <1>2, <1>a, <1>b, Zenon
<1>3. ASSUME NEW p \in Threads, SyncLog(p) PROVE \A q \in Threads : SyncedWalsOK(q)'
  <2>1. \E S : local' = [local EXCEPT ![p].todo = @ \ S]
    BY <1>3, Zenon DEF SyncLog
  <2> QED
    BY <1>b, <2>1, SyncLogEffect
<1>4. ASSUME NEW p \in Threads, local' = [local EXCEPT ![p].ok = FALSE]
      PROVE  \A q \in Threads : SyncedWalsOK(q)'
  BY <1>4, <1>b, FailEffect, Zenon
<1>5. ASSUME NEW p \in Threads, MarkLogsSynced(p) PROVE \A q \in Threads : SyncedWalsOK(q)'
  BY <1>5, MarkTracks, SyncedWalsKept, Zenon DEF Others
<1>6. ASSUME NEW p \in Threads, Finish(p) PROVE \A q \in Threads : SyncedWalsOK(q)'
  BY <1>6, <1>b, FinishEffect, Zenon DEF Others
<1>7. CASE WriteToWAL
  <2>1. local'[Writer].synced_wals = local[Writer].synced_wals
        /\ \A q \in Threads \ {Writer} : local'[q] = local[q]
    BY <1>7, <1>a, Zenon DEF WriteToWAL, Locals
  <2> QED
    BY <1>a, <1>b, <2>1, Zenon
<1>8. ASSUME NEW c \in Families, SwitchMemtable(c) PROVE \A q \in Threads : SyncedWalsOK(q)'
  <2>1. CASE ~UNCHANGED local
    <3>0. PICK k, D : local' = [local EXCEPT ![Writer] =
                                  [NoLocal EXCEPT !.cfs = {c}, !.min_log = k, !.deletes = D]]
      BY <1>8, <2>1, Zenon DEF SwitchMemtable
    <3> DEFINE m == [NoLocal EXCEPT !.cfs = {c}, !.min_log = k, !.deletes = D]
    <3>1. local' = [local EXCEPT ![Writer] = m] /\ m.synced_wals = NoSizes
      BY <3>0, Zenon DEF NoLocal
    <3> HIDE DEF m
    <3>2. local'[Writer].synced_wals = NoSizes /\ \A q \in Threads \ {Writer} : local'[q] = local[q]
      BY <1>a, <3>1, Zenon
    <3> QED
      BY <1>a, <1>b, <3>2, Zenon
  <2> QED
    BY <1>2, <2>1, Zenon
<1>9. ASSUME NEW p \in Threads, Forget(p) PROVE \A q \in Threads : SyncedWalsOK(q)'
  BY <1>9, <1>a, <1>b, Zenon DEF Forget
<1>10. ASSUME NEW c \in Families, FlushBegin(c) \/ FlushPick(c) \/ FlushCompute(c)
       PROVE  \A q \in Threads : SyncedWalsOK(q)'
  <2>1. \A q \in Threads \ {Flusher} : local'[q] = local[q]
    BY <1>10, <1>a, Zenon DEF FlushBegin, FlushPick, FlushCompute
  <2>2. local'[Flusher].synced_wals \in {NoSizes, local[Flusher].synced_wals}
    <3>1. CASE FlushBegin(c)
      BY <3>1, <1>a, Zenon DEF FlushBegin, NoLocal
    <3>2. CASE FlushPick(c)
      BY <3>2, <1>a DEF FlushPick, Locals
    <3>3. CASE FlushCompute(c)
      BY <3>3, <1>a DEF FlushCompute, Locals
    <3> QED
      BY <1>10, <3>1, <3>2, <3>3, Zenon
  <2> QED
    BY <1>a, <1>b, <2>1, <2>2, Zenon
<1>11. ASSUME NEW p \in Purgers, FindObsoleteFiles(p) \/ PopLogs(p) \/ DeleteFile(p)
       PROVE  \A q \in Threads : SyncedWalsOK(q)'
  <2>1. \A q \in Threads \ {p} : local'[q] = local[q]
    BY <1>11, <1>a, Zenon DEF FindObsoleteFiles, PopLogs, DeleteFile, Forget
  <2>2. CASE FindObsoleteFiles(p)
    <3>1. local'[p].synced_wals = NoSizes
      BY <2>2, <1>a, Zenon DEF FindObsoleteFiles, NoLocal
    <3> QED
      BY <1>a, <1>b, <2>1, <3>1, Zenon
  <2>3. CASE PopLogs(p)
    BY <2>3, <1>a, <1>2, <1>9, Zenon DEF PopLogs
  <2>4. CASE DeleteFile(p)
    <3>1. local'[p].synced_wals \in {NoSizes, local[p].synced_wals}
      BY <2>4, <1>a DEF DeleteFile, Forget, Locals
    <3> QED
      BY <1>a, <1>b, <2>1, <3>1, Zenon
  <2> QED
    BY <1>11, <2>2, <2>3, <2>4, Zenon
<1>12. CASE Calls
  <2>1. CASE SwitchFails \/ (\E p \in setup.syncers : FlushWAL(p)) \/ (\E C \in setup.batches : Write(C))
             \/ \E c \in Families : SwitchKeepsLog(c)
    <3>1. UNCHANGED local
      BY <2>1, Zenon DEF SwitchFails, FlushWAL, Write, SwitchKeepsLog
    <3> QED
      BY <1>2, <3>1, Zenon
  <2> QED
    BY <1>12, <1>1, <1>8, <1>10, <1>11, <2>1, Zenon DEF Calls
<1>13. ASSUME NEW p \in Threads, Syncing(p) PROVE \A q \in Threads : SyncedWalsOK(q)'
  <2>1. CASE SyncDir(p)
    BY <2>1, <1>2, Zenon DEF SyncDir
  <2>2. CASE SyncFails(p)
    BY <2>2, <1>4, Zenon DEF SyncFails
  <2>3. CASE MarkLogsNotSynced(p) \/ ApplyWALToManifest(p)
    BY <2>3, <1>6, Zenon DEF MarkLogsNotSynced, ApplyWALToManifest
  <2> QED
    BY <1>13, <1>1, <1>3, <1>5, <2>1, <2>2, <2>3, Zenon DEF Syncing
<1>14. CASE WriterStep
  <2>1. CASE WriteToWALFails
    BY <2>1, <1>a, <1>4, Zenon DEF WriteToWALFails
  <2>2. CASE SwitchDeletesWals
    BY <2>2, <1>a, <1>9, Zenon DEF SwitchDeletesWals
  <2> QED
    BY <1>14, <1>7, <2>1, <2>2, Zenon DEF WriterStep
<1>15. CASE FlushStep
  <2>1. CASE FlushFails \/ \E c \in Families : FlushInstall(c)
    BY <2>1, <1>a, <1>9, Zenon DEF FlushFails, FlushInstall
  <2> QED
    BY <1>15, <1>1, <1>10, <2>1, Zenon DEF FlushStep
<1>16. CASE UNCHANGED vars
  BY <1>16, <1>2, Zenon DEF vars
<1> QED
  BY <1>11, <1>12, <1>13, <1>14, <1>15, <1>16, Zenon DEF Next, PurgeStep

(* Every step keeps FlushDeletes: the WalSet's minimum never goes back.    *)
LEMMA StepFlushDeletes ==
    ASSUME LeastExists, TypeOK, Places, FlushJob, Kept, [Next]_vars, TypeOK', FlushDeletes,
           wal_set.min_wal_number_to_keep <= wal_set'.min_wal_number_to_keep
    PROVE  FlushDeletes'
<1>a. /\ local \in [Threads -> Locals] /\ pc \in [Threads -> Labels] /\ Flusher \in Threads
      /\ Flusher # Writer
  BY WalAssumption, Zenon DEF TypeOK, Threads
<1>b. /\ local[Flusher].min_log \in Nat /\ wal_set.min_wal_number_to_keep \in Nat
      /\ wal_set'.min_wal_number_to_keep \in Nat
  BY <1>a, WalSetNumbers, NumbersThen, Zenon
<1>1. CASE ~FlusherStep
  <2>1. pc'[Flusher] = pc[Flusher] /\ local'[Flusher] = local[Flusher]
    BY <1>1, OthersRest, Zenon DEF FlusherRests
  <2> QED
    BY <1>b, <2>1 DEF FlushDeletes
<1>2. CASE pc'[Flusher] # "install"
  BY <1>2, Zenon DEF FlushDeletes
<1>3. ASSUME NEW c \in Families, FlushCompute(c) PROVE FlushDeletes'
  <2> DEFINE k == PrecomputeMinLogNumberToKeepNon2PC(c)
             S == {NextLog(c)} \cup {cf[d].log : d \in Families \ {c}}
  <2>1. /\ local'[Flusher].min_log = k /\ wal_set' = wal_set
        /\ local'[Flusher].ok = (k > wal_set.min_wal_number_to_keep)
    BY <1>3, <1>a, Zenon DEF FlushCompute, Locals, versionVars
  <2>2. k \in Nat
    <3>1. NextLog(c) \in Logs
      BY <1>3, NextLogType, Zenon DEF FlushCompute
    <3>2. S \subseteq Nat
      BY <3>1 DEF TypeOK, ColumnFamilies, Logs
    <3> QED
      BY <3>2, Zenon DEF PrecomputeMinLogNumberToKeepNon2PC, LeastExists
  <2> HIDE DEF k
  <2>3. ~local'[Flusher].ok => ~(k > wal_set.min_wal_number_to_keep)
    BY <2>1, Zenon
  <2>4. ~local'[Flusher].ok => k <= wal_set.min_wal_number_to_keep
    BY <1>b, <2>2, <2>3
  <2> QED
    BY <2>1, <2>4, Zenon DEF FlushDeletes
<1>4. CASE SyncClosedLogs \/ PrepareForSync(Flusher)
  <2>1. pc'[Flusher] # "install"
    BY <1>4, <1>a, Zenon DEF SyncClosedLogs, PrepareForSync, WaitOrPrepare, PrepareLogs, Goto
  <2> QED
    BY <1>2, <2>1, Zenon
<1>5. CASE SyncLog(Flusher) \/ SyncDir(Flusher) \/ SyncFails(Flusher)
  <2>1. pc'[Flusher] # "install"
    BY <1>5, <1>a, Zenon DEF SyncLog, SyncDir, SyncFails, Goto
  <2> QED
    BY <1>2, <2>1
<1>6. CASE MarkLogsSynced(Flusher) \/ MarkLogsNotSynced(Flusher) \/ ApplyWALToManifest(Flusher)
  <2>1. CASE Finish(Flusher)
    BY <1>2, <1>a, <2>1, FinishEffect, Zenon
  <2>2. CASE ~Finish(Flusher)
    <3>1. Goto(Flusher, "apply")
      BY <1>6, <2>2, Zenon DEF MarkLogsSynced, MarkLogsNotSynced, ApplyWALToManifest
    <3> QED
      BY <1>2, <1>a, <3>1, Zenon DEF Goto
  <2> QED
    BY <2>1, <2>2, Zenon
<1>7. ASSUME NEW c \in Families, FlushFails \/ FlushBegin(c) \/ FlushPick(c) \/ FlushInstall(c)
      PROVE FlushDeletes'
  <2>1. pc'[Flusher] # "install"
    BY <1>7, <1>a, Zenon DEF FlushFails, FlushBegin, FlushPick, FlushInstall, Goto
  <2> QED
    BY <1>2, <2>1, Zenon
<1>8. CASE FlushFails
  BY <1>8, <1>2, <1>a, Zenon DEF FlushFails, Goto
<1> QED
  BY <1>1, <1>3, <1>4, <1>5, <1>6, <1>7, <1>8 DEF FlusherStep, Syncing

(* Every step keeps the fifth layer.                                       *)
LEMMA StepTracked ==
    /\ LeastExists /\ TypeOK /\ Places /\ FlushJob /\ Kept /\ Protocol /\ Durable /\ Tracked /\ [Next]_vars
    /\ TypeOK'
    => Tracked'
<1> SUFFICES ASSUME LeastExists, TypeOK, Places, FlushJob, Kept, Protocol, Durable, Tracked, [Next]_vars, TypeOK'
             PROVE  Tracked'
  BY Zenon
<1>a. Advances
  BY StepAdvances, Zenon
<1>b. WalSetOK /\ FlushDeletes /\ OneManifest /\ (\A p \in Threads : SyncedWalsOK(p))
  BY Zenon DEF Tracked
<1>c. \A p \in Threads : SyncedWalsOK(p)'
  BY <1>a, <1>b, StepSyncedWals, Zenon
<1>d. ASSUME WalSetOK', OneManifest', wal_set.min_wal_number_to_keep <= wal_set'.min_wal_number_to_keep
      PROVE  Tracked'
  BY <1>b, <1>c, <1>d, StepFlushDeletes, Zenon DEF Tracked
<1>e. /\ Writer \in Threads /\ Flusher \in Threads
      /\ NoSizes \in Sizes /\ \A n \in Logs : NoSizes[n] = 0
      /\ wal_set.min_wal_number_to_keep \in Nat /\ min_log_number_to_keep \in Nat
  BY WalSetNumbers, Numbers, Zenon DEF Threads
<1>f. ASSUME NEW sizes, NEW number, LogAndApply(sizes, number) PROVE OneManifest'
  BY <1>a, <1>b, <1>f, ManifestStep, Zenon DEF Advances
<1>1. CASE UNCHANGED <<wal_set, manifest, rollovers, min_log_number_to_keep>>
  BY <1>1, <1>a, <1>b, <1>d, <1>e, WalSetKept, ManifestStep DEF Advances
<1>2. ASSUME NEW p \in Threads, ApplyWALToManifest(p) PROVE Tracked'
  <2>1. LogAndApply(local[p].synced_wals, 0) /\ min_log_number_to_keep' = min_log_number_to_keep
    BY <1>2, Zenon DEF ApplyWALToManifest
  <2>2. local[p].synced_wals \in Sizes
    BY WalSetNumbers, Zenon
  <2>3. track_and_verify_wals_in_manifest =>
           min_log_number_to_keep' <= Larger(wal_set.min_wal_number_to_keep, 0)
    BY <1>b, <1>e, <2>1 DEF WalSetOK, Larger
  <2>4. WalSetOK' /\ wal_set.min_wal_number_to_keep <= wal_set'.min_wal_number_to_keep
    BY <1>a, <1>b, <2>1, <2>2, <2>3, EditWalSet, Zenon DEF SyncedWalsOK
  <2> QED
    BY <1>d, <1>f, <2>1, <2>4, Zenon
<1>3. CASE SwitchDeletesWals
  <2>1. /\ LogAndApply(NoSizes, local[Writer].min_log)
        /\ min_log_number_to_keep' = min_log_number_to_keep
    BY <1>3, Zenon DEF SwitchDeletesWals
  <2>2. local[Writer].min_log \in Nat
    BY <1>e, WalSetNumbers, Zenon
  <2>3. track_and_verify_wals_in_manifest =>
           min_log_number_to_keep' <= Larger(wal_set.min_wal_number_to_keep, local[Writer].min_log)
    BY <1>b, <1>e, <2>1, <2>2 DEF WalSetOK, Larger
  <2>4. WalSetOK' /\ wal_set.min_wal_number_to_keep <= wal_set'.min_wal_number_to_keep
    BY <1>a, <1>b, <1>e, <2>1, <2>2, <2>3, EditWalSet
  <2> QED
    BY <1>d, <1>f, <2>1, <2>4, Zenon
<1>4. ASSUME NEW c \in Families, FlushInstall(c) PROVE Tracked'
  <2> DEFINE n == local[Flusher].min_log
             number == IF track_and_verify_wals_in_manifest /\ local[Flusher].ok THEN n ELSE 0
  <2>1. /\ LogAndApply(NoSizes, number) /\ pc[Flusher] = "install"
        /\ min_log_number_to_keep' = Larger(min_log_number_to_keep, n)
    BY <1>4, Zenon DEF FlushInstall
  <2>2. n \in Nat /\ number \in Nat
    BY <1>e, WalSetNumbers, Zenon
  <2>3. ASSUME track_and_verify_wals_in_manifest
        PROVE  min_log_number_to_keep' <= Larger(wal_set.min_wal_number_to_keep, number)
    <3>1. min_log_number_to_keep <= wal_set.min_wal_number_to_keep
      BY <1>b, <2>3, Zenon DEF WalSetOK
    <3>2. CASE local[Flusher].ok
      <4>1. number = n
        BY <2>3, <3>2, Zenon
      <4> HIDE DEF number, n
      <4> QED
        BY <1>e, <2>1, <2>2, <3>1, <4>1 DEF Larger
    <3>3. CASE ~local[Flusher].ok
      <4>1. number = 0 /\ n <= wal_set.min_wal_number_to_keep
        BY <1>b, <2>1, <3>3, Zenon DEF FlushDeletes
      <4> HIDE DEF number, n
      <4> QED
        BY <1>e, <2>1, <2>2, <3>1, <4>1 DEF Larger
    <3> QED
      BY <3>2, <3>3, Zenon
  <2> HIDE DEF number, n
  <2>4. WalSetOK' /\ wal_set.min_wal_number_to_keep <= wal_set'.min_wal_number_to_keep
    BY <1>a, <1>b, <1>e, <2>1, <2>2, <2>3, EditWalSet
  <2> QED
    BY <1>d, <1>f, <2>1, <2>4, Zenon
<1>5. ASSUME ~UNCHANGED <<wal_set, manifest, rollovers, min_log_number_to_keep>>
      PROVE  \/ \E p \in Threads : ApplyWALToManifest(p)
             \/ SwitchDeletesWals
             \/ \E c \in Families : FlushInstall(c)
  <2>1. ~Calls
    BY <1>5, Zenon DEF Calls, SyncWAL, FlushWAL, Write, WriteSync, WaitOrPrepare, SwitchKeepsLog, SwitchMemtable,
       FlushBegin, SwitchFails, FindObsoleteFiles, versionVars
  <2>2. ASSUME NEW p \in Threads, Syncing(p) PROVE ApplyWALToManifest(p)
    BY <1>5, <2>2, Zenon DEF Syncing, PrepareForSync, SyncLog, SyncDir, SyncFails, MarkLogsSynced, MarkLogsNotSynced,
       versionVars
  <2>3. WriterStep => SwitchDeletesWals
    BY <1>5, Zenon DEF WriterStep, WriteToWAL, WriteToWALFails, versionVars
  <2>4. FlushStep => \E c \in Families : FlushInstall(c)
    BY <1>5, Zenon DEF FlushStep, SyncClosedLogs, WaitOrPrepare, FlushFails, FlushPick, FlushCompute, versionVars
  <2>5. ~\E p \in Purgers : PurgeStep(p)
    BY <1>5, Zenon DEF PurgeStep, PopLogs, DeleteFile, versionVars
  <2>6. ~UNCHANGED vars
    BY <1>5, Zenon DEF vars, versionVars
  <2> QED
    BY <2>1, <2>2, <2>3, <2>4, <2>5, <2>6, Zenon DEF Next
<1> QED
  BY <1>1, <1>2, <1>3, <1>4, <1>5, Zenon

(* The fifth layer gives CheckWalsSucceeds while the MANIFEST is not       *)
(* replaced.                                                               *)
LEMMA TrackedSuffices ==
    TypeOK /\ Kept /\ Tracked => (setup.rollovers = 0 => CheckWalsSucceeds)
<1> SUFFICES ASSUME TypeOK, Kept, Tracked, setup.rollovers = 0, NEW n \in Logs, manifest.wals[n] > 0
             PROVE  n \in linked \cap files /\ manifest.wals[n] <= synced[n]
  BY Zenon DEF CheckWalsSucceeds
<1>1. manifest = wal_set
  BY Zenon DEF Tracked, OneManifest
<1>2. /\ track_and_verify_wals_in_manifest /\ n <= logfile_number /\ n \in linked
      /\ manifest.wals[n] <= synced[n]
  BY <1>1, Zenon DEF Tracked, WalSetOK
<1>3. min_log_number_to_keep <= n
  <2>1. min_log_number_to_keep <= wal_set.min_wal_number_to_keep
        /\ ~(n < wal_set.min_wal_number_to_keep)
    BY <1>1, <1>2 DEF Tracked, WalSetOK
  <2> QED
    BY <2>1, Numbers, WalSetNumbers
<1> QED
  BY <1>2, <1>3, Zenon DEF Kept, Needed
=============================================================================
