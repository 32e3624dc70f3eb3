--------------------------- MODULE WalFilesProofs ---------------------------
(***************************************************************************)
(* The types and the first layer of the invariants of WalFiles: no log that *)
(* recovery needs is deleted.                                              *)
(***************************************************************************)
EXTENDS WalSyncProofs

(* The recovered database has its types.                                   *)
LEMMA InitType == Init => TypeOK /\ Places
<1> SUFFICES ASSUME Init PROVE TypeOK /\ Places
  BY Zenon
<1>1. 1 \in Logs
  BY WalAssumption DEF Logs
<1>2. NoSizes \in Sizes
  BY Zenon DEF NoSizes, Sizes
<1>3. RecoveredWalSet \in WalSets
  BY <1>2, Zenon DEF RecoveredWalSet, WalSets
<1>4. NoLocal \in Locals
  BY <1>2, Zenon DEF NoLocal, Locals
<1>5. cf \in [Families -> ColumnFamilies]
  BY <1>1 DEF Init, ColumnFamilies
<1>6. pc \in [Threads -> Labels] /\ Places
  BY WalAssumption, Zenon DEF Init, Labels, Places, Threads
<1> QED
  BY <1>1, <1>2, <1>3, <1>4, <1>5, <1>6, Zenon DEF Init, TypeOK

(* LogAndApply keeps the types of the WalSet and of the MANIFEST.          *)
LEMMA LogAndApplyType ==
    ASSUME TypeOK, NEW sizes \in Sizes, NEW number \in Nat,
           LogAndApply(sizes, number)
    PROVE  wal_set' \in WalSets /\ manifest' \in WalSets /\ rollovers' \in Nat
<1>1. \A set \in WalSets, k \in Nat : DeleteWalsBefore(set, k) \in WalSets
  BY Zenon DEF DeleteWalsBefore, WalSets, Sizes
<1>2. \A set \in WalSets : AddWals(set, sizes) \in WalSets
  BY Zenon DEF AddWals, WalSets, Sizes, Larger
<1>3. [wal_set EXCEPT !.min_wal_number_to_keep = 0] \in WalSets
  BY Zenon DEF TypeOK, WalSets
<1> QED
  BY <1>1, <1>2, <1>3 DEF TypeOK, LogAndApply

(* PrepareForSync keeps the types and puts the thread at one of its        *)
(* labels.                                                                 *)
LEMMA WaitOrPrepareType ==
    ASSUME TypeOK, Places, NEW p \in Threads \ Purgers, NEW l \in Locals,
           WaitOrPrepare(p, l)
    PROVE  TypeOK' /\ Places'
<1>1. UpTo(l.up_to) \subseteq Logs
  BY Zenon DEF UpTo, TypeOK
<1>2. getting_synced' \in [Logs -> BOOLEAN] /\ pre_sync_size' \in Sizes
  BY Zenon DEF WaitOrPrepare, PrepareLogs, TypeOK, Sizes
<1>3. local' \in [Threads -> Locals]
  <2>1. [l EXCEPT !.held = UpTo(l.up_to), !.todo = UpTo(l.up_to),
                  !.need_dir = p = Flusher \/ ~log_dir_synced] \in Locals
    BY <1>1, Zenon DEF Locals
  <2> QED
    BY <2>1, Zenon DEF WaitOrPrepare, PrepareLogs, TypeOK
<1>4. pc' \in [Threads -> Labels] /\ Places'
  BY WalAssumption DEF WaitOrPrepare, PrepareLogs, Goto, TypeOK, Labels, Places, Threads
<1>5. UNCHANGED <<setup, logfile_number, log_empty, log_dir_synced, logs,
                  alive_log_files, fileVars, versionVars, bg_error, errors,
                  acked, installed>>
  BY Zenon DEF WaitOrPrepare, fixedVars
<1> QED
  BY <1>2, <1>3, <1>4, <1>5, Zenon DEF TypeOK, fileVars, versionVars, Families

(* The locals of one thread change: the types of the others and of the     *)
(* record are those of its fields.                                         *)
LEMMA LocalFields ==
    ASSUME NEW l \in Locals
    PROVE  /\ \A S \in SUBSET Logs : [l EXCEPT !.todo = S] \in Locals
           /\ \A S \in SUBSET (CFs \cup Logs) : [l EXCEPT !.deletes = S] \in Locals
           /\ \A b \in BOOLEAN : [l EXCEPT !.ok = b] \in Locals
           /\ \A z \in Sizes : [l EXCEPT !.promise = z] \in Locals
           /\ \A z \in Sizes : [l EXCEPT !.synced_wals = z, !.held = {}, !.todo = {}] \in Locals
           /\ \A n \in Nat : [l EXCEPT !.count = n] \in Locals
           /\ \A n \in Nat, b \in BOOLEAN : [l EXCEPT !.min_log = n, !.ok = b] \in Locals
<1>1. \A S \in SUBSET Logs : [l EXCEPT !.todo = S] \in Locals
  BY Zenon DEF Locals
<1>2. \A S \in SUBSET (CFs \cup Logs) : [l EXCEPT !.deletes = S] \in Locals
  BY Zenon DEF Locals
<1>3. \A b \in BOOLEAN : [l EXCEPT !.ok = b] \in Locals
  BY Zenon DEF Locals
<1>4. \A z \in Sizes : [l EXCEPT !.promise = z] \in Locals
  BY Zenon DEF Locals
<1>5. \A z \in Sizes : [l EXCEPT !.synced_wals = z, !.held = {}, !.todo = {}] \in Locals
  BY Zenon DEF Locals
<1>6. \A n \in Nat : [l EXCEPT !.count = n] \in Locals
  BY Zenon DEF Locals
<1>7. \A n \in Nat, b \in BOOLEAN : [l EXCEPT !.min_log = n, !.ok = b] \in Locals
  BY Zenon DEF Locals
<1> QED
  BY <1>1, <1>2, <1>3, <1>4, <1>5, <1>6, <1>7, Zenon

(* The return of a sync keeps the types.                                   *)
LEMMA FinishType ==
    ASSUME TypeOK, Places, NEW p \in Threads \ Purgers, Finish(p)
    PROVE  /\ local' \in [Threads -> Locals]
           /\ pc' \in [Threads -> Labels] /\ Places'
           /\ acked' \in Sizes /\ setup' = setup /\ installed' = installed
<1>1. NoSizes \in Sizes /\ NoLocal \in Locals
  BY Zenon DEF NoSizes, Sizes, NoLocal, Locals
<1>2. local' \in [Threads -> Locals]
  BY <1>1, Zenon DEF Finish, TypeOK, Locals
<1>3. pc' \in [Threads -> Labels] /\ Places'
  BY WalAssumption, Zenon DEF Finish, Goto, TypeOK, Labels, Places, Threads
<1>4. acked' \in Sizes
  BY Zenon DEF Finish, TypeOK, Sizes, Larger, Locals
<1> QED
  BY <1>2, <1>3, <1>4, Zenon DEF Finish

(* AddRecord keeps the types of the log.                                   *)
LEMMA AddRecordType ==
    ASSUME TypeOK, AddRecord
    PROVE  flushed' \in Sizes /\ buffered' \in Nat /\ log_empty' \in BOOLEAN
<1>1. log_empty' \in BOOLEAN
  BY Zenon DEF AddRecord
<1>2. flushed' \in Sizes
  BY DEF AddRecord, TypeOK, Sizes
<1>3. buffered' \in Nat
  BY DEF AddRecord, TypeOK
<1> QED
  BY <1>1, <1>2, <1>3, Zenon

(* A write keeps the types of the column families.                         *)
LEMMA InsertType ==
    ASSUME TypeOK, NEW C, InsertInto(C)
    PROVE  cf' \in [Families -> ColumnFamilies]
BY Zenon DEF TypeOK, InsertInto, ColumnFamilies

(* A sealed memtable has its type.                                         *)
LEMMA SealType ==
    ASSUME TypeOK, NEW c, NEW next \in Logs, NEW advance, Seal(c, next, advance)
    PROVE  cf' \in [Families -> ColumnFamilies]
<1> SUFFICES ASSUME NEW d \in Families PROVE cf'[d] \in ColumnFamilies
  BY Zenon DEF Seal
<1>1. CASE d = c
  <2>1. cf[c].imm \in Seq(Memtables) /\ cf[c].mem \in SUBSET Logs
    BY <1>1, Zenon DEF TypeOK, ColumnFamilies
  <2>2. Append(cf[c].imm, [next_log_number |-> next, logs |-> cf[c].mem])
          \in Seq(Memtables)
    BY <2>1 DEF Memtables
  <2> QED
    BY <1>1, <2>2, Zenon DEF Seal, TypeOK, ColumnFamilies
<1>2. CASE d # c
  BY <1>2, Zenon DEF Seal, TypeOK, ColumnFamilies
<1> QED
  BY <1>1, <1>2, Zenon

(* Every step keeps the types, and leaves each thread at one of its        *)
(* labels.                                                                 *)
LEMMA StepType == LeastExists /\ TypeOK /\ Places /\ FlushJob /\ [Next]_vars => TypeOK' /\ Places'
<1> SUFFICES ASSUME LeastExists, TypeOK, Places, FlushJob, [Next]_vars PROVE TypeOK' /\ Places'
  BY Zenon
<1>a. NoSizes \in Sizes /\ NoLocal \in Locals
  BY Zenon DEF NoSizes, Sizes, NoLocal, Locals
<1>b. setup \in Setups /\ Writer \in Threads /\ Flusher \in Threads
      /\ Syncers \subseteq Threads /\ Purgers \subseteq Threads
  BY Zenon DEF TypeOK, Threads
<1>1. CASE \/ \E p \in setup.syncers : SyncWAL(p)
           \/ SyncClosedLogs
           \/ \E C \in setup.sync_batches : WriteSync(C)
           \/ \E p \in Threads : PrepareForSync(p)
  BY <1>1, PrepareCases, WaitOrPrepareType, Zenon
<1>2. ASSUME NEW p \in setup.syncers, FlushWAL(p) PROVE TypeOK' /\ Places'
  <2>1. flushed' \in Sizes /\ buffered' \in Nat
    BY <1>2 DEF FlushWAL, TypeOK, Sizes
  <2>2. errors' \in Nat /\ bg_error' \in BOOLEAN
    <3>1. \/ errors' = errors /\ bg_error' = bg_error
          \/ errors' = errors + 1 /\ bg_error' = TRUE
      BY <1>2, Zenon DEF FlushWAL, Error
    <3>2. errors' \in Nat
      BY <3>1 DEF TypeOK
    <3>3. bg_error' \in BOOLEAN
      BY <3>1, Zenon DEF TypeOK
    <3> QED
      BY <3>2, <3>3, Zenon
  <2> QED
    BY <1>2, <2>1, <2>2 DEF FlushWAL, TypeOK, Places, logVars, versionVars, fixedVars, Families
<1>3. ASSUME NEW C, Write(C) PROVE TypeOK' /\ Places'
  <2>1. cf' \in [Families -> ColumnFamilies]
    BY <1>3, InsertType, Zenon DEF Write
  <2>2. flushed' \in Sizes /\ buffered' \in Nat /\ log_empty' \in BOOLEAN
    BY <1>3, AddRecordType, Zenon DEF Write
  <2> QED
    BY <1>3, <2>1, <2>2, Zenon DEF Write, TypeOK, Places, fixedVars, Families
<1>4. ASSUME NEW c \in Families, SwitchKeepsLog(c) PROVE TypeOK' /\ Places'
  <2>1. cf' \in [Families -> ColumnFamilies]
    BY <1>4, SealType, Zenon DEF SwitchKeepsLog, TypeOK
  <2> QED
    BY <1>4, <2>1, Zenon DEF SwitchKeepsLog, TypeOK, Places, logVars, fileVars, fixedVars, Families
<1>5. ASSUME NEW c \in Families, SwitchMemtable(c) PROVE TypeOK' /\ Places'
  <2>1. logfile_number + 1 \in Logs
    BY <1>5, <1>b, WalAssumption DEF SwitchMemtable, TypeOK, Logs
  <2>2. cf' \in [Families -> ColumnFamilies]
    BY <1>5, <2>1, SealType, Zenon DEF SwitchMemtable, TypeOK
  <2>3. local' \in [Threads -> Locals]
    <3> DEFINE empties == {d \in Families : IsEmpty(d)}
               S == {IF d \in empties THEN logfile_number + 1 ELSE cf[d].log : d \in Families}
    <3>0. c \in CFs /\ Families \subseteq CFs /\ \A d \in Families : cf[d].log \in Logs
      BY <1>b, WalAssumption DEF TypeOK, ColumnFamilies, Families
    <3>1. S \subseteq Nat /\ S # {}
      BY <2>1, <3>0 DEF Logs
    <3>2. Least(S) \in Nat
      BY <3>1, Zenon DEF LeastExists
    <3>3. [NoLocal EXCEPT !.cfs = {c}, !.min_log = Least(S), !.deletes = empties] \in Locals
      BY <1>a, <3>0, <3>2, Zenon DEF Locals
    <3> QED
      BY <1>5, <3>3, Zenon DEF SwitchMemtable, TypeOK
  <2>4. pc' \in [Threads -> Labels] /\ Places'
    BY <1>5, WalAssumption DEF SwitchMemtable, Goto, TypeOK, Labels, Places, Threads
  <2>5. flushed' \in Sizes
    BY <1>5 DEF SwitchMemtable, TypeOK, Sizes
  <2> QED
    BY <1>5, <2>1, <2>2, <2>3, <2>4, <2>5, Zenon DEF SwitchMemtable, TypeOK, fixedVars, Families
<1>6. ASSUME NEW c \in Families, FlushBegin(c) PROVE TypeOK' /\ Places'
  <2>1. c \in CFs /\ Len(cf[c].imm) \in Nat
    BY <1>b, WalAssumption DEF TypeOK, ColumnFamilies, Families
  <2>2. [NoLocal EXCEPT !.cfs = {c}, !.count = Len(cf[c].imm)] \in Locals
    BY <1>a, <2>1, Zenon DEF Locals
  <2>3. pc' \in [Threads -> Labels] /\ Places'
    BY <1>6, WalAssumption, Zenon DEF FlushBegin, Goto, TypeOK, Labels, Places, Threads
  <2> QED
    BY <1>6, <2>2, <2>3, Zenon DEF FlushBegin, TypeOK, logVars, fileVars, versionVars, fixedVars, Families
<1>7. CASE SwitchFails
  BY <1>7 DEF SwitchFails, Error, TypeOK, Places, logVars, fileVars, versionVars, fixedVars, Families
<1>8. ASSUME NEW p \in Purgers, FindObsoleteFiles(p) PROVE TypeOK' /\ Places'
  <2>1. [NoLocal EXCEPT !.min_log = min_log_number_to_keep,
           !.deletes = {n \in alive_log_files : n < min_log_number_to_keep}] \in Locals
    BY <1>a, Zenon DEF Locals, TypeOK
  <2>2. pc' \in [Threads -> Labels] /\ Places'
    BY <1>8, WalAssumption DEF FindObsoleteFiles, Goto, TypeOK, Labels, Places, Threads
  <2> QED
    BY <1>8, <1>b, <2>1, <2>2, Zenon DEF FindObsoleteFiles, TypeOK, fileVars, versionVars, fixedVars, Families
<1>9. ASSUME NEW p \in Threads, SyncLog(p) PROVE TypeOK' /\ Places'
  <2>1. flushed' \in Sizes /\ buffered' \in Nat
    BY <1>9 DEF SyncLog, TypeOK, Sizes
  <2>2. synced' \in Sizes
    BY <1>9, <2>1, Zenon DEF SyncLog, TypeOK, Sizes
  <2>3. local' \in [Threads -> Locals]
    <3>1. local[p] \in Locals /\ local[p].todo \subseteq Logs
      BY Zenon DEF TypeOK, Locals
    <3> QED
      BY <1>9, <3>1, LocalFields, Zenon DEF SyncLog, TypeOK
  <2> QED
    BY <1>9, <2>1, <2>2, <2>3 DEF SyncLog, TypeOK, Places, logVars, versionVars, fixedVars, Families
<1>10. ASSUME NEW p \in Threads, SyncDir(p) PROVE TypeOK' /\ Places'
  <2>1. pc' \in [Threads -> Labels] /\ Places'
    BY <1>10, WalAssumption, Zenon DEF SyncDir, Goto, TypeOK, Labels, Places, Threads
  <2> QED
    BY <1>10, <2>1, Zenon DEF SyncDir, TypeOK, logVars, versionVars, fixedVars, Families
<1>11. ASSUME NEW p \in Threads, SyncFails(p) PROVE TypeOK' /\ Places'
  <2>1. pc' \in [Threads -> Labels] /\ Places'
    BY <1>11, WalAssumption, Zenon DEF SyncFails, Goto, TypeOK, Labels, Places, Threads
  <2>2. local' \in [Threads -> Locals]
    BY <1>11, LocalFields, Zenon DEF SyncFails, TypeOK
  <2>3. bg_error' \in BOOLEAN /\ errors' \in Nat
    BY <1>11 DEF SyncFails, Error, TypeOK
  <2> QED
    BY <1>11, <2>1, <2>2, <2>3, Zenon DEF SyncFails, TypeOK, logVars, fileVars, versionVars, fixedVars, Families
<1>12. ASSUME NEW p \in Threads, MarkLogsSynced(p) PROVE TypeOK' /\ Places'
  <2> DEFINE sizes == [n \in Logs |->
                 IF track_and_verify_wals_in_manifest
                     /\ n \in {m \in UpTo(local[p].up_to) : m < logfile_number}
                 THEN pre_sync_size[n] ELSE 0]
  <2>1. p \in Threads \ Purgers
    BY <1>12, Zenon DEF MarkLogsSynced, Places
  <2>2. cf' \in [Families -> ColumnFamilies]
    <3>1. CASE p = Writer
      BY <1>12, <3>1, InsertType, Zenon DEF MarkLogsSynced
    <3>2. CASE p # Writer
      BY <1>12, <3>2, Zenon DEF MarkLogsSynced, TypeOK
    <3> QED
      BY <3>1, <3>2, Zenon
  <2>3. sizes \in Sizes
    BY Zenon DEF TypeOK, Sizes
  <2>4. \/ Finish(p)
        \/ /\ local' = [local EXCEPT ![p].synced_wals = sizes,
                            ![p].held = {}, ![p].todo = {}]
           /\ Goto(p, "apply")
           /\ UNCHANGED fixedVars
    BY <1>12, Zenon DEF MarkLogsSynced
  <2>5. /\ local' \in [Threads -> Locals]
        /\ pc' \in [Threads -> Labels] /\ Places'
        /\ acked' \in Sizes /\ setup' = setup /\ installed' = installed
    <3>1. CASE Finish(p)
      BY <2>1, <3>1, FinishType, Zenon
    <3>2. CASE ~Finish(p)
      <4>1. local' \in [Threads -> Locals]
        <5>1. local[p] \in Locals /\ local \in [Threads -> Locals]
          BY Zenon DEF TypeOK
        <5>2. local' = [local EXCEPT ![p] = [local[p] EXCEPT
                          !.synced_wals = sizes, !.held = {}, !.todo = {}]]
          BY <2>4, <3>2, <5>1, Zenon
        <5>3. [local[p] EXCEPT !.synced_wals = sizes, !.held = {}, !.todo = {}] \in Locals
          BY <2>3, <5>1, LocalFields, Zenon
        <5> QED
          BY <5>1, <5>2, <5>3, Zenon
      <4>2. pc' \in [Threads -> Labels] /\ Places'
        BY <2>1, <2>4, <3>2, WalAssumption, Zenon DEF Goto, TypeOK, Labels, Places, Threads
      <4> QED
        BY <2>4, <3>2, <4>1, <4>2, Zenon DEF fixedVars, TypeOK
    <3> QED
      BY <3>1, <3>2, Zenon
  <2>6. getting_synced' \in [Logs -> BOOLEAN] /\ pre_sync_size' \in Sizes
        /\ log_dir_synced' \in BOOLEAN /\ logs' \subseteq Logs
    BY <1>12, Zenon DEF MarkLogsSynced, TypeOK, Sizes
  <2> QED
    BY <1>12, <2>2, <2>5, <2>6, Zenon DEF MarkLogsSynced, TypeOK, fileVars, Families
<1>13. ASSUME NEW p \in Threads, MarkLogsNotSynced(p) PROVE TypeOK' /\ Places'
  <2>1. p \in Threads \ Purgers
    BY <1>13, Zenon DEF MarkLogsNotSynced, Places
  <2>2. Finish(p) /\ getting_synced' \in [Logs -> BOOLEAN]
    BY <1>13, Zenon DEF MarkLogsNotSynced, TypeOK
  <2> QED
    BY <1>13, <2>1, <2>2, FinishType, Zenon DEF MarkLogsNotSynced, TypeOK, fileVars, versionVars, Families
<1>14. ASSUME NEW p \in Threads, ApplyWALToManifest(p) PROVE TypeOK' /\ Places'
  <2>1. p \in Threads \ Purgers /\ local[p].synced_wals \in Sizes /\ 0 \in Nat
    BY <1>14, Zenon DEF ApplyWALToManifest, Places, TypeOK, Locals
  <2>2. Finish(p) /\ LogAndApply(local[p].synced_wals, 0)
    BY <1>14, Zenon DEF ApplyWALToManifest
  <2>3. wal_set' \in WalSets /\ manifest' \in WalSets /\ rollovers' \in Nat
    BY <2>1, <2>2, LogAndApplyType, Zenon
  <2> QED
    BY <1>14, <2>1, <2>2, <2>3, FinishType, Zenon DEF ApplyWALToManifest, TypeOK, logVars, fileVars, Families
<1>15. CASE WriteToWAL
  <2>1. local' \in [Threads -> Locals]
    <3>1. [flushed EXCEPT ![logfile_number] = @ + buffered + 1] \in Sizes
      BY DEF TypeOK, Sizes
    <3> QED
      BY <1>15, <1>b, <3>1, LocalFields, Zenon DEF WriteToWAL, TypeOK
  <2>2. pc' \in [Threads -> Labels] /\ Places'
    BY <1>15, WalAssumption, Zenon DEF WriteToWAL, Goto, TypeOK, Labels, Places, Threads
  <2>3. flushed' \in Sizes /\ buffered' \in Nat /\ log_empty' \in BOOLEAN
    BY <1>15, AddRecordType, Zenon DEF WriteToWAL
  <2> QED
    BY <1>15, <2>1, <2>2, <2>3, Zenon DEF WriteToWAL, TypeOK, versionVars, fixedVars, Families
<1>16. CASE WriteToWALFails
  <2>1. local' \in [Threads -> Locals]
    BY <1>16, <1>b, LocalFields, Zenon DEF WriteToWALFails, TypeOK
  <2>2. pc' \in [Threads -> Labels] /\ Places'
    BY <1>16, WalAssumption, Zenon DEF WriteToWALFails, Goto, TypeOK, Labels, Places, Threads
  <2> QED
    BY <1>16, <2>1, <2>2 DEF WriteToWALFails, Error, TypeOK, logVars, fileVars, versionVars, fixedVars, Families
<1>17. CASE SwitchDeletesWals
  <2>1. wal_set' \in WalSets /\ manifest' \in WalSets /\ rollovers' \in Nat
    BY <1>17, <1>a, <1>b, LogAndApplyType, Zenon DEF SwitchDeletesWals, TypeOK, Locals
  <2>2. cf' \in [Families -> ColumnFamilies]
    BY <1>17, SealType, Zenon DEF SwitchDeletesWals, TypeOK
  <2>3. pc' \in [Threads -> Labels] /\ Places' /\ local' \in [Threads -> Locals]
    BY <1>17, <1>a, WalAssumption, Zenon DEF SwitchDeletesWals, Goto, Forget, TypeOK, Labels, Places, Threads
  <2> QED
    BY <1>17, <2>1, <2>2, <2>3 DEF SwitchDeletesWals, TypeOK, logVars, fileVars, fixedVars, Families
<1>18. CASE FlushFails
  <2>1. pc' \in [Threads -> Labels] /\ Places' /\ local' \in [Threads -> Locals]
    BY <1>18, <1>a, WalAssumption, Zenon DEF FlushFails, Goto, Forget, TypeOK, Labels, Places, Threads
  <2> QED
    BY <1>18, <2>1, Zenon DEF FlushFails, TypeOK, logVars, fileVars, versionVars, fixedVars, Families
<1>19. ASSUME NEW c \in Families, FlushPick(c) PROVE TypeOK' /\ Places'
  <2>1. Len(cf[c].imm) \in Nat
    BY DEF TypeOK, ColumnFamilies
  <2>2. local' \in [Threads -> Locals]
    <3>1. local[Flusher] \in Locals /\ local[Flusher].count \in Nat
      BY <1>b, Zenon DEF TypeOK, Locals
    <3> QED
      BY <1>19, <2>1, <3>1, LocalFields, Zenon DEF FlushPick, TypeOK
  <2>3. pc' \in [Threads -> Labels] /\ Places'
    BY <1>19, WalAssumption, Zenon DEF FlushPick, Goto, TypeOK, Labels, Places, Threads
  <2> QED
    BY <1>19, <2>2, <2>3, Zenon DEF FlushPick, TypeOK, logVars, fileVars, versionVars, fixedVars, Families
<1>20. CASE UNCHANGED vars
  BY <1>20 DEF vars, logVars, fileVars, versionVars, fixedVars, TypeOK, Places, Families
<1>21. ASSUME NEW p \in Purgers, PopLogs(p) PROVE TypeOK' /\ Places'
  <2>1. pc' \in [Threads -> Labels] /\ Places' /\ local' \in [Threads -> Locals]
    BY <1>21, <1>a, WalAssumption DEF PopLogs, Goto, Forget, TypeOK, Labels, Places, Threads
  <2>2. pre_sync_size' \in Sizes /\ logs' \subseteq Logs
    BY <1>21, Zenon DEF PopLogs, TypeOK, Sizes
  <2> QED
    BY <1>21, <2>1, <2>2, Zenon DEF PopLogs, TypeOK, fileVars, versionVars, fixedVars, Families
<1>22. ASSUME NEW p \in Purgers, DeleteFile(p) PROVE TypeOK' /\ Places'
  <2>1. pc' \in [Threads -> Labels] /\ Places'
    BY <1>22, WalAssumption DEF DeleteFile, Goto, Forget, TypeOK, Labels, Places, Threads
  <2>2. local' \in [Threads -> Locals]
    <3>1. local[p] \in Locals /\ local[p].deletes \subseteq CFs \cup Logs
      BY <1>b, Zenon DEF TypeOK, Locals
    <3> QED
      <4> DEFINE S == local[p].deletes \ {Least(local[p].deletes)}
      <4>1. [local[p] EXCEPT !.deletes = S] \in Locals
        BY <3>1, LocalFields, Zenon
      <4> HIDE DEF S
      <4>2. local' = [local EXCEPT ![p] = NoLocal]
            \/ local' = [local EXCEPT ![p] = [local[p] EXCEPT !.deletes = S]]
        BY <1>22, <1>b, Zenon DEF DeleteFile, Forget, S, TypeOK
      <4> QED
        BY <1>a, <4>1, <4>2, Zenon DEF TypeOK
  <2> QED
    BY <1>22, <2>1, <2>2, Zenon DEF DeleteFile, TypeOK, logVars, versionVars, fixedVars, Families
<1>23. ASSUME NEW c \in Families, FlushCompute(c) PROVE TypeOK' /\ Places'
  <2>1. NextLog(c) \in Nat
    BY <1>23, NextLogType DEF FlushCompute, Logs
  <2>2. {NextLog(c)} \cup {cf[d].log : d \in Families \ {c}} \subseteq Nat
    BY <2>1 DEF TypeOK, ColumnFamilies, Logs
  <2>3. PrecomputeMinLogNumberToKeepNon2PC(c) \in Nat
    BY <2>2, Zenon DEF PrecomputeMinLogNumberToKeepNon2PC, LeastExists
  <2>4. local' \in [Threads -> Locals]
    <3> DEFINE k == PrecomputeMinLogNumberToKeepNon2PC(c)
               b == k > wal_set.min_wal_number_to_keep
    <3>1. local[Flusher] \in Locals /\ local \in [Threads -> Locals] /\ b \in BOOLEAN
      BY <1>b DEF TypeOK
    <3> HIDE DEF k, b
    <3>2. local' = [local EXCEPT ![Flusher] = [local[Flusher] EXCEPT !.min_log = k, !.ok = b]]
      BY <1>23, <1>b, <3>1, Zenon DEF FlushCompute, k, b
    <3>3. [local[Flusher] EXCEPT !.min_log = k, !.ok = b] \in Locals
      BY <2>3, <3>1, LocalFields, Zenon DEF k
    <3> QED
      BY <3>1, <3>2, <3>3, Zenon
  <2>5. pc' \in [Threads -> Labels] /\ Places'
    BY <1>23, WalAssumption, Zenon DEF FlushCompute, Goto, TypeOK, Labels, Places, Threads
  <2> QED
    BY <1>23, <2>4, <2>5, Zenon DEF FlushCompute, TypeOK, logVars, fileVars, versionVars, fixedVars, Families
<1>24. ASSUME NEW c \in Families, FlushInstall(c) PROVE TypeOK' /\ Places'
  <2>1. NextLog(c) \in Logs
    BY <1>24, NextLogType, Zenon DEF FlushInstall
  <2>2. cf[c].imm \in Seq(Memtables) /\ local[Flusher].count \in 1..Len(cf[c].imm)
        /\ local[Flusher].min_log \in Nat
    BY <1>24, <1>b, Zenon DEF FlushInstall, FlushJob, TypeOK, ColumnFamilies, Locals
  <2>3. SubSeq(cf[c].imm, local[Flusher].count + 1, Len(cf[c].imm)) \in Seq(Memtables)
    BY <2>2
  <2>4. cf' \in [Families -> ColumnFamilies]
    <3>1. Larger(cf[c].log, NextLog(c)) \in Logs
      BY <2>1, Zenon DEF TypeOK, ColumnFamilies, Larger
    <3> QED
      BY <1>24, <2>3, <3>1, Zenon DEF FlushInstall, TypeOK, ColumnFamilies
  <2>5. wal_set' \in WalSets /\ manifest' \in WalSets /\ rollovers' \in Nat
    BY <1>24, <1>a, <2>2, LogAndApplyType, Zenon DEF FlushInstall
  <2>6. pc' \in [Threads -> Labels] /\ Places' /\ local' \in [Threads -> Locals]
    BY <1>24, <1>a, WalAssumption, Zenon DEF FlushInstall, Goto, Forget, TypeOK, Labels, Places, Threads
  <2>7. min_log_number_to_keep' \in Nat /\ installed' \in Nat
    BY <1>24, <2>1, <2>2 DEF FlushInstall, Larger, TypeOK, Logs
  <2> QED
    BY <1>24, <2>4, <2>5, <2>6, <2>7, Zenon DEF FlushInstall, TypeOK, logVars, fileVars, Families
<1> QED
  BY <1>1, <1>2, <1>3, <1>4, <1>5, <1>6, <1>7, <1>8, <1>9, <1>10, <1>11, <1>12,
     <1>13, <1>14, <1>15, <1>16, <1>17, <1>18, <1>19, <1>20, <1>21, <1>22, <1>23, <1>24
     DEF Next, Calls, Syncing, WriterStep, FlushStep, PurgeStep

(* A step of a thread that syncs or writes: it leaves the flush thread's   *)
(* job alone and creates, needs and deletes no log.                        *)
Quiet(p) ==
    /\ Others(p)
    /\ p = Writer => pc'[p] # "delete_wals"
    /\ p = Flusher => /\ pc[p] # "idle" /\ pc'[p] # "install"
                      /\ local'[p].cfs = local[p].cfs
                      /\ local'[p].count = local[p].count
    /\ UNCHANGED <<setup, logfile_number, files, min_log_number_to_keep>>
    /\ UNCHANGED cf \/ \E C : InsertInto(C)

(* The steps of the threads that sync or write, a memtable switch left     *)
(* out.                                                                    *)
QuietStep ==
    \/ \E p \in setup.syncers : SyncWAL(p) \/ FlushWAL(p)
    \/ \E C \in setup.batches : Write(C)
    \/ \E C \in setup.sync_batches : WriteSync(C)
    \/ \E p \in Threads : Syncing(p)
    \/ SwitchFails \/ WriteToWAL \/ WriteToWALFails \/ SyncClosedLogs

(* They are quiet.                                                         *)
LEMMA QuietSteps ==
    ASSUME TypeOK, Places, QuietStep
    PROVE  \E p \in Threads \ Purgers : Quiet(p)
<1>a. Writer \in Threads \ Purgers /\ Flusher \in Threads \ Purgers /\ Writer # Flusher
      /\ setup.syncers \subseteq Threads \ Purgers /\ Flusher \notin setup.syncers
      /\ Writer \notin setup.syncers
  BY WalAssumption, Zenon DEF Threads, TypeOK
<1>b. NoLocal.cfs = {} /\ NoLocal.count = 0
  BY Zenon DEF NoLocal
<1>1. CASE \/ \E p \in setup.syncers : SyncWAL(p)
           \/ SyncClosedLogs
           \/ \E C \in setup.sync_batches : WriteSync(C)
           \/ \E p \in Threads : PrepareForSync(p)
  <2>1. PICK p \in Threads \ Purgers, l \in Locals : StartsSync(p, l) /\ WaitOrPrepare(p, l)
    BY <1>1, PrepareCases, Zenon
  <2>2. /\ \A q \in Threads \ {p} : pc'[q] = pc[q] /\ local'[q] = local[q]
        /\ pc'[p] \in {"prepare", "append", "pick", "sync"}
        /\ local'[p].cfs = l.cfs /\ local'[p].count = l.count
    BY <2>1, PrepareEffect DEF Others
  <2>3. p = Flusher => pc[p] # "idle" /\ l.cfs = local[p].cfs /\ l.count = local[p].count
    BY <1>a, <2>1, WalAssumption, Zenon DEF StartsSync, TypeOK, Locals
  <2>4. UNCHANGED <<setup, logfile_number, files, min_log_number_to_keep, cf>>
    BY <2>1, Zenon DEF WaitOrPrepare, fixedVars, fileVars, versionVars
  <2> QED
    BY <2>2, <2>3, <2>4, Zenon DEF Quiet, Others
<1>2. ASSUME NEW p \in setup.syncers, FlushWAL(p) PROVE \E q \in Threads \ Purgers : Quiet(q)
  BY <1>2, <1>a, Zenon DEF FlushWAL, Quiet, Others, logVars, versionVars, fixedVars
<1>3. ASSUME NEW C, Write(C) PROVE \E q \in Threads \ Purgers : Quiet(q)
  <2>1. Quiet(Writer)
    BY <1>3, <1>a, Zenon DEF Write, Quiet, Others, fixedVars
  <2> QED
    BY <2>1, <1>a, Zenon
<1>4. CASE SwitchFails
  <2>1. Quiet(Writer)
    BY <1>4, <1>a, Zenon DEF SwitchFails, Quiet, Others, logVars, fileVars, versionVars, fixedVars
  <2> QED
    BY <2>1, <1>a
<1>5. CASE WriteToWAL
  <2>1. Quiet(Writer)
    BY <1>5, <1>a, Zenon DEF WriteToWAL, Quiet, Others, Goto, versionVars, fixedVars, TypeOK
  <2> QED
    BY <2>1, <1>a
<1>6. CASE WriteToWALFails
  <2>1. Quiet(Writer)
    BY <1>6, <1>a, Zenon DEF WriteToWALFails, Quiet, Others, Goto, logVars, fileVars, versionVars, fixedVars, TypeOK
  <2> QED
    BY <2>1, <1>a
<1>7. ASSUME NEW p \in Threads, SyncLog(p) \/ SyncDir(p) \/ SyncFails(p)
      PROVE \E q \in Threads \ Purgers : Quiet(q)
  <2>1. p \in Threads \ Purgers /\ pc[p] = "sync"
    BY <1>7, Zenon DEF SyncLog, SyncDir, SyncFails, Places
  <2>2. /\ \A q \in Threads \ {p} : pc'[q] = pc[q] /\ local'[q] = local[q]
        /\ pc'[p] \in {"sync", "mark"}
        /\ local'[p].cfs = local[p].cfs /\ local'[p].count = local[p].count
    <3>1. CASE SyncLog(p)
      <4>1. PICK S : local' = [local EXCEPT ![p].todo = @ \ S]
        BY <3>1, Zenon DEF SyncLog
      <4> QED
        BY <2>1, <3>1, <4>1, SyncLogEffect DEF SyncLog
    <3>2. CASE SyncDir(p)
      BY <2>1, <3>2, Zenon DEF SyncDir, Goto, TypeOK
    <3>3. CASE SyncFails(p)
      BY <2>1, <3>3, FailEffect DEF SyncFails, Goto, TypeOK
    <3> QED
      BY <1>7, <3>1, <3>2, <3>3, Zenon
  <2>3. UNCHANGED <<setup, logfile_number, files, min_log_number_to_keep, cf>>
    BY <1>7, Zenon DEF SyncLog, SyncDir, SyncFails, logVars, fileVars, versionVars, fixedVars
  <2> QED
    BY <2>1, <2>2, <2>3, Zenon DEF Quiet, Others
<1>8. ASSUME NEW p \in Threads, MarkLogsSynced(p) \/ MarkLogsNotSynced(p) \/ ApplyWALToManifest(p)
      PROVE \E q \in Threads \ Purgers : Quiet(q)
  <2>1. p \in Threads \ Purgers /\ pc[p] \in {"mark", "apply"}
    BY <1>8, Zenon DEF MarkLogsSynced, MarkLogsNotSynced, ApplyWALToManifest, Places
  <2>2. CASE Finish(p)
    <3>1. /\ \A q \in Threads \ {p} : pc'[q] = pc[q] /\ local'[q] = local[q]
          /\ pc'[p] \in {"idle", "pick", "failed"}
          /\ p = Flusher => local'[p].cfs = local[p].cfs /\ local'[p].count = local[p].count
      BY <2>2, <2>1, Zenon DEF Finish, Goto, TypeOK, Locals, NoLocal
    <3> QED
      BY <1>8, <2>1, <2>2, <3>1, Zenon DEF MarkLogsSynced, MarkLogsNotSynced, ApplyWALToManifest,
         Finish, Quiet, Others, logVars, fileVars, versionVars, fixedVars
  <2>3. CASE ~Finish(p)
    <3>1. /\ \A q \in Threads \ {p} : pc'[q] = pc[q] /\ local'[q] = local[q]
          /\ pc'[p] = "apply"
          /\ local'[p].cfs = local[p].cfs /\ local'[p].count = local[p].count
      <4>1. /\ \E sizes : local' = [local EXCEPT ![p].synced_wals = sizes, ![p].held = {}, ![p].todo = {}]
            /\ Goto(p, "apply")
        BY <1>8, <2>3, Zenon DEF MarkLogsSynced, MarkLogsNotSynced, ApplyWALToManifest
      <4> QED
        BY <4>1, TrackEffect, Zenon DEF Goto, TypeOK
    <3>2. MarkLogsSynced(p) /\ UNCHANGED fixedVars
      BY <1>8, <2>3, Zenon DEF MarkLogsSynced, MarkLogsNotSynced, ApplyWALToManifest
    <3>3. UNCHANGED <<setup, logfile_number, files, min_log_number_to_keep>>
      BY <3>2, Zenon DEF MarkLogsSynced, fileVars, fixedVars
    <3>4. UNCHANGED cf \/ InsertInto(local[p].cfs)
      BY <3>2, Zenon DEF MarkLogsSynced
    <3> QED
      BY <2>1, <3>1, <3>3, <3>4, Zenon DEF Quiet, Others
  <2> QED
    BY <2>2, <2>3, Zenon
<1> QED
  BY <1>1, <1>2, <1>3, <1>4, <1>5, <1>6, <1>7, <1>8, Zenon DEF QuietStep, Syncing

(* The memtables of a flush job stay where they are until the flush        *)
(* installs them: only memtables behind them are added.                    *)
LEMMA StepFlushJob == TypeOK /\ Places /\ FlushJob /\ [Next]_vars => FlushJob'
<1> SUFFICES ASSUME TypeOK, Places, FlushJob, [Next]_vars, pc'[Flusher] # "idle"
             PROVE  \E c \in Families' : /\ local'[Flusher].cfs = {c}
                                         /\ local'[Flusher].count \in 1..Len(cf'[c].imm)
  BY Zenon DEF FlushJob
<1>a. /\ Writer \in Threads \ Purgers /\ Flusher \in Threads \ Purgers /\ Writer # Flusher
      /\ local[Flusher] \in Locals /\ local \in [Threads -> Locals] /\ pc \in [Threads -> Labels]
  BY WalAssumption, Zenon DEF Threads, TypeOK
<1>b. \A c \in Families : cf[c].imm \in Seq(Memtables)
  BY Zenon DEF TypeOK, ColumnFamilies
<1>c. ASSUME pc[Flusher] # "idle", setup' = setup,
             local'[Flusher].cfs = local[Flusher].cfs,
             local'[Flusher].count = local[Flusher].count,
             \A c \in Families : Len(cf[c].imm) <= Len(cf'[c].imm)
      PROVE  \E c \in Families' : /\ local'[Flusher].cfs = {c}
                                  /\ local'[Flusher].count \in 1..Len(cf'[c].imm)
  <2>1. PICK c \in Families : /\ local[Flusher].cfs = {c}
                              /\ local[Flusher].count \in 1..Len(cf[c].imm)
    BY <1>c, Zenon DEF FlushJob
  <2>2. Len(cf[c].imm) \in Nat /\ Families' = Families
    BY <1>b, <1>c DEF Families
  <2> QED
    BY <1>c, <2>1, <2>2
<1>d. ASSUME NEW c, NEW next \in Logs, NEW advance, Seal(c, next, advance)
      PROVE  \A d \in Families : Len(cf[d].imm) <= Len(cf'[d].imm)
  <2> SUFFICES ASSUME NEW d \in Families PROVE Len(cf[d].imm) <= Len(cf'[d].imm)
    BY Zenon
  <2>1. [next_log_number |-> next, logs |-> cf[d].mem] \in Memtables
    BY Zenon DEF TypeOK, ColumnFamilies, Memtables
  <2>2. \/ cf'[d].imm = Append(cf[d].imm, [next_log_number |-> next, logs |-> cf[d].mem])
        \/ cf'[d].imm = cf[d].imm
    BY <1>d, SealEffect, Zenon DEF IsEmpty
  <2> QED
    BY <1>b, <2>1, <2>2
<1>1. CASE QuietStep
  <2>1. PICK p \in Threads \ Purgers : Quiet(p)
    BY <1>1, QuietSteps, Zenon
  <2>2. \A c \in Families : cf'[c].imm = cf[c].imm
    BY <2>1, InsertEffect, Zenon DEF Quiet
  <2>3. /\ pc[Flusher] # "idle" /\ local'[Flusher].cfs = local[Flusher].cfs
        /\ local'[Flusher].count = local[Flusher].count
    BY <1>a, <2>1, Zenon DEF Quiet, Others
  <2>4. \A c \in Families : Len(cf[c].imm) <= Len(cf'[c].imm)
    BY <1>b, <2>2
  <2> QED
    BY <1>c, <2>1, <2>3, <2>4, Zenon DEF Quiet
<1>2. ASSUME NEW c \in Families, SwitchKeepsLog(c) \/ SwitchMemtable(c)
      PROVE  \E d \in Families' : /\ local'[Flusher].cfs = {d}
                                  /\ local'[Flusher].count \in 1..Len(cf'[d].imm)
  <2>1. pc'[Flusher] = pc[Flusher] /\ local'[Flusher] = local[Flusher] /\ setup' = setup
    BY <1>2, <1>a, Zenon DEF SwitchKeepsLog, SwitchMemtable, Goto, fixedVars
  <2>2. UNCHANGED cf \/ \E next \in Logs : \E advance : Seal(c, next, advance)
    <3>1. setup \in Setups /\ (logfile_number + 1 <= setup.logs => logfile_number + 1 \in Logs)
      BY WalAssumption DEF TypeOK, Logs
    <3> QED
      BY <1>2, <3>1, Zenon DEF SwitchKeepsLog, SwitchMemtable, TypeOK
  <2>3. \A d \in Families : Len(cf[d].imm) <= Len(cf'[d].imm)
    BY <2>2, <1>b, <1>d
  <2> QED
    BY <1>c, <2>1, <2>3, Zenon
<1>3. CASE SwitchDeletesWals
  <2>1. pc'[Flusher] = pc[Flusher] /\ local'[Flusher] = local[Flusher] /\ setup' = setup
    BY <1>3, <1>a, Zenon DEF SwitchDeletesWals, Goto, Forget, fixedVars
  <2>2. logfile_number \in Logs /\ \E c, advance : Seal(c, logfile_number, advance)
    BY <1>3, Zenon DEF SwitchDeletesWals, TypeOK
  <2> QED
    BY <1>c, <1>d, <2>1, <2>2, Zenon
<1>4. ASSUME NEW c \in Families, FlushBegin(c)
      PROVE  \E d \in Families' : /\ local'[Flusher].cfs = {d}
                                  /\ local'[Flusher].count \in 1..Len(cf'[d].imm)
  <2>1. /\ local'[Flusher] = [NoLocal EXCEPT !.cfs = {c}, !.count = Len(cf[c].imm)]
        /\ cf' = cf /\ setup' = setup /\ cf[c].imm # << >>
    BY <1>4, <1>a, Zenon DEF FlushBegin, versionVars, fixedVars
  <2>2. local'[Flusher].cfs = {c} /\ local'[Flusher].count = Len(cf[c].imm)
    BY <2>1, Zenon DEF NoLocal
  <2>3. Len(cf[c].imm) \in 1..Len(cf[c].imm) /\ c \in Families'
    BY <2>1, <1>b DEF Families
  <2> QED
    BY <2>1, <2>2, <2>3, Zenon
<1>5. CASE FlushFails
  BY <1>5, <1>a, Zenon DEF FlushFails, Goto
<1>6. ASSUME NEW c \in Families, FlushPick(c)
      PROVE  \E d \in Families' : /\ local'[Flusher].cfs = {d}
                                  /\ local'[Flusher].count \in 1..Len(cf'[d].imm)
  <2>1. /\ local[Flusher].cfs = {c} /\ local[Flusher].count \in 1..Len(cf[c].imm)
        /\ cf' = cf /\ Families' = Families
    BY <1>6, Zenon DEF FlushPick, FlushJob, versionVars, fixedVars, Families
  <2>2. local'[Flusher].cfs = local[Flusher].cfs
        /\ local'[Flusher].count \in {local[Flusher].count, Len(cf[c].imm)}
    BY <1>6, <1>a, Zenon DEF FlushPick, Locals
  <2>3. Len(cf[c].imm) \in 1..Len(cf[c].imm)
    BY <1>b, <2>1
  <2> QED
    BY <2>1, <2>2, <2>3, Zenon
<1>7. ASSUME NEW c \in Families, FlushCompute(c)
      PROVE  \E d \in Families' : /\ local'[Flusher].cfs = {d}
                                  /\ local'[Flusher].count \in 1..Len(cf'[d].imm)
  <2>1. local'[Flusher].cfs = local[Flusher].cfs /\ local'[Flusher].count = local[Flusher].count
    BY <1>7, <1>a, Zenon DEF FlushCompute, Locals
  <2>2. cf' = cf /\ setup' = setup /\ pc[Flusher] # "idle"
    BY <1>7, Zenon DEF FlushCompute, versionVars, fixedVars
  <2>3. \A d \in Families : Len(cf[d].imm) <= Len(cf'[d].imm)
    BY <1>b, <2>2
  <2> QED
    BY <1>c, <2>1, <2>2, <2>3, Zenon
<1>8. ASSUME NEW c \in Families, FlushInstall(c) PROVE FALSE
  BY <1>8, <1>a, Zenon DEF FlushInstall, Goto
<1>9. ASSUME NEW p \in Purgers, FindObsoleteFiles(p) \/ PopLogs(p) \/ DeleteFile(p)
      PROVE  \E d \in Families' : /\ local'[Flusher].cfs = {d}
                                  /\ local'[Flusher].count \in 1..Len(cf'[d].imm)
  <2>1. p # Flusher
    BY <1>a, Zenon
  <2>2. pc'[Flusher] = pc[Flusher] /\ local'[Flusher] = local[Flusher]
    BY <1>9, <1>a, <2>1, Zenon DEF FindObsoleteFiles, PopLogs, DeleteFile, Goto, Forget
  <2>3. cf' = cf /\ setup' = setup
    BY <1>9, Zenon DEF FindObsoleteFiles, PopLogs, DeleteFile, versionVars, fixedVars
  <2>4. \A d \in Families : Len(cf[d].imm) <= Len(cf'[d].imm)
    BY <1>b, <2>3
  <2> QED
    BY <1>c, <2>2, <2>3, <2>4, Zenon
<1>10. CASE UNCHANGED vars
  BY <1>10, <1>b, <1>c DEF vars, versionVars, fixedVars
<1> QED
  BY <1>1, <1>2, <1>3, <1>4, <1>5, <1>6, <1>7, <1>8, <1>9, <1>10, Zenon
     DEF Next, Calls, WriterStep, FlushStep, PurgeStep, QuietStep

(* The order of the memtables of one column family.                        *)
FamilyOK(f, min, last) ==
    /\ min <= f.log /\ f.log <= last
    /\ \A n \in f.mem : f.log <= n /\ n <= last
    /\ \A i \in 1..Len(f.imm) :
         /\ f.imm[i].next_log_number <= last
         /\ \A n \in f.imm[i].logs : f.log <= n /\ n <= last
         /\ \A n \in f.mem : f.imm[i].next_log_number <= n
         /\ \A j \in i + 1..Len(f.imm) : \A n \in f.imm[j].logs :
              f.imm[i].next_log_number <= n

(* MemtablesInOrder, one column family at a time.                          *)
LEMMA MemtablesAre ==
    MemtablesInOrder <=> \A c \in Families : FamilyOK(cf[c], min_log_number_to_keep, logfile_number)
BY Zenon DEF MemtablesInOrder, FamilyOK

(* A write into the memtable, a sealed memtable, an empty family that moves *)
(* on and a flush keep the order.                                          *)
LEMMA FamilyInsert ==
    ASSUME NEW f \in ColumnFamilies, NEW g \in ColumnFamilies, NEW min \in Nat, NEW last \in Logs,
           FamilyOK(f, min, last),
           g.log = f.log, g.imm = f.imm, g.mem \in {f.mem, f.mem \cup {last}}
    PROVE  FamilyOK(g, min, last)
<1>1. f.imm \in Seq(Memtables) /\ f.log \in Nat /\ f.mem \subseteq Nat /\ last \in Nat
  BY DEF ColumnFamilies, Logs
<1>2. \A n \in g.mem : n \in f.mem \/ n = last
  BY Zenon
<1> QED
  BY <1>1, <1>2 DEF FamilyOK

(* A sealed memtable keeps the order.                                      *)
LEMMA FamilySeal ==
    ASSUME NEW f \in ColumnFamilies, NEW g \in ColumnFamilies, NEW min \in Nat,
           NEW last \in Logs, NEW next \in Logs, last <= next,
           FamilyOK(f, min, last), g.log = f.log, g.mem = {},
           g.imm = Append(f.imm, [next_log_number |-> next, logs |-> f.mem])
    PROVE  FamilyOK(g, min, next)
<1> DEFINE m == [next_log_number |-> next, logs |-> f.mem]
<1>1. f.imm \in Seq(Memtables) /\ f.log \in Nat /\ f.mem \subseteq Nat /\ last \in Nat /\ next \in Nat
      /\ m \in Memtables /\ Len(f.imm) \in Nat
  BY DEF ColumnFamilies, Memtables, Logs
<1>2. Len(g.imm) = Len(f.imm) + 1 /\ g.imm[Len(f.imm) + 1] = m
      /\ \A i \in 1..Len(f.imm) : g.imm[i] = f.imm[i] /\ f.imm[i] \in Memtables
  BY <1>1
<1>3. m.next_log_number = next /\ m.logs = f.mem
  BY Zenon
<1> HIDE DEF m
<1>4. \A i \in 1..Len(f.imm) : f.imm[i].next_log_number \in Nat /\ f.imm[i].logs \subseteq Nat
  BY <1>2 DEF Memtables, Logs
<1>5. f.log <= next /\ \A n \in f.mem : n <= next
  BY <1>1 DEF FamilyOK
<1>6. ASSUME NEW i \in 1..Len(g.imm)
      PROVE  /\ g.imm[i].next_log_number <= next
             /\ \A n \in g.imm[i].logs : g.log <= n /\ n <= next
             /\ \A j \in i + 1..Len(g.imm) : \A n \in g.imm[j].logs : g.imm[i].next_log_number <= n
  <2>1. CASE i = Len(f.imm) + 1
    BY <1>1, <1>2, <1>3, <1>5, <2>1 DEF FamilyOK
  <2>2. CASE i \in 1..Len(f.imm)
    <3>1. g.imm[i] = f.imm[i]
      BY <1>2, <2>2, Zenon
    <3>2. f.imm[i].next_log_number <= last /\ \A n \in f.imm[i].logs : f.log <= n /\ n <= last
      BY <2>2, Zenon DEF FamilyOK
    <3>3. ASSUME NEW j \in i + 1..Len(g.imm), NEW n \in g.imm[j].logs
          PROVE  f.imm[i].next_log_number <= n
      <4>1. CASE j = Len(f.imm) + 1
        BY <1>2, <1>3, <2>2, <3>3, <4>1, Zenon DEF FamilyOK
      <4>2. CASE j \in i + 1..Len(f.imm)
        BY <1>1, <1>2, <2>2, <3>3, <4>2 DEF FamilyOK
      <4> QED
        BY <1>1, <1>2, <2>2, <4>1, <4>2
    <3>4. g.imm[i].next_log_number <= next
      BY <1>1, <1>4, <2>2, <3>1, <3>2
    <3>5. ASSUME NEW n \in g.imm[i].logs
          PROVE  g.log <= n /\ n <= next
      BY <1>1, <1>4, <2>2, <3>1, <3>2, <3>5
    <3> QED
      BY <3>1, <3>3, <3>4, <3>5, Zenon
  <2> QED
    BY <1>1, <1>2, <2>1, <2>2
<1> QED
  BY <1>5, <1>6, Zenon DEF FamilyOK

(* A flush that removes the first k memtables, and advances the log number *)
(* past them, keeps the order.                                             *)
LEMMA FamilyFlush ==
    ASSUME NEW f \in ColumnFamilies, NEW g \in ColumnFamilies, NEW min \in Nat, NEW n \in Nat,
           NEW last \in Logs, NEW k \in 1..Len(f.imm),
           FamilyOK(f, min, last), n <= f.imm[k].next_log_number,
           g.log = Larger(f.log, f.imm[k].next_log_number), g.mem = f.mem,
           g.imm = SubSeq(f.imm, k + 1, Len(f.imm))
    PROVE  FamilyOK(g, Larger(min, n), last)
<1>1. f.imm \in Seq(Memtables) /\ f.log \in Nat /\ f.mem \subseteq Nat /\ last \in Nat /\ Len(f.imm) \in Nat
  BY DEF ColumnFamilies, Logs
<1>2. \A i \in 1..Len(f.imm) : f.imm[i].next_log_number \in Nat /\ f.imm[i].logs \subseteq Nat
  <2>1. \A i \in 1..Len(f.imm) : f.imm[i] \in Memtables
    BY <1>1
  <2> QED
    BY <2>1 DEF Memtables, Logs
<1>3. Len(g.imm) = Len(f.imm) - k /\ \A i \in 1..Len(g.imm) : g.imm[i] = f.imm[k + i]
  <2>1. k + 1 \in Nat /\ Len(f.imm) \in Nat
        /\ \A i \in k + 1..Len(f.imm) : f.imm[i] \in Memtables
    BY <1>1
  <2>2. /\ Len(g.imm) = IF k + 1 <= Len(f.imm) THEN Len(f.imm) - (k + 1) + 1 ELSE 0
        /\ \A i \in 1..Len(f.imm) - (k + 1) + 1 : g.imm[i] = f.imm[(k + 1) + i - 1]
    BY <2>1
  <2>3. \A i \in 1..Len(f.imm) - k : (k + 1) + i - 1 = k + i
    BY <1>1
  <2> QED
    BY <1>1, <2>2, <2>3
<1>4. Larger(min, n) <= g.log /\ g.log <= last
  BY <1>1, <1>2 DEF FamilyOK, Larger
<1>5. \A m \in g.mem : g.log <= m /\ m <= last
  BY <1>1, <1>2, Zenon DEF FamilyOK, Larger
<1>6. ASSUME NEW i \in 1..Len(g.imm)
      PROVE  /\ g.imm[i].next_log_number <= last
             /\ \A m \in g.imm[i].logs : g.log <= m /\ m <= last
             /\ \A m \in g.mem : g.imm[i].next_log_number <= m
             /\ \A j \in i + 1..Len(g.imm) : \A m \in g.imm[j].logs : g.imm[i].next_log_number <= m
  <2>1. k + i \in 1..Len(f.imm) /\ k + i \in k + 1..Len(f.imm) /\ g.imm[i] = f.imm[k + i]
    <3>1. i \in Nat /\ i >= 1 /\ i <= Len(f.imm) - k /\ k \in Nat
      BY <1>1, <1>3
    <3> QED
      BY <1>1, <1>3, <3>1
  <2>2. f.imm[k + i].next_log_number <= last /\ \A m \in g.mem : f.imm[k + i].next_log_number <= m
    BY <2>1, Zenon DEF FamilyOK
  <2>3. \A m \in f.imm[k + i].logs : g.log <= m /\ m <= last
    BY <1>1, <1>2, <2>1, Zenon DEF FamilyOK, Larger
  <2>4. ASSUME NEW j \in i + 1..Len(g.imm), NEW m \in g.imm[j].logs
        PROVE  f.imm[k + i].next_log_number <= m
    <3>1. k + j \in k + i + 1..Len(f.imm) /\ g.imm[j] = f.imm[k + j]
      <4>1. j \in Nat /\ j >= i + 1 /\ j <= Len(f.imm) - k /\ k \in Nat /\ i \in Nat /\ i >= 1
        BY <1>1, <1>3
      <4>2. j \in 1..Len(g.imm)
        BY <1>1, <1>3, <4>1
      <4> QED
        BY <1>1, <1>3, <4>1, <4>2
    <3> QED
      BY <2>1, <2>4, <3>1, Zenon DEF FamilyOK
  <2> QED
    BY <2>1, <2>2, <2>3, <2>4, Zenon
<1> QED
  BY <1>4, <1>5, <1>6, Zenon DEF FamilyOK

(* What the flush thread computed stays right while memtables are added.   *)
LEMMA FlushKnowsKept ==
    ASSUME TypeOK, TypeOK', FlushJob, FlushKnows, Grows, setup' = setup,
           pc'[Flusher] = "install" => pc[Flusher] = "install" /\ local'[Flusher] = local[Flusher]
    PROVE  FlushKnows'
<1> SUFFICES ASSUME pc'[Flusher] = "install", NEW c \in local'[Flusher].cfs
             PROVE  /\ local'[Flusher].min_log <= NextLog(c)'
                    /\ \A d \in Families \ {c} : local'[Flusher].min_log <= cf'[d].log
  BY Zenon DEF FlushKnows, Families
<1>1. pc[Flusher] = "install" /\ local'[Flusher] = local[Flusher] /\ c \in local[Flusher].cfs
  BY Zenon
<1>2. c \in Families /\ local[Flusher].count \in 1..Len(cf[c].imm)
  BY <1>1, Zenon DEF FlushJob
<1>3. NextLog(c)' = NextLog(c)
  BY <1>1, <1>2, Zenon DEF NextLog, Grows
<1>4. local[Flusher].min_log \in Nat
  BY Zenon DEF TypeOK, Locals, Threads
<1>5. \A d \in Families : cf[d].log \in Nat /\ cf'[d].log \in Nat /\ cf[d].log <= cf'[d].log
  BY DEF TypeOK, Grows, ColumnFamilies, Logs, Families
<1> QED
  BY <1>1, <1>3, <1>4, <1>5 DEF FlushKnows

(* What FindObsoleteFiles collected stays obsolete.                        *)
LEMMA PurgeKnowsKept ==
    ASSUME TypeOK, TypeOK', PurgeKnows, min_log_number_to_keep <= min_log_number_to_keep',
           \A p \in Purgers : pc'[p] = pc[p] /\ local'[p] = local[p]
    PROVE  PurgeKnows'
<1>1. \A p \in Purgers : local[p].min_log \in Nat
  BY Zenon DEF TypeOK, Locals, Threads
<1>2. min_log_number_to_keep \in Nat /\ min_log_number_to_keep' \in Nat /\ Logs \subseteq Nat
  BY DEF TypeOK, Logs
<1>3. ASSUME NEW p \in Purgers
      PROVE  /\ local'[p].min_log <= min_log_number_to_keep'
             /\ \A n \in local'[p].deletes : n \in Logs /\ n < min_log_number_to_keep'
             /\ pc'[p] = "delete" => local'[p].deletes # {}
  <2>1. local'[p] = local[p] /\ pc'[p] = pc[p]
    BY Zenon
  <2>2. local[p].min_log <= min_log_number_to_keep'
    BY <1>1, <1>2 DEF PurgeKnows
  <2>3. \A n \in local[p].deletes : n \in Logs /\ n < min_log_number_to_keep
    BY Zenon DEF PurgeKnows
  <2>4. \A n \in local[p].deletes : n \in Nat /\ n < min_log_number_to_keep'
    <3> SUFFICES ASSUME NEW n \in local[p].deletes PROVE n \in Nat /\ n < min_log_number_to_keep'
      BY Zenon
    <3>1. n \in Nat /\ n < min_log_number_to_keep
      BY <1>2, <2>3, Zenon
    <3> QED
      BY <1>2, <3>1
  <2>5. pc[p] = "delete" => local[p].deletes # {}
    BY Zenon DEF PurgeKnows
  <2> QED
    BY <2>1, <2>2, <2>3, <2>4, <2>5, Zenon
<1> QED
  BY <1>3, Zenon DEF PurgeKnows

(* A new log keeps the order.                                              *)
LEMMA FamilyLater ==
    ASSUME NEW f \in ColumnFamilies, NEW min \in Nat, NEW last \in Logs, NEW next \in Logs,
           last <= next, FamilyOK(f, min, last)
    PROVE  FamilyOK(f, min, next)
<1>1. f.imm \in Seq(Memtables) /\ f.log \in Nat /\ f.mem \subseteq Nat /\ last \in Nat /\ next \in Nat
  BY DEF ColumnFamilies, Logs
<1>2. \A i \in 1..Len(f.imm) : f.imm[i].next_log_number \in Nat /\ f.imm[i].logs \subseteq Nat
  <2>1. \A i \in 1..Len(f.imm) : f.imm[i] \in Memtables
    BY <1>1
  <2> QED
    BY <2>1 DEF Memtables, Logs
<1>3. f.log <= next /\ \A n \in f.mem : n <= next
  BY <1>1 DEF FamilyOK
<1>4. \A i \in 1..Len(f.imm) : /\ f.imm[i].next_log_number <= next
                               /\ \A n \in f.imm[i].logs : n <= next
  BY <1>1, <1>2 DEF FamilyOK
<1> QED
  BY <1>3, <1>4, Zenon DEF FamilyOK

(* A memtable switch keeps the order.                                      *)
LEMMA SealInOrder ==
    ASSUME TypeOK, TypeOK', MemtablesInOrder, NEW c \in Families, NEW next \in Logs, NEW advance,
           Seal(c, next, advance), logfile_number <= next, logfile_number' = next,
           UNCHANGED <<setup, min_log_number_to_keep>>
    PROVE  MemtablesInOrder'
<1>1. Families' = Families
  BY Zenon DEF Families
<1> SUFFICES ASSUME NEW d \in Families
             PROVE  FamilyOK(cf'[d], min_log_number_to_keep, next)
  BY <1>1, Zenon DEF MemtablesInOrder, FamilyOK
<1>2. cf[d] \in ColumnFamilies /\ cf'[d] \in ColumnFamilies /\ min_log_number_to_keep \in Nat
      /\ logfile_number \in Logs /\ next \in Nat /\ logfile_number \in Nat
  BY <1>1 DEF TypeOK, Logs
<1>3. FamilyOK(cf[d], min_log_number_to_keep, logfile_number)
  BY MemtablesAre, Zenon
<1>4. min_log_number_to_keep <= next
  BY <1>2, <1>3 DEF FamilyOK, ColumnFamilies, Logs
<1>5. \/ /\ cf'[d].log = cf[d].log /\ cf'[d].mem = {}
         /\ cf'[d].imm = Append(cf[d].imm, [next_log_number |-> next, logs |-> cf[d].mem])
      \/ cf'[d].log = next /\ cf'[d].mem = {} /\ cf'[d].imm = << >>
      \/ cf'[d] = cf[d]
  BY SealEffect
<1>6. CASE /\ cf'[d].log = cf[d].log /\ cf'[d].mem = {}
           /\ cf'[d].imm = Append(cf[d].imm, [next_log_number |-> next, logs |-> cf[d].mem])
  BY <1>2, <1>3, <1>6, FamilySeal, Zenon
<1>7. CASE cf'[d].log = next /\ cf'[d].mem = {} /\ cf'[d].imm = << >>
  BY <1>2, <1>4, <1>7 DEF FamilyOK
<1>8. CASE cf'[d] = cf[d]
  BY <1>2, <1>3, <1>8, FamilyLater, Zenon
<1> QED
  BY <1>5, <1>6, <1>7, <1>8, Zenon

(* The recovered database needs its one log, and has it.                   *)
LEMMA InitKept == Init => FlushJob /\ Kept
<1> SUFFICES ASSUME Init PROVE FlushJob /\ Kept
  OBVIOUS
<1>1. Writer \in Threads /\ Flusher \in Threads /\ Purgers \subseteq Threads
  BY Zenon DEF Threads
<1>2. FlushJob /\ FlushKnows
  BY <1>1, Zenon DEF Init, FlushJob, FlushKnows
<1>3. PurgeKnows
  BY <1>1 DEF Init, PurgeKnows, NoLocal
<1>4. MemtablesInOrder
  BY DEF Init, MemtablesInOrder
<1>5. \A n \in Logs : Needed(n) => n \in files
  BY DEF Init, Needed, Logs
<1> QED
  BY <1>1, <1>2, <1>3, <1>4, <1>5, Zenon DEF Kept, Init

(* Every step keeps the first layer.                                       *)
LEMMA StepKept ==
    LeastExists /\ TypeOK /\ Places /\ FlushJob /\ Kept /\ [Next]_vars /\ TypeOK' /\ Places' => Kept'
<1> SUFFICES ASSUME LeastExists, TypeOK, Places, FlushJob, Kept, [Next]_vars, TypeOK', Places' PROVE Kept'
  BY Zenon
<1>a. /\ Writer \in Threads \ Purgers /\ Flusher \in Threads \ Purgers /\ Writer # Flusher
      /\ Purgers \subseteq Threads
      /\ local \in [Threads -> Locals] /\ pc \in [Threads -> Labels]
  BY WalAssumption, Zenon DEF Threads, TypeOK
<1>b. MemtablesInOrder /\ FlushKnows /\ PurgeKnows
  BY Zenon DEF Kept
<1>c. ASSUME UNCHANGED <<setup, cf, logfile_number, min_log_number_to_keep>>
      PROVE  Grows /\ MemtablesInOrder'
  BY <1>b, <1>c DEF Grows, MemtablesInOrder, Families, TypeOK, ColumnFamilies, Logs
<1>d. min_log_number_to_keep \in Nat /\ logfile_number \in Nat
  BY DEF TypeOK, Logs
<1>1. CASE QuietStep
  <2>1. PICK p \in Threads \ Purgers : Quiet(p)
    BY <1>1, QuietSteps, Zenon
  <2>2. UNCHANGED <<setup, logfile_number, files, min_log_number_to_keep>> /\ Families' = Families
    BY <2>1, Zenon DEF Quiet, Families
  <2>3. \A c \in Families : /\ cf'[c].log = cf[c].log /\ cf'[c].imm = cf[c].imm
                            /\ cf'[c].mem \in {cf[c].mem, cf[c].mem \cup {logfile_number}}
    BY <2>1, InsertEffect, Zenon DEF Quiet
  <2>4. MemtablesInOrder'
    <3> SUFFICES ASSUME NEW c \in Families
                 PROVE  FamilyOK(cf'[c], min_log_number_to_keep, logfile_number)
      BY <2>2, Zenon DEF MemtablesInOrder, FamilyOK
    <3>1. cf[c] \in ColumnFamilies /\ cf'[c] \in ColumnFamilies /\ logfile_number \in Logs
      BY <2>2, Zenon DEF TypeOK
    <3> QED
      BY <1>b, <1>d, <2>3, <3>1, MemtablesAre, FamilyInsert, Zenon
  <2>5. Grows
    BY <2>3 DEF Grows, TypeOK, ColumnFamilies, Logs
  <2>6. FlushKnows'
    BY <1>a, <1>b, <2>1, <2>2, <2>5, FlushKnowsKept, Zenon DEF Quiet, Others
  <2>7. PurgeKnows'
    BY <1>a, <1>b, <1>d, <2>1, <2>2, PurgeKnowsKept DEF Quiet, Others
  <2>8. pc'[Writer] = "delete_wals" => pc[Writer] = "delete_wals" /\ local'[Writer] = local[Writer]
    BY <1>a, <2>1, Zenon DEF Quiet, Others
  <2> QED
    BY <2>2, <2>4, <2>6, <2>7, <2>8, Zenon DEF Kept, Needed
<1>2. ASSUME NEW c \in Families, SwitchKeepsLog(c) PROVE Kept'
  <2>1. /\ UNCHANGED <<setup, logfile_number, min_log_number_to_keep, pc, local, files>>
        /\ Seal(c, logfile_number, {}) /\ logfile_number \in Logs
    BY <1>2, Zenon DEF SwitchKeepsLog, logVars, fileVars, fixedVars, TypeOK
  <2>2. MemtablesInOrder' /\ Grows
    BY <1>b, <1>d, <2>1, SealInOrder, SealGrows
  <2>3. FlushKnows' /\ PurgeKnows'
    BY <1>b, <1>d, <2>1, <2>2, FlushKnowsKept, PurgeKnowsKept
  <2> QED
    BY <2>1, <2>2, <2>3, Zenon DEF Kept, Needed, Families
<1>3. ASSUME NEW c \in Families, SwitchMemtable(c) PROVE Kept'
  <2>1. /\ UNCHANGED <<setup, min_log_number_to_keep>>
        /\ logfile_number' = logfile_number + 1 /\ files' = files \cup {logfile_number'}
        /\ \A q \in Threads \ {Writer} : pc'[q] = pc[q] /\ local'[q] = local[q]
        /\ logfile_number' \in Logs
    BY <1>3, <1>a, Zenon DEF SwitchMemtable, fixedVars, Goto, TypeOK
  <2>2. \/ /\ local'[Writer].cfs = {c} /\ UNCHANGED cf
        \/ /\ pc'[Writer] = "idle" /\ \E advance : Seal(c, logfile_number', advance)
    BY <1>3, <1>a, Zenon DEF SwitchMemtable, NoLocal
  <2>3. MemtablesInOrder' /\ Grows
    <3>1. CASE UNCHANGED cf
      <4>1. Grows
        BY <3>1 DEF Grows, TypeOK, ColumnFamilies, Logs
      <4>2. ASSUME NEW d \in Families PROVE FamilyOK(cf[d], min_log_number_to_keep, logfile_number')
        <5>1. cf[d] \in ColumnFamilies /\ logfile_number \in Logs /\ logfile_number <= logfile_number'
          BY <1>d, <2>1 DEF TypeOK
        <5> QED
          BY <1>b, <1>d, <2>1, <5>1, MemtablesAre, FamilyLater, Zenon
      <4> QED
        BY <2>1, <3>1, <4>1, <4>2 DEF MemtablesInOrder, FamilyOK, Families
    <3>2. CASE \E advance : Seal(c, logfile_number', advance)
      BY <1>b, <1>d, <2>1, <3>2, SealInOrder, SealGrows
    <3> QED
      BY <2>2, <3>1, <3>2, Zenon
  <2>4. FlushKnows' /\ PurgeKnows'
    BY <1>a, <1>b, <1>d, <2>1, <2>3, FlushKnowsKept, PurgeKnowsKept
  <2>5. \A n \in Logs : Needed(n)' => n \in files'
    BY <1>d, <2>1 DEF Kept, Needed, Logs
  <2>6. pc'[Writer] = "delete_wals" => \E d \in Families' : local'[Writer].cfs = {d}
    BY <2>1, <2>2, Zenon DEF Families
  <2> QED
    BY <2>3, <2>4, <2>5, <2>6, Zenon DEF Kept
<1>4. CASE SwitchDeletesWals
  <2>1. /\ UNCHANGED <<setup, min_log_number_to_keep, logfile_number, files>>
        /\ \A q \in Threads \ {Writer} : pc'[q] = pc[q] /\ local'[q] = local[q]
        /\ pc'[Writer] = "idle" /\ logfile_number \in Logs
    BY <1>4, <1>a, Zenon DEF SwitchDeletesWals, logVars, fileVars, fixedVars, Goto, Forget, TypeOK
  <2>2. PICK c \in Families : \E advance : Seal(c, logfile_number, advance)
    BY <1>4, Zenon DEF SwitchDeletesWals, Kept
  <2>3. MemtablesInOrder' /\ Grows
    BY <1>b, <1>d, <2>1, <2>2, SealInOrder, SealGrows
  <2>4. FlushKnows' /\ PurgeKnows'
    BY <1>a, <1>b, <1>d, <2>1, <2>3, FlushKnowsKept, PurgeKnowsKept
  <2> QED
    BY <2>1, <2>3, <2>4, Zenon DEF Kept, Needed
<1>5. ASSUME NEW c \in Families, FlushBegin(c) \/ FlushPick(c) PROVE Kept'
  <2>1. /\ UNCHANGED <<setup, min_log_number_to_keep, logfile_number, files, cf>>
        /\ \A q \in Threads \ {Flusher} : pc'[q] = pc[q] /\ local'[q] = local[q]
        /\ pc'[Flusher] # "install"
    BY <1>5, <1>a, Zenon DEF FlushBegin, FlushPick, Goto, logVars, fileVars, versionVars, fixedVars
  <2>2. FlushKnows' /\ PurgeKnows'
    BY <1>a, <1>b, <1>c, <1>d, <2>1, FlushKnowsKept, PurgeKnowsKept
  <2> QED
    BY <1>a, <1>c, <2>1, <2>2, Zenon DEF Kept, Needed, Families
<1>6. CASE FlushFails
  <2>1. /\ UNCHANGED <<setup, min_log_number_to_keep, logfile_number, files, cf>>
        /\ \A q \in Threads \ {Flusher} : pc'[q] = pc[q] /\ local'[q] = local[q]
        /\ pc'[Flusher] # "install"
    BY <1>6, <1>a, Zenon DEF FlushFails, Goto, Forget, logVars, fileVars, versionVars, fixedVars
  <2>2. FlushKnows' /\ PurgeKnows'
    BY <1>a, <1>b, <1>c, <1>d, <2>1, FlushKnowsKept, PurgeKnowsKept
  <2> QED
    BY <1>a, <1>c, <2>1, <2>2, Zenon DEF Kept, Needed, Families
<1>7. ASSUME NEW c \in Families, FlushCompute(c) PROVE Kept'
  <2> DEFINE S == {NextLog(c)} \cup {cf[d].log : d \in Families \ {c}}
  <2>1. /\ UNCHANGED <<setup, min_log_number_to_keep, logfile_number, files, cf>>
        /\ \A q \in Threads \ {Flusher} : pc'[q] = pc[q] /\ local'[q] = local[q]
    BY <1>7, <1>a, Zenon DEF FlushCompute, Goto, logVars, fileVars, versionVars, fixedVars
  <2>2. /\ local'[Flusher].min_log = Least(S) /\ local'[Flusher].cfs = local[Flusher].cfs
        /\ local'[Flusher].count = local[Flusher].count
    BY <1>7, <1>a, Zenon DEF FlushCompute, PrecomputeMinLogNumberToKeepNon2PC, Locals
  <2>3. local[Flusher].cfs = {c} /\ NextLog(c) \in Logs
    BY <1>7, NextLogType, Zenon DEF FlushCompute, FlushJob
  <2>4. S \subseteq Nat
    BY <2>3 DEF TypeOK, ColumnFamilies, Logs
  <2>5. \A m \in S : Least(S) <= m
    BY <2>4, Zenon DEF LeastExists
  <2>6. FlushKnows'
    <3>1. NextLog(c)' = NextLog(c) /\ Families' = Families
      BY <2>1, <2>2, Zenon DEF NextLog, Families
    <3>2. Least(S) <= NextLog(c) /\ \A d \in Families \ {c} : Least(S) <= cf[d].log
      BY <2>5, Zenon
    <3> HIDE DEF S
    <3> QED
      BY <2>1, <2>2, <2>3, <3>1, <3>2, Zenon DEF FlushKnows
  <2>7. PurgeKnows'
    BY <1>a, <1>b, <1>d, <2>1, PurgeKnowsKept
  <2> QED
    BY <1>a, <1>c, <2>1, <2>6, <2>7, Zenon DEF Kept, Needed, Families
<1>8. ASSUME NEW c \in Families, FlushInstall(c) PROVE Kept'
  <2> DEFINE n == local[Flusher].min_log
             k == local[Flusher].count
  <2>1. /\ UNCHANGED <<setup, logfile_number, files>>
        /\ \A q \in Threads \ {Flusher} : pc'[q] = pc[q] /\ local'[q] = local[q]
        /\ pc'[Flusher] = "idle" /\ min_log_number_to_keep' = Larger(min_log_number_to_keep, n)
    BY <1>8, <1>a, Zenon DEF FlushInstall, Goto, Forget, logVars, fileVars
  <2>2. /\ k \in 1..Len(cf[c].imm) /\ n \in Nat /\ n <= NextLog(c)
        /\ \A d \in Families \ {c} : n <= cf[d].log
    BY <1>8, <1>a, <1>b, Zenon DEF FlushInstall, FlushJob, FlushKnows, Locals
  <2>3. /\ cf'[c].log = Larger(cf[c].log, NextLog(c)) /\ cf'[c].mem = cf[c].mem
        /\ cf'[c].imm = SubSeq(cf[c].imm, k + 1, Len(cf[c].imm))
        /\ \A d \in Families \ {c} : cf'[d] = cf[d]
    BY <1>8, Zenon DEF FlushInstall, TypeOK, ColumnFamilies
  <2>4. min_log_number_to_keep <= min_log_number_to_keep'
    BY <1>d, <2>1, <2>2 DEF Larger
  <2>5. ASSUME NEW d \in Families
        PROVE  FamilyOK(cf'[d], Larger(min_log_number_to_keep, n), logfile_number)
    <3>1. FamilyOK(cf[d], min_log_number_to_keep, logfile_number) /\ logfile_number \in Logs
      BY <1>b, MemtablesAre, Zenon DEF TypeOK
    <3>2. cf[d] \in ColumnFamilies /\ cf'[d] \in ColumnFamilies
      BY <2>1, Zenon DEF TypeOK, Families
    <3>3. CASE d = c
      BY <1>d, <2>2, <2>3, <3>1, <3>2, <3>3, FamilyFlush, Zenon DEF NextLog
    <3>4. CASE d # c
      BY <1>d, <2>2, <2>3, <3>1, <3>4, Zenon DEF FamilyOK, Larger
    <3> QED
      BY <3>3, <3>4, Zenon
  <2>6. MemtablesInOrder'
    BY <2>1, <2>5, Zenon DEF MemtablesInOrder, FamilyOK, Families
  <2>7. FlushKnows' /\ PurgeKnows'
    BY <1>a, <1>b, <2>1, <2>4, PurgeKnowsKept, Zenon DEF FlushKnows
  <2>8. \A m \in Logs : Needed(m)' => m \in files'
    BY <1>d, <2>1, <2>2, <2>4 DEF Kept, Needed, Logs, Larger
  <2> QED
    BY <1>a, <2>1, <2>6, <2>7, <2>8, Zenon DEF Kept, Families
<1>9. ASSUME NEW p \in Purgers, FindObsoleteFiles(p) PROVE Kept'
  <2>1. /\ UNCHANGED <<setup, min_log_number_to_keep, logfile_number, files, cf>>
        /\ \A q \in Threads \ {p} : pc'[q] = pc[q] /\ local'[q] = local[q]
        /\ pc'[p] = "pop"
        /\ local'[p] = [NoLocal EXCEPT !.min_log = min_log_number_to_keep,
              !.deletes = {n \in alive_log_files : n < min_log_number_to_keep}]
    BY <1>9, <1>a, Zenon DEF FindObsoleteFiles, Goto, fileVars, versionVars, fixedVars
  <2>2. /\ local'[p].min_log = min_log_number_to_keep
        /\ local'[p].deletes = {n \in alive_log_files : n < min_log_number_to_keep}
    BY <2>1, Zenon DEF NoLocal
  <2>3. PurgeKnows'
    <3>1. \A q \in Purgers \ {p} : pc'[q] = pc[q] /\ local'[q] = local[q]
      BY <1>a, <2>1, Zenon
    <3>2. \A n \in local'[p].deletes : n \in Logs /\ n < min_log_number_to_keep
      BY <2>2, Zenon DEF TypeOK
    <3>3. /\ local'[p].min_log <= min_log_number_to_keep /\ pc'[p] # "delete"
          /\ min_log_number_to_keep' = min_log_number_to_keep
      BY <1>d, <2>1, <2>2
    <3> QED
      BY <1>b, <3>1, <3>2, <3>3, Zenon DEF PurgeKnows
  <2>4. FlushKnows'
    BY <1>a, <1>b, <1>c, <2>1, FlushKnowsKept, Zenon
  <2> QED
    BY <1>a, <1>c, <2>1, <2>3, <2>4, Zenon DEF Kept, Needed, Families
<1>10. ASSUME NEW p \in Purgers, PopLogs(p) PROVE Kept'
  <2>1. /\ UNCHANGED <<setup, min_log_number_to_keep, logfile_number, files, cf>>
        /\ \A q \in Threads \ {p} : pc'[q] = pc[q] /\ local'[q] = local[q]
    BY <1>10, <1>a, Zenon DEF PopLogs, Goto, Forget, fileVars, versionVars, fixedVars
  <2>2. \/ pc'[p] = "pop" /\ local'[p] = local[p]
        \/ pc'[p] = "delete" /\ local'[p] = local[p] /\ local[p].deletes # {}
        \/ pc'[p] = "idle" /\ local'[p] = NoLocal
    BY <1>10, <1>a, Zenon DEF PopLogs, Goto, Forget
  <2>3. PurgeKnows'
    BY <1>a, <1>b, <1>d, <2>1, <2>2 DEF PurgeKnows, NoLocal
  <2>4. FlushKnows'
    BY <1>a, <1>b, <1>c, <2>1, FlushKnowsKept, Zenon
  <2> QED
    BY <1>a, <1>c, <2>1, <2>3, <2>4, Zenon DEF Kept, Needed, Families
<1>11. ASSUME NEW p \in Purgers, DeleteFile(p) PROVE Kept'
  <2> DEFINE n == Least(local[p].deletes)
  <2>1. /\ UNCHANGED <<setup, min_log_number_to_keep, logfile_number, cf>> /\ files' = files \ {n}
        /\ \A q \in Threads \ {p} : pc'[q] = pc[q] /\ local'[q] = local[q]
    BY <1>11, <1>a, Zenon DEF DeleteFile, Goto, Forget, logVars, versionVars, fixedVars
  <2>2. local[p].deletes # {} /\ \A m \in local[p].deletes : m \in Logs /\ m < min_log_number_to_keep
    BY <1>11, <1>b, Zenon DEF DeleteFile, PurgeKnows
  <2>3. n \in local[p].deletes
    BY <2>2 DEF Logs, LeastExists
  <2>4. \/ pc'[p] = "idle" /\ local'[p] = NoLocal
        \/ /\ pc'[p] = pc[p] /\ local'[p].min_log = local[p].min_log
           /\ local'[p].deletes = local[p].deletes \ {n} /\ local[p].deletes # {n}
    BY <1>11, <1>a, Zenon DEF DeleteFile, Goto, Forget, Locals
  <2> HIDE DEF n
  <2>5. PurgeKnows'
    <3>0. NoLocal.min_log = 0 /\ NoLocal.deletes = {}
      BY Zenon DEF NoLocal
    <3>1. \A q \in Purgers \ {p} : pc'[q] = pc[q] /\ local'[q] = local[q]
      BY <1>a, <2>1, Zenon
    <3>2. local'[p].min_log <= min_log_number_to_keep
      <4>1. local'[p].min_log = 0 \/ local'[p].min_log = local[p].min_log
        BY <2>4, <3>0, Zenon
      <4>2. local[p].min_log <= min_log_number_to_keep
        BY <1>b, Zenon DEF PurgeKnows
      <4> QED
        BY <1>d, <4>1, <4>2
    <3>3. \A m \in local'[p].deletes : m \in Logs /\ m < min_log_number_to_keep
      BY <2>2, <2>4, <3>0, Zenon
    <3>4. pc'[p] = "delete" => local'[p].deletes # {}
      BY <2>3, <2>4, Zenon
    <3> QED
      BY <1>b, <2>1, <3>1, <3>2, <3>3, <3>4, Zenon DEF PurgeKnows
  <2>6. FlushKnows'
    BY <1>a, <1>b, <1>c, <2>1, FlushKnowsKept, Zenon
  <2>7. \A m \in Logs : Needed(m)' => m \in files'
    BY <1>d, <2>1, <2>2, <2>3 DEF Kept, Needed, Logs
  <2> QED
    BY <1>a, <1>c, <2>1, <2>5, <2>6, <2>7, Zenon DEF Kept, Families
<1>12. CASE UNCHANGED vars
  <2>1. UNCHANGED <<setup, min_log_number_to_keep, logfile_number, cf, files, pc, local>>
    BY <1>12, Zenon DEF vars, logVars, fileVars, versionVars, fixedVars
  <2> QED
    BY <2>1, Zenon DEF Kept, Needed, MemtablesInOrder, FlushKnows, NextLog, PurgeKnows, Families
<1> QED
  BY <1>1, <1>2, <1>3, <1>4, <1>5, <1>6, <1>7, <1>8, <1>9, <1>10, <1>11, <1>12, Zenon
     DEF Next, Calls, WriterStep, FlushStep, PurgeStep, QuietStep

(* The first layer gives UnflushedDataIsKept.                              *)
LEMMA KeptSuffices == TypeOK /\ Kept => UnflushedDataIsKept
<1> SUFFICES ASSUME TypeOK, Kept, NEW c \in Families,
                    NEW n \in UNION ({cf[c].mem} \cup {cf[c].imm[i].logs : i \in 1..Len(cf[c].imm)})
             PROVE  n \in files /\ n >= cf[c].log /\ n >= min_log_number_to_keep
  BY Zenon DEF UnflushedDataIsKept
<1>1. cf[c].log <= n /\ n <= logfile_number
  BY Zenon DEF Kept, MemtablesInOrder
<1>2. cf[c].imm \in Seq(Memtables) /\ cf[c].mem \subseteq Logs /\ cf[c].log \in Logs
  BY Zenon DEF TypeOK, ColumnFamilies
<1>3. \A i \in 1..Len(cf[c].imm) : cf[c].imm[i].logs \subseteq Logs
  <2>1. \A i \in 1..Len(cf[c].imm) : cf[c].imm[i] \in Memtables
    BY <1>2
  <2> QED
    BY <2>1, Zenon DEF Memtables
<1>4. n \in Logs
  BY <1>2, <1>3, Zenon
<1>5. min_log_number_to_keep <= cf[c].log /\ min_log_number_to_keep \in Nat
  BY Zenon DEF Kept, MemtablesInOrder, TypeOK
<1>6. min_log_number_to_keep <= n
  BY <1>1, <1>2, <1>4, <1>5 DEF Logs
<1> QED
  BY <1>1, <1>2, <1>4, <1>6, Zenon DEF Kept, Needed, Logs
=============================================================================
