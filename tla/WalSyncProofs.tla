--------------------------- MODULE WalSyncProofs ----------------------------
(***************************************************************************)
(* What the steps of WalFiles do to the threads and to the files, and the  *)
(* second layer of its invariants: the protocol that the three ways to sync *)
(* follow on logs_.                                                        *)
(***************************************************************************)
EXTENDS WalInvariants, TLAPS

(* A thread that is about to sync: the local variables it starts with.     *)
StartsSync(p, l) ==
    \/ /\ p \in Syncers /\ pc[p] = "idle"
       /\ l = [NoLocal EXCEPT !.up_to = logfile_number, !.promise = flushed]
    \/ /\ p = Flusher /\ pc[p] = "closed"
       /\ l = [local[p] EXCEPT !.up_to = logfile_number - 1]
    \/ \E C \in setup.sync_batches :
         /\ p = Writer /\ pc[p] = "idle"
         /\ l = [NoLocal EXCEPT !.up_to = logfile_number, !.cfs = C]
    \/ /\ pc[p] = "prepare" /\ l = local[p]

(* The four calls of PrepareForSync's loop are WaitOrPrepare steps.        *)
LEMMA PrepareCases ==
    ASSUME TypeOK, Places,
           \/ \E p \in setup.syncers : SyncWAL(p)
           \/ SyncClosedLogs
           \/ \E C \in setup.sync_batches : WriteSync(C)
           \/ \E p \in Threads : PrepareForSync(p)
    PROVE  \E p \in Threads \ Purgers, l \in Locals :
              StartsSync(p, l) /\ WaitOrPrepare(p, l)
<1>1. NoSizes \in Sizes /\ NoLocal \in Locals
  BY Zenon DEF NoSizes, Sizes, NoLocal, Locals
<1>2. setup.syncers \subseteq Syncers /\ setup.sync_batches \subseteq SUBSET CFs
  BY WalAssumption, Zenon DEF TypeOK
<1>3. logfile_number \in Nat /\ logfile_number - 1 \in Nat
  BY WalAssumption DEF TypeOK, Logs
<1>4. ASSUME NEW p \in setup.syncers, SyncWAL(p)
      PROVE  \E q \in Threads \ Purgers, l \in Locals :
                StartsSync(q, l) /\ WaitOrPrepare(q, l)
  <2> DEFINE l == [NoLocal EXCEPT !.up_to = logfile_number, !.promise = flushed]
  <2>1. l \in Locals
    BY <1>1, <1>3, Zenon DEF Locals, TypeOK
  <2>2. p \in Threads \ Purgers
    BY <1>2, WalAssumption, Zenon DEF Threads
  <2> QED
    BY <1>2, <1>4, <2>1, <2>2, Zenon DEF StartsSync, SyncWAL
<1>5. CASE SyncClosedLogs
  <2> DEFINE l == [local[Flusher] EXCEPT !.up_to = logfile_number - 1]
  <2>1. Flusher \in Threads \ Purgers
    BY WalAssumption, Zenon DEF Threads
  <2>2. l \in Locals
    BY <1>3, <2>1 DEF Locals, TypeOK
  <2> QED
    BY <1>5, <2>1, <2>2, Zenon DEF StartsSync, SyncClosedLogs
<1>6. ASSUME NEW C \in setup.sync_batches, WriteSync(C)
      PROVE  \E p \in Threads \ Purgers, l \in Locals :
                StartsSync(p, l) /\ WaitOrPrepare(p, l)
  <2> DEFINE l == [NoLocal EXCEPT !.up_to = logfile_number, !.cfs = C]
  <2>1. Writer \in Threads \ Purgers
    BY WalAssumption, Zenon DEF Threads
  <2>2. l \in Locals
    BY <1>1, <1>2, <1>3, Zenon DEF Locals
  <2> QED
    BY <1>6, <2>1, <2>2, Zenon DEF StartsSync, WriteSync
<1>7. ASSUME NEW p \in Threads, PrepareForSync(p)
      PROVE  \E q \in Threads \ Purgers, l \in Locals :
                StartsSync(q, l) /\ WaitOrPrepare(q, l)
  <2>1. p \in Threads \ Purgers /\ local[p] \in Locals
    BY <1>7, Zenon DEF PrepareForSync, Places, TypeOK
  <2>2. StartsSync(p, local[p]) /\ WaitOrPrepare(p, local[p])
    BY <1>7, Zenon DEF PrepareForSync, WaitOrPrepare, StartsSync
  <2> QED
    BY <2>1, <2>2, Zenon
<1> QED
  BY <1>4, <1>5, <1>6, <1>7, Zenon

(* The log after the memtables that are being flushed.                     *)
LEMMA NextLogType ==
    ASSUME TypeOK, FlushJob, pc[Flusher] # "idle", NEW c \in local[Flusher].cfs
    PROVE  c \in Families /\ NextLog(c) \in Logs
<1>1. PICK d \in Families : /\ local[Flusher].cfs = {d}
                            /\ local[Flusher].count \in 1..Len(cf[d].imm)
  BY Zenon DEF FlushJob
<1>2. c = d /\ cf[d].imm \in Seq(Memtables)
  BY <1>1, Zenon DEF TypeOK, ColumnFamilies
<1>3. cf[d].imm[local[Flusher].count] \in Memtables
  BY <1>1, <1>2
<1> QED
  BY <1>1, <1>2, <1>3, Zenon DEF NextLog, Memtables

(* What InsertInto leaves alone.                                           *)
LEMMA InsertEffect ==
    ASSUME TypeOK, NEW C, InsertInto(C)
    PROVE  /\ DOMAIN cf' = Families
           /\ \A c \in Families :
                /\ cf'[c].log = cf[c].log /\ cf'[c].imm = cf[c].imm
                /\ cf'[c].mem = IF c \in C THEN cf[c].mem \cup {logfile_number} ELSE cf[c].mem
BY Zenon DEF InsertInto, TypeOK, ColumnFamilies

(* What SwitchMemtable does to each column family: it seals one memtable   *)
(* and moves empty families on.                                            *)
LEMMA SealEffect ==
    ASSUME TypeOK, NEW c, NEW next, NEW advance, Seal(c, next, advance)
    PROVE  \A d \in Families :
             \/ /\ d = c /\ cf'[d].log = cf[d].log /\ cf'[d].mem = {}
                /\ cf'[d].imm = Append(cf[d].imm, [next_log_number |-> next, logs |-> cf[d].mem])
             \/ /\ d \in advance /\ IsEmpty(d)
                /\ cf'[d].log = next /\ cf'[d].mem = {} /\ cf'[d].imm = << >>
             \/ cf'[d] = cf[d]
<1> SUFFICES ASSUME NEW d \in Families
             PROVE  \/ /\ d = c /\ cf'[d].log = cf[d].log /\ cf'[d].mem = {}
                       /\ cf'[d].imm = Append(cf[d].imm, [next_log_number |-> next, logs |-> cf[d].mem])
                    \/ /\ d \in advance /\ IsEmpty(d)
                       /\ cf'[d].log = next /\ cf'[d].mem = {} /\ cf'[d].imm = << >>
                    \/ cf'[d] = cf[d]
  BY Zenon
<1>1. cf[d] \in ColumnFamilies
  BY Zenon DEF TypeOK
<1>2. CASE d = c
  BY <1>1, <1>2, Zenon DEF Seal, ColumnFamilies
<1>3. CASE d # c /\ d \in advance /\ IsEmpty(d)
  BY <1>1, <1>3, Zenon DEF Seal, ColumnFamilies, IsEmpty
<1>4. CASE d # c /\ ~(d \in advance /\ IsEmpty(d))
  BY <1>4, Zenon DEF Seal
<1> QED
  BY <1>2, <1>3, <1>4, Zenon

(* Every step but the installation of a flush only adds to the memtables.  *)
Grows ==
    \A c \in Families :
        /\ cf[c].log <= cf'[c].log
        /\ Len(cf[c].imm) <= Len(cf'[c].imm)
        /\ \A i \in 1..Len(cf[c].imm) : cf'[c].imm[i] = cf[c].imm[i]

(* A memtable switch only adds.                                            *)
LEMMA SealGrows ==
    ASSUME TypeOK, MemtablesInOrder, NEW c, NEW next \in Logs, NEW advance,
           Seal(c, next, advance), logfile_number <= next
    PROVE  Grows
<1> SUFFICES ASSUME NEW d \in Families
             PROVE  /\ cf[d].log <= cf'[d].log /\ Len(cf[d].imm) <= Len(cf'[d].imm)
                    /\ \A i \in 1..Len(cf[d].imm) : cf'[d].imm[i] = cf[d].imm[i]
  BY Zenon DEF Grows
<1>0. cf[d].imm \in Seq(Memtables) /\ [next_log_number |-> next, logs |-> cf[d].mem] \in Memtables
      /\ cf[d].log \in Logs /\ logfile_number \in Logs
  BY Zenon DEF TypeOK, ColumnFamilies, Memtables
<1>1. cf[d].log \in Nat /\ next \in Nat /\ logfile_number \in Nat
  BY <1>0 DEF Logs
<1>2. cf[d].log <= next
  BY <1>1 DEF MemtablesInOrder
<1>3. \/ /\ cf'[d].log = cf[d].log
         /\ cf'[d].imm = Append(cf[d].imm, [next_log_number |-> next, logs |-> cf[d].mem])
      \/ cf'[d].log = next /\ cf'[d].imm = << >> /\ cf[d].imm = << >>
      \/ cf'[d] = cf[d]
  BY SealEffect DEF IsEmpty
<1> QED
  BY <1>0, <1>1, <1>2, <1>3

(* What the steps of a sync do to the locals of their thread.              *)
Others(p) == \A q \in Threads \ {p} : pc'[q] = pc[q] /\ local'[q] = local[q]

(* What PrepareForSync, or the wait before it, does to the thread.         *)
LEMMA PrepareEffect ==
    ASSUME TypeOK, NEW p \in Threads, NEW l \in Locals, WaitOrPrepare(p, l)
    PROVE  /\ Others(p)
           /\ \/ MustWait(l) /\ pc'[p] = "prepare" /\ local'[p] = l
              \/ /\ ~MustWait(l)
                 /\ pc'[p] = IF p = Writer THEN "append"
                       ELSE IF p = Flusher /\ UpTo(l.up_to) = {} THEN "pick" ELSE "sync"
                 /\ local'[p].held = UpTo(l.up_to) /\ local'[p].todo = UpTo(l.up_to)
                 /\ local'[p].need_dir = (p = Flusher \/ ~log_dir_synced)
                 /\ local'[p].up_to = l.up_to /\ local'[p].ok = l.ok
                 /\ local'[p].synced_wals = l.synced_wals /\ local'[p].promise = l.promise
                 /\ local'[p].cfs = l.cfs /\ local'[p].count = l.count
<1>1. pc \in [Threads -> Labels] /\ local \in [Threads -> Locals]
  BY Zenon DEF TypeOK
<1>2. CASE MustWait(l)
  BY <1>1, <1>2, Zenon DEF WaitOrPrepare, Goto, Others
<1>3. CASE ~MustWait(l)
  <2> DEFINE m == [l EXCEPT !.held = UpTo(l.up_to), !.todo = UpTo(l.up_to),
                            !.need_dir = p = Flusher \/ ~log_dir_synced]
  <2>1. local' = [local EXCEPT ![p] = m]
        /\ pc' = [pc EXCEPT ![p] = IF p = Writer THEN "append"
                       ELSE IF p = Flusher /\ UpTo(l.up_to) = {} THEN "pick" ELSE "sync"]
    BY <1>3, Zenon DEF WaitOrPrepare, PrepareLogs, Goto
  <2>2. /\ m.held = UpTo(l.up_to) /\ m.todo = UpTo(l.up_to)
        /\ m.need_dir = (p = Flusher \/ ~log_dir_synced)
        /\ m.up_to = l.up_to /\ m.ok = l.ok
        /\ m.synced_wals = l.synced_wals /\ m.promise = l.promise
        /\ m.cfs = l.cfs /\ m.count = l.count
    BY Zenon DEF Locals
  <2> HIDE DEF m
  <2>3. local'[p] = m
    BY <1>1, <2>1, Zenon
  <2>4. Others(p)
    BY <1>1, <2>1, Zenon DEF Others
  <2>5. pc'[p] = IF p = Writer THEN "append"
                 ELSE IF p = Flusher /\ UpTo(l.up_to) = {} THEN "pick" ELSE "sync"
    BY <1>1, <2>1, Zenon
  <2> QED
    BY <1>3, <2>2, <2>3, <2>4, <2>5, Zenon
<1> QED
  BY <1>2, <1>3, Zenon

(* What the sync of a log does to the thread's locals.                     *)
LEMMA SyncLogEffect ==
    ASSUME TypeOK, NEW p \in Threads, NEW S, local' = [local EXCEPT ![p].todo = @ \ S]
    PROVE  /\ \A q \in Threads \ {p} : local'[q] = local[q]
           /\ local'[p] = [local[p] EXCEPT !.todo = local[p].todo \ S]
           /\ local'[p].todo = local[p].todo \ S
           /\ local'[p].held = local[p].held /\ local'[p].need_dir = local[p].need_dir
           /\ local'[p].up_to = local[p].up_to /\ local'[p].ok = local[p].ok
           /\ local'[p].synced_wals = local[p].synced_wals
           /\ local'[p].promise = local[p].promise
           /\ local'[p].cfs = local[p].cfs /\ local'[p].count = local[p].count
<1> DEFINE m == [local[p] EXCEPT !.todo = local[p].todo \ S]
<1>1. local \in [Threads -> Locals] /\ local[p] \in Locals
  BY Zenon DEF TypeOK
<1>2. /\ m.todo = local[p].todo \ S /\ m.held = local[p].held /\ m.need_dir = local[p].need_dir
      /\ m.up_to = local[p].up_to /\ m.ok = local[p].ok
      /\ m.synced_wals = local[p].synced_wals /\ m.promise = local[p].promise
      /\ m.cfs = local[p].cfs /\ m.count = local[p].count
  BY <1>1, Zenon DEF Locals
<1>3. local' = [local EXCEPT ![p] = m]
  BY <1>1, Zenon
<1>4. local'[p] = m
  BY <1>1, <1>3, Zenon
<1> HIDE DEF m
<1>5. \A q \in Threads \ {p} : local'[q] = local[q]
  BY <1>1, <1>3, Zenon
<1> QED
  BY <1>2, <1>4, <1>5, Zenon DEF m

(* What an I/O error does to the thread's locals.                          *)
LEMMA FailEffect ==
    ASSUME TypeOK, NEW p \in Threads, local' = [local EXCEPT ![p].ok = FALSE]
    PROVE  /\ \A q \in Threads \ {p} : local'[q] = local[q]
           /\ local'[p].ok = FALSE
           /\ local'[p].todo = local[p].todo
           /\ local'[p].held = local[p].held /\ local'[p].need_dir = local[p].need_dir
           /\ local'[p].up_to = local[p].up_to
           /\ local'[p].synced_wals = local[p].synced_wals
           /\ local'[p].promise = local[p].promise
           /\ local'[p].cfs = local[p].cfs /\ local'[p].count = local[p].count
<1>1. local \in [Threads -> Locals] /\ local[p] \in Locals
  BY Zenon DEF TypeOK
<1> DEFINE m == [local[p] EXCEPT !.ok = FALSE]
<1>2. /\ m.ok = FALSE /\ m.todo = local[p].todo /\ m.held = local[p].held
      /\ m.need_dir = local[p].need_dir /\ m.up_to = local[p].up_to
      /\ m.synced_wals = local[p].synced_wals /\ m.promise = local[p].promise
      /\ m.cfs = local[p].cfs /\ m.count = local[p].count
  BY <1>1, Zenon DEF Locals
<1>3. local' = [local EXCEPT ![p] = m]
  BY <1>1, Zenon
<1> HIDE DEF m
<1>4. local'[p] = m /\ \A q \in Threads \ {p} : local'[q] = local[q]
  BY <1>1, <1>3, Zenon
<1> QED
  BY <1>2, <1>4, Zenon

(* What MarkLogsSynced does to the locals of a thread that tracks its      *)
(* logs.                                                                   *)
LEMMA TrackEffect ==
    ASSUME TypeOK, NEW p \in Threads, NEW sizes,
           local' = [local EXCEPT ![p].synced_wals = sizes, ![p].held = {}, ![p].todo = {}]
    PROVE  /\ \A q \in Threads \ {p} : local'[q] = local[q]
           /\ local'[p].synced_wals = sizes /\ local'[p].held = {} /\ local'[p].todo = {}
           /\ local'[p].up_to = local[p].up_to /\ local'[p].ok = local[p].ok
           /\ local'[p].need_dir = local[p].need_dir
           /\ local'[p].promise = local[p].promise
           /\ local'[p].cfs = local[p].cfs /\ local'[p].count = local[p].count
<1>1. local \in [Threads -> Locals] /\ local[p] \in Locals
  BY Zenon DEF TypeOK
<1> DEFINE m == [local[p] EXCEPT !.synced_wals = sizes, !.held = {}, !.todo = {}]
<1>2. /\ m.synced_wals = sizes /\ m.held = {} /\ m.todo = {}
      /\ m.up_to = local[p].up_to /\ m.ok = local[p].ok
      /\ m.need_dir = local[p].need_dir /\ m.promise = local[p].promise
      /\ m.cfs = local[p].cfs /\ m.count = local[p].count
  BY <1>1, Zenon DEF Locals
<1>3. local' = [local EXCEPT ![p] = m]
  BY <1>1, Zenon
<1> HIDE DEF m
<1>4. local'[p] = m /\ \A q \in Threads \ {p} : local'[q] = local[q]
  BY <1>1, <1>3, Zenon
<1> QED
  BY <1>2, <1>4, Zenon

(* What the return of a sync does to the thread.                           *)
LEMMA FinishEffect ==
    ASSUME TypeOK, NEW p \in Threads, Finish(p)
    PROVE  /\ Others(p)
           /\ pc'[p] = IF p # Flusher THEN "idle" ELSE IF local[p].ok THEN "pick" ELSE "failed"
           /\ local'[p].held = {} /\ local'[p].todo = {} /\ local'[p].up_to = 0
           /\ local'[p].need_dir = FALSE /\ local'[p].ok = TRUE
           /\ local'[p].synced_wals = NoSizes /\ local'[p].promise = NoSizes
           /\ p = Flusher => local'[p].cfs = local[p].cfs /\ local'[p].count = local[p].count
<1>1. local \in [Threads -> Locals] /\ pc \in [Threads -> Labels]
  BY Zenon DEF TypeOK
<1> DEFINE m == IF p # Flusher THEN NoLocal
                ELSE [NoLocal EXCEPT !.cfs = local[p].cfs, !.count = local[p].count]
<1>2. /\ m.held = {} /\ m.todo = {} /\ m.up_to = 0 /\ m.need_dir = FALSE /\ m.ok = TRUE
      /\ m.synced_wals = NoSizes /\ m.promise = NoSizes
      /\ p = Flusher => m.cfs = local[p].cfs /\ m.count = local[p].count
  BY Zenon DEF NoLocal
<1>3. local' = [local EXCEPT ![p] = m]
  BY Zenon DEF Finish
<1> HIDE DEF m
<1>4. local'[p] = m /\ \A q \in Threads \ {p} : local'[q] = local[q]
  BY <1>1, <1>3, Zenon
<1>5. /\ \A q \in Threads \ {p} : pc'[q] = pc[q]
      /\ pc'[p] = IF p # Flusher THEN "idle" ELSE IF local[p].ok THEN "pick" ELSE "failed"
  BY <1>1, Zenon DEF Finish, Goto
<1> QED
  BY <1>2, <1>4, <1>5, Zenon DEF Others

(* The numbers among the variables.                                        *)
LEMMA Numbers ==
    ASSUME TypeOK
    PROVE  /\ min_log_number_to_keep \in Nat /\ logfile_number \in Nat /\ buffered \in Nat
           /\ logs \subseteq Nat /\ logs \subseteq Logs /\ Logs \subseteq Nat
           /\ \A n \in Logs : /\ flushed[n] \in Nat /\ synced[n] \in Nat
                              /\ pre_sync_size[n] \in Nat /\ acked[n] \in Nat
           /\ \A p \in Threads : /\ local[p].up_to \in Nat
                                 /\ \A n \in Logs : local[p].promise[n] \in Nat
                                 /\ local[p].held \subseteq Logs
<1>1. /\ min_log_number_to_keep \in Nat /\ logfile_number \in Nat /\ buffered \in Nat
      /\ logs \subseteq Nat /\ logs \subseteq Logs /\ Logs \subseteq Nat
  BY DEF TypeOK, Logs
<1>2. \A n \in Logs : /\ flushed[n] \in Nat /\ synced[n] \in Nat
                      /\ pre_sync_size[n] \in Nat /\ acked[n] \in Nat
  BY Zenon DEF TypeOK, Sizes
<1>3. \A p \in Threads : /\ local[p].up_to \in Nat /\ local[p].promise \in Sizes
                         /\ local[p].held \subseteq Logs
  BY Zenon DEF TypeOK, Locals
<1> QED
  BY <1>1, <1>2, <1>3, Zenon DEF Sizes

(* What every step only increases: the smallest log to keep, the current   *)
(* log, and what would survive a crash.                                    *)
Monotone ==
    /\ min_log_number_to_keep <= min_log_number_to_keep'
    /\ logfile_number <= logfile_number'
    /\ linked \subseteq linked'
    /\ \A n \in Logs : synced[n] <= synced'[n] /\ flushed[n] <= flushed'[n]

(* The current log grows; the records in its buffer count.                 *)
CurrentGrows ==
    /\ logfile_number' = logfile_number
    /\ \A n \in Logs : /\ flushed[n] <= flushed'[n]
                       /\ n # logfile_number => flushed'[n] = flushed[n]
    /\ flushed[logfile_number] + buffered <= flushed'[logfile_number] + buffered'

(* A record makes the current log longer by one, buffer included.          *)
LEMMA AddRecordEffect ==
    ASSUME TypeOK, AddRecord, logfile_number' = logfile_number
    PROVE  /\ CurrentGrows
           /\ flushed'[logfile_number] + buffered' = flushed[logfile_number] + buffered + 1
<1>1. logfile_number \in Logs /\ flushed \in [Logs -> Nat] /\ buffered \in Nat
  BY Zenon DEF TypeOK, Sizes
<1>2. CASE manual_wal_flush
  BY <1>1, <1>2 DEF AddRecord, CurrentGrows
<1>3. CASE ~manual_wal_flush
  BY <1>1, <1>3 DEF AddRecord, CurrentGrows
<1> QED
  BY <1>2, <1>3, Zenon

(* Writing the buffer to the file loses no record.                         *)
LEMMA FlushBufferEffect ==
    ASSUME TypeOK, logfile_number' = logfile_number,
           \/ flushed' = [flushed EXCEPT ![logfile_number] = @ + buffered] /\ buffered' = 0
           \/ flushed' = flushed /\ buffered' = buffered
    PROVE  CurrentGrows
<1>1. logfile_number \in Logs /\ flushed \in [Logs -> Nat] /\ buffered \in Nat
  BY Zenon DEF TypeOK, Sizes
<1>2. CASE flushed' = [flushed EXCEPT ![logfile_number] = @ + buffered] /\ buffered' = 0
  BY <1>1, <1>2 DEF CurrentGrows
<1>3. CASE flushed' = flushed /\ buffered' = buffered
  BY <1>1, <1>3 DEF CurrentGrows
<1> QED
  BY <1>2, <1>3, Zenon

(* A thread that takes no part in the protocol on logs_, or that goes on   *)
(* syncing the logs it holds.                                              *)
Still(p) ==
    /\ Others(p)
    /\ local'[p].held = local[p].held /\ local'[p].todo \subseteq local[p].todo
    /\ InSync(p)' = InSync(p)
    /\ pc'[p] \in SyncLabels => pc[p] \in SyncLabels /\ local'[p].up_to = local[p].up_to

(* A step of a thread that is still keeps the protocol.                    *)
LEMMA ProtocolKept ==
    ASSUME TypeOK, TypeOK', Protocol, NEW p \in Threads, Still(p),
           UNCHANGED <<logfile_number, logs, getting_synced, pre_sync_size>>,
           logfile_number \in alive_log_files',
           \A n \in Logs : flushed[n] <= flushed'[n]
    PROVE  Protocol'
<1>1. \A q \in Threads : local'[q].held = local[q].held
  BY Zenon DEF Still, Others
<1>2. \A n \in Logs : pre_sync_size'[n] <= flushed'[n]
  BY DEF Protocol, TypeOK, Sizes
<1>3. \A k : UpTo(k)' = UpTo(k)
  BY Zenon DEF UpTo
<1>4. ASSUME NEW q \in Threads PROVE SyncerOK(q)'
  <2>1. SyncerOK(q)
    BY Zenon DEF Protocol
  <2>2. CASE q # p
    <3>1. pc'[q] = pc[q] /\ local'[q] = local[q]
      BY <2>2, Zenon DEF Still, Others
    <3> QED
      BY <2>1, <3>1, Zenon DEF SyncerOK, InSync, UpTo
  <2>3. CASE q = p
    <3>1. /\ local'[q].held = local[q].held /\ local'[q].todo \subseteq local[q].todo
          /\ InSync(q)' = InSync(q)
          /\ pc'[q] \in SyncLabels => pc[q] \in SyncLabels /\ local'[q].up_to = local[q].up_to
      BY <2>3, Zenon DEF Still
    <3>2. InSync(q) => pc'[q] \in SyncLabels
      BY <3>1, Zenon DEF InSync, SyncLabels
    <3> QED
      BY <1>3, <2>1, <3>1, <3>2, Zenon DEF SyncerOK
  <2> QED
    BY <2>2, <2>3, Zenon
<1> QED
  BY <1>1, <1>2, <1>4, Zenon DEF Protocol

(* PrepareForSync keeps the protocol: a thread that does not have to wait  *)
(* finds no log getting_synced at all.                                     *)
LEMMA PrepareProtocol ==
    ASSUME LeastExists, TypeOK, Places, TypeOK', Protocol, NEW p \in Threads \ Purgers, NEW l \in Locals,
           StartsSync(p, l), WaitOrPrepare(p, l)
    PROVE  Protocol'
<1>a. NoLocal.held = {} /\ NoLocal.todo = {}
  BY Zenon DEF NoLocal
<1>b. logfile_number \in Nat /\ logs \subseteq Nat /\ logfile_number - 1 <= logfile_number /\ local[p] \in Locals
  BY DEF TypeOK, Logs
<1>0. pc[p] \in {"idle", "closed", "prepare"} /\ ~InSync(p) /\ SyncerOK(p)
  BY Zenon DEF StartsSync, InSync, Protocol
<1>1. l.held = {} /\ l.todo = {} /\ l.up_to <= logfile_number /\ local[p].held = {}
  <2>1. local[p].held = {} /\ local[p].todo = {} /\ (pc[p] = "prepare" => local[p].up_to <= logfile_number)
    BY <1>0, Zenon DEF SyncerOK, SyncLabels
  <2>2. CASE l = [NoLocal EXCEPT !.up_to = logfile_number, !.promise = flushed]
    BY <1>a, <1>b, <2>1, <2>2 DEF NoLocal
  <2>3. CASE l = [local[p] EXCEPT !.up_to = logfile_number - 1]
    BY <1>b, <2>1, <2>3, Zenon DEF Locals
  <2>4. CASE \E C : l = [NoLocal EXCEPT !.up_to = logfile_number, !.cfs = C]
    BY <1>a, <1>b, <2>1, <2>4 DEF NoLocal
  <2>5. CASE pc[p] = "prepare" /\ l = local[p]
    BY <2>1, <2>5, Zenon
  <2> QED
    BY <2>2, <2>3, <2>4, <2>5, Zenon DEF StartsSync
<1>2. UNCHANGED <<logfile_number, logs, alive_log_files, flushed>>
  BY Zenon DEF WaitOrPrepare, fileVars
<1>3. CASE MustWait(l)
  <2>1. Others(p) /\ pc'[p] = "prepare" /\ local'[p] = l
    BY <1>3, PrepareEffect, Zenon
  <2>2. UNCHANGED <<getting_synced, pre_sync_size>>
    BY <1>3, Zenon DEF WaitOrPrepare
  <2>3. \A q \in Threads : local'[q].held = local[q].held
    BY <1>1, <2>1, Zenon DEF Others
  <2>4. ASSUME NEW q \in Threads PROVE SyncerOK(q)'
    <3>1. CASE q # p
      <4>1. pc'[q] = pc[q] /\ local'[q] = local[q] /\ SyncerOK(q)
        BY <2>1, <3>1, Zenon DEF Others, Protocol
      <4> QED
        BY <1>2, <2>2, <4>1, Zenon DEF SyncerOK, InSync, UpTo
    <3>2. CASE q = p
      BY <1>1, <1>2, <2>1, <3>2, Zenon DEF SyncerOK, InSync
    <3> QED
      BY <3>1, <3>2, Zenon
  <2> QED
    BY <1>2, <2>2, <2>3, <2>4, Zenon DEF Protocol
<1>4. CASE ~MustWait(l)
  <2> DEFINE H == UpTo(l.up_to)
  <2>1. /\ Others(p) /\ pc'[p] \in {"append", "pick", "sync"} /\ (pc'[p] = "pick" => H = {})
        /\ local'[p].held = H /\ local'[p].todo = H /\ local'[p].up_to = l.up_to
    BY <1>4, PrepareEffect, Zenon
  <2>2. /\ getting_synced' = [n \in Logs |-> n \in H \/ getting_synced[n]]
        /\ pre_sync_size' = [n \in Logs |-> IF n \in H THEN flushed[n] ELSE pre_sync_size[n]]
    BY <1>4, Zenon DEF WaitOrPrepare, PrepareLogs
  <2>3. H \subseteq logs /\ H \subseteq Logs
    BY Zenon DEF UpTo, TypeOK
  <2>4. \A q \in Threads \ {p} : H = {} \/ local[q].held = {}
    <3> SUFFICES ASSUME NEW q \in Threads \ {p}, NEW h \in H, NEW n \in local[q].held PROVE FALSE
      BY Zenon
    <3>1. local[q].held = UpTo(local[q].up_to) /\ \A m \in local[q].held : getting_synced[m]
      BY Zenon DEF Protocol, SyncerOK
    <3>2. Front \in logs /\ \A m \in logs : Front <= m
      BY <1>b, <2>3, Zenon DEF Front, LeastExists
    <3>3. local[q].up_to \in Nat /\ l.up_to \in Nat /\ Front \in Nat /\ n \in Nat /\ h \in Nat
      BY <1>b, <2>3, <3>1, <3>2, Zenon DEF TypeOK, Locals, UpTo
    <3>4. Front <= l.up_to
      BY <3>2, <3>3 DEF UpTo
    <3>5. Front \in UpTo(local[q].up_to)
      BY <3>1, <3>2, <3>3 DEF UpTo
    <3> QED
      BY <1>4, <3>1, <3>4, <3>5, Zenon DEF MustWait
  <2> HIDE DEF H
  <2>5. \A q \in Threads \ {p} : pc'[q] = pc[q] /\ local'[q] = local[q]
    BY <2>1, Zenon DEF Others
  <2>6. \A n \in Logs : getting_synced'[n] => \E q \in Threads : n \in local'[q].held
    <3> SUFFICES ASSUME NEW n \in Logs, getting_synced'[n], n \notin H
                 PROVE  \E q \in Threads : n \in local'[q].held
      BY <2>1, Zenon
    <3>1. PICK q \in Threads : n \in local[q].held
      BY <2>2, Zenon DEF Protocol
    <3> QED
      BY <1>1, <2>5, <3>1, Zenon
  <2>7. \A n \in Logs : pre_sync_size'[n] <= flushed'[n]
    BY <1>2, <2>2 DEF Protocol, TypeOK, Sizes
  <2>8. ASSUME NEW q \in Threads PROVE SyncerOK(q)'
    <3>1. CASE q # p
      <4>1. pc'[q] = pc[q] /\ local'[q] = local[q] /\ SyncerOK(q) /\ local[q].held \subseteq Logs
        BY <2>5, <3>1, Zenon DEF Protocol, TypeOK, Locals
      <4>2. \A n \in local[q].held : getting_synced'[n]
        BY <2>2, <4>1, Zenon DEF SyncerOK
      <4> QED
        BY <1>2, <4>1, <4>2, Zenon DEF SyncerOK, InSync, UpTo
    <3>2. CASE q = p
      <4>1. UpTo(local[p].up_to)' = H
        BY <1>2, <2>1, Zenon DEF UpTo, H
      <4>2. local'[p].up_to <= logfile_number'
        BY <1>1, <1>2, <2>1, Zenon
      <4>3. ~InSync(p)' => H = {}
        BY <2>1, Zenon DEF InSync
      <4>4. \A n \in H : getting_synced'[n]
        BY <2>2, <2>3, Zenon
      <4> QED
        BY <2>1, <3>2, <4>1, <4>2, <4>3, <4>4, Zenon DEF SyncerOK
    <3> QED
      BY <3>1, <3>2
  <2>9. \A q, r \in Threads : q # r => local'[q].held = {} \/ local'[r].held = {}
    BY <2>1, <2>4, <2>5 DEF Protocol
  <2> QED
    BY <1>2, <2>6, <2>7, <2>8, <2>9, Zenon DEF Protocol
<1> QED
  BY <1>3, <1>4, Zenon

(* The end of a sync, whether it succeeded (then the logs in `full' go) or *)
(* not.                                                                    *)
LEMMA MarkProtocol ==
    ASSUME TypeOK, TypeOK', Protocol, NEW p \in Threads, pc[p] = "mark",
           NEW full \in SUBSET UpTo(local[p].up_to), logfile_number \notin full,
           logs' = logs \ full,
           getting_synced' = [n \in Logs |-> getting_synced[n] /\ n \notin UpTo(local[p].up_to)],
           \A n \in Logs : pre_sync_size'[n] \in {0, pre_sync_size[n]},
           UNCHANGED <<logfile_number, alive_log_files, flushed>>,
           Others(p), local'[p].held = {}, local'[p].todo = {}, ~InSync(p)',
           pc'[p] \in SyncLabels => local'[p].up_to = local[p].up_to
    PROVE  Protocol'
<1> DEFINE H == UpTo(local[p].up_to)
<1>1. SyncerOK(p) /\ local[p].held = H /\ H \subseteq logs /\ local[p].up_to <= logfile_number
  BY Zenon DEF Protocol, SyncerOK, InSync, SyncLabels, UpTo
<1>2. \A q \in Threads \ {p} : pc'[q] = pc[q] /\ local'[q] = local[q] /\ SyncerOK(q)
  BY Zenon DEF Others, Protocol
<1>3. \A q \in Threads \ {p} : local[q].held \cap H = {}
  BY <1>1 DEF Protocol
<1>4. \A n \in Logs : getting_synced'[n] => \E q \in Threads : n \in local'[q].held
  <2> SUFFICES ASSUME NEW n \in Logs, getting_synced'[n] PROVE \E q \in Threads : n \in local'[q].held
    BY Zenon
  <2>1. getting_synced[n] /\ n \notin H
    BY Zenon
  <2>2. PICK q \in Threads : n \in local[q].held
    BY <2>1, Zenon DEF Protocol
  <2> QED
    BY <1>1, <1>2, <2>1, <2>2
<1>5. \A n \in Logs : pre_sync_size'[n] <= flushed'[n]
  BY DEF Protocol, TypeOK, Sizes
<1>6. ASSUME NEW q \in Threads PROVE SyncerOK(q)'
  <2>1. CASE q = p
    BY <1>1, <2>1, Zenon DEF SyncerOK
  <2>2. CASE q # p
    <3>1. pc'[q] = pc[q] /\ local'[q] = local[q] /\ SyncerOK(q) /\ local[q].held \cap H = {}
          /\ local[q].held \subseteq Logs
      BY <1>2, <1>3, <2>2, Zenon DEF TypeOK, Locals
    <3>2. \A n \in local[q].held : getting_synced'[n]
      BY <3>1, Zenon DEF SyncerOK
    <3>3. InSync(q) => local[q].held = UpTo(local[q].up_to)'
      BY <3>1, Zenon DEF SyncerOK, UpTo
    <3> QED
      BY <3>1, <3>2, <3>3, Zenon DEF SyncerOK, InSync, UpTo
  <2> QED
    BY <2>1, <2>2, Zenon
<1>7. \A q, r \in Threads : q # r => local'[q].held = {} \/ local'[r].held = {}
  BY <1>2, Zenon DEF Protocol
<1>8. /\ \A n \in logs' : n <= logfile_number'
      /\ logfile_number' \in logs' /\ logfile_number' \in alive_log_files'
  BY Zenon DEF Protocol
<1> QED
  BY <1>4, <1>5, <1>6, <1>7, <1>8, Zenon DEF Protocol

(* AddRecord only adds to the log.                                         *)
LEMMA AddRecordGrows ==
    ASSUME TypeOK, AddRecord
    PROVE  \A n \in Logs : flushed[n] <= flushed'[n]
<1>1. \A n \in Logs : flushed[n] \in Nat
  BY Zenon DEF TypeOK, Sizes
<1> QED
  BY <1>1 DEF AddRecord, TypeOK, Sizes

(* At first nothing is syncing.                                            *)
LEMMA InitProtocol == Init => Protocol
<1> SUFFICES ASSUME Init PROVE Protocol
  BY Zenon
<1>1. \A p \in Threads : pc[p] = "idle" /\ local[p].held = {} /\ local[p].todo = {}
  BY Zenon DEF Init, NoLocal
<1>2. \A p \in Threads : SyncerOK(p)
  BY <1>1, Zenon DEF SyncerOK, InSync, SyncLabels
<1> QED
  BY <1>1, <1>2 DEF Init, Protocol, NoSizes

(* Every step keeps the second layer.                                      *)
LEMMA StepProtocol ==
    /\ LeastExists /\ TypeOK /\ Places /\ FlushJob /\ Kept /\ Protocol /\ [Next]_vars /\ TypeOK'
    => Protocol'
<1> SUFFICES ASSUME LeastExists, TypeOK, Places, FlushJob, Kept, Protocol, [Next]_vars, TypeOK' PROVE Protocol'
  BY Zenon
<1>a. /\ Writer \in Threads \ Purgers /\ Flusher \in Threads \ Purgers /\ Writer # Flusher
      /\ Purgers \subseteq Threads
      /\ local \in [Threads -> Locals] /\ pc \in [Threads -> Labels]
  BY WalAssumption, Zenon DEF Threads, TypeOK
<1>b. \A n \in Logs : flushed[n] \in Nat
  BY Zenon DEF TypeOK, Sizes
<1>c. logfile_number \in alive_log_files /\ \A p \in Threads : SyncerOK(p)
  BY Zenon DEF Protocol
<1>d. NoLocal.held = {} /\ NoLocal.todo = {}
  BY Zenon DEF NoLocal
<1>e. logfile_number \in Nat /\ min_log_number_to_keep \in Nat /\ min_log_number_to_keep <= logfile_number
  <2>1. PICK c : c \in Families
    <3>1. setup.families \in (SUBSET CFs) \ {{}}
      BY WalAssumption, Zenon DEF TypeOK
    <3> QED
      BY <3>1, Zenon DEF Families
  <2> QED
    BY <2>1 DEF Kept, MemtablesInOrder, TypeOK, ColumnFamilies, Logs
<1>f. ASSUME NEW p \in Threads, Others(p), ~InSync(p), ~InSync(p)', pc'[p] \notin SyncLabels,
             local'[p].held = {}, local'[p].todo = {}
      PROVE  Still(p)
  <2>1. local[p].held = {} /\ InSync(p)' = InSync(p)
    BY <1>c, <1>f DEF SyncerOK, InSync
  <2> QED
    BY <1>f, <2>1, Zenon DEF Still
<1>1. CASE \/ \E p \in setup.syncers : SyncWAL(p)
           \/ SyncClosedLogs
           \/ \E C \in setup.sync_batches : WriteSync(C)
           \/ \E p \in Threads : PrepareForSync(p)
  BY <1>1, PrepareCases, PrepareProtocol, Zenon
<1>2. ASSUME NEW p \in setup.syncers, FlushWAL(p) PROVE Protocol'
  <2>1. UNCHANGED <<logfile_number, logs, getting_synced, pre_sync_size, alive_log_files, pc, local>>
    BY <1>2, Zenon DEF FlushWAL, logVars
  <2>2. \A n \in Logs : flushed[n] <= flushed'[n]
    <3>1. flushed' = flushed \/ flushed' = [flushed EXCEPT ![logfile_number] = @ + buffered]
      BY <1>2, Zenon DEF FlushWAL
    <3> QED
      BY <1>b, <3>1 DEF TypeOK, Sizes
  <2>3. Still(Writer)
    BY <2>1, Zenon DEF Still, Others, InSync
  <2> QED
    BY <1>a, <1>c, <2>1, <2>2, <2>3, ProtocolKept, Zenon
<1>3. ASSUME NEW C, Write(C) PROVE Protocol'
  <2>1. UNCHANGED <<logfile_number, logs, getting_synced, pre_sync_size, alive_log_files, pc, local>>
    BY <1>3, Zenon DEF Write
  <2>2. \A n \in Logs : flushed[n] <= flushed'[n]
    BY <1>3, <1>b, AddRecordGrows, Zenon DEF Write
  <2>3. Still(Writer)
    BY <2>1, Zenon DEF Still, Others, InSync
  <2> QED
    BY <1>a, <1>c, <2>1, <2>2, <2>3, ProtocolKept, Zenon
<1>4. CASE (\E c \in Families : SwitchKeepsLog(c)) \/ SwitchFails \/ UNCHANGED vars
  <2>1. UNCHANGED <<logfile_number, logs, getting_synced, pre_sync_size, alive_log_files, flushed, pc, local>>
    BY <1>4, Zenon DEF SwitchKeepsLog, SwitchFails, vars, logVars, fileVars
  <2>2. Still(Writer)
    BY <2>1, Zenon DEF Still, Others, InSync
  <2> QED
    BY <1>a, <1>b, <1>c, <2>1, <2>2, ProtocolKept
<1>5. ASSUME NEW c \in Families, SwitchMemtable(c) PROVE Protocol'
  <2>1. /\ logfile_number' = logfile_number + 1 /\ logs' = logs \cup {logfile_number'}
        /\ alive_log_files' = alive_log_files \cup {logfile_number'}
        /\ UNCHANGED <<getting_synced, pre_sync_size>>
        /\ Others(Writer) /\ pc[Writer] = "idle"
    BY <1>5, <1>a, Zenon DEF SwitchMemtable, Others, Goto
  <2>2. \/ pc'[Writer] = "delete_wals" /\ local'[Writer].held = {} /\ local'[Writer].todo = {}
        \/ pc'[Writer] = pc[Writer] /\ local'[Writer] = local[Writer]
    BY <1>5, <1>a, Zenon DEF SwitchMemtable, Goto, NoLocal
  <2>3. \A n \in Logs : flushed[n] <= flushed'[n]
    BY <1>5, <1>b DEF SwitchMemtable, TypeOK
  <2>4. local[Writer].held = {} /\ local[Writer].todo = {} /\ ~InSync(Writer)
    BY <1>a, <1>c, <2>1, Zenon DEF SyncerOK, InSync
  <2>5. local'[Writer].held = {} /\ local'[Writer].todo = {} /\ pc'[Writer] \notin SyncLabels
        /\ ~InSync(Writer)'
    BY <2>1, <2>2, <2>4, Zenon DEF SyncLabels, InSync
  <2>6. ASSUME NEW q \in Threads PROVE SyncerOK(q)'
    <3>1. CASE q = Writer
      BY <2>5, <3>1, Zenon DEF SyncerOK
    <3>2. CASE q # Writer
      <4>1. pc'[q] = pc[q] /\ local'[q] = local[q] /\ SyncerOK(q) /\ local[q].up_to \in Nat
        BY <1>c, <2>1, <3>2, Zenon DEF Others, TypeOK, Locals
      <4>2. InSync(q) => UpTo(local[q].up_to)' = UpTo(local[q].up_to)
        BY <1>e, <2>1, <4>1 DEF SyncerOK, InSync, SyncLabels, UpTo
      <4>3. pc[q] \in SyncLabels => local[q].up_to <= logfile_number'
        BY <1>e, <2>1, <4>1 DEF SyncerOK
      <4> QED
        BY <2>1, <4>1, <4>2, <4>3, Zenon DEF SyncerOK, InSync
    <3> QED
      BY <3>1, <3>2, Zenon
  <2>7. \A q \in Threads : local'[q].held = local[q].held
    BY <2>1, <2>4, <2>5, Zenon DEF Others
  <2>8. \A n \in Logs : pre_sync_size'[n] <= flushed'[n]
    BY <2>1, <2>3 DEF Protocol, TypeOK, Sizes
  <2>9. \A n \in logs' : n <= logfile_number'
    BY <1>e, <2>1 DEF Protocol, TypeOK, Logs
  <2> QED
    BY <2>1, <2>6, <2>7, <2>8, <2>9, Zenon DEF Protocol
<1>6. ASSUME NEW c \in Families, FlushBegin(c) PROVE Protocol'
  <2>1. /\ UNCHANGED <<logfile_number, logs, getting_synced, pre_sync_size, alive_log_files, flushed>>
        /\ Others(Flusher) /\ pc[Flusher] = "idle" /\ pc'[Flusher] \in {"closed", "pick"}
        /\ local'[Flusher].held = {} /\ local'[Flusher].todo = {}
    BY <1>6, <1>a, Zenon DEF FlushBegin, Goto, Others, logVars, fileVars, NoLocal
  <2>2. Still(Flusher)
    BY <1>a, <1>f, <2>1, Zenon DEF InSync, SyncLabels
  <2> QED
    BY <1>a, <1>b, <1>c, <2>1, <2>2, ProtocolKept
<1>7. ASSUME NEW c \in Families, FlushPick(c) \/ FlushCompute(c) PROVE Protocol'
  <2>1. /\ UNCHANGED <<logfile_number, logs, getting_synced, pre_sync_size, alive_log_files, flushed>>
        /\ Others(Flusher) /\ pc[Flusher] \in {"pick", "compute"}
        /\ pc'[Flusher] \in {"compute", "install"}
        /\ local'[Flusher].held = local[Flusher].held /\ local'[Flusher].todo = local[Flusher].todo
    BY <1>7, <1>a DEF FlushPick, FlushCompute, Goto, Others, logVars, fileVars, Locals
  <2>2. local[Flusher].held = {} /\ local[Flusher].todo = {}
    BY <1>a, <1>c, <2>1, Zenon DEF SyncerOK, InSync
  <2>3. Still(Flusher)
    BY <1>a, <1>f, <2>1, <2>2, Zenon DEF InSync, SyncLabels
  <2> QED
    BY <1>a, <1>b, <1>c, <2>1, <2>3, ProtocolKept
<1>8. CASE FlushFails \/ \E c \in Families : FlushInstall(c)
  <2>1. /\ UNCHANGED <<logfile_number, logs, getting_synced, pre_sync_size, alive_log_files, flushed>>
        /\ Others(Flusher) /\ pc[Flusher] \in {"failed", "install"} /\ pc'[Flusher] = "idle"
        /\ local'[Flusher] = NoLocal
    BY <1>8, <1>a, Zenon DEF FlushFails, FlushInstall, Goto, Forget, Others, logVars, fileVars
  <2>2. Still(Flusher)
    BY <1>a, <1>d, <1>f, <2>1, Zenon DEF InSync, SyncLabels
  <2> QED
    BY <1>a, <1>b, <1>c, <2>1, <2>2, ProtocolKept
<1>9. CASE SwitchDeletesWals
  <2>1. /\ UNCHANGED <<logfile_number, logs, getting_synced, pre_sync_size, alive_log_files, flushed>>
        /\ Others(Writer) /\ pc[Writer] = "delete_wals" /\ pc'[Writer] = "idle"
        /\ local'[Writer] = NoLocal
    BY <1>9, <1>a, Zenon DEF SwitchDeletesWals, Goto, Forget, Others, logVars, fileVars
  <2>2. Still(Writer)
    BY <1>a, <1>d, <1>f, <2>1, Zenon DEF InSync, SyncLabels
  <2> QED
    BY <1>a, <1>b, <1>c, <2>1, <2>2, ProtocolKept
<1>10. ASSUME NEW p \in Purgers, FindObsoleteFiles(p) PROVE Protocol'
  <2>1. /\ UNCHANGED <<logfile_number, logs, getting_synced, pre_sync_size, flushed>>
        /\ alive_log_files' = alive_log_files \ {n \in alive_log_files : n < min_log_number_to_keep}
        /\ Others(p) /\ pc[p] = "idle" /\ pc'[p] = "pop"
        /\ local'[p].held = {} /\ local'[p].todo = {}
    BY <1>10, <1>a, Zenon DEF FindObsoleteFiles, Goto, Others, fileVars, NoLocal
  <2>2. Still(p)
    BY <1>a, <1>f, <2>1, Zenon DEF InSync, SyncLabels
  <2>3. logfile_number \in alive_log_files'
    BY <1>c, <1>e, <2>1
  <2> QED
    BY <1>a, <1>b, <2>1, <2>2, <2>3, ProtocolKept
<1>11. ASSUME NEW p \in Purgers, DeleteFile(p) PROVE Protocol'
  <2>1. /\ UNCHANGED <<logfile_number, logs, getting_synced, pre_sync_size, alive_log_files, flushed>>
        /\ Others(p) /\ pc[p] = "delete" /\ pc'[p] \in {"delete", "idle"}
    BY <1>11, <1>a, Zenon DEF DeleteFile, Goto, Forget, Others, logVars
  <2>2. local[p].held = {} /\ local[p].todo = {}
    BY <1>a, <1>c, <2>1, Zenon DEF SyncerOK, InSync
  <2>3. local'[p].held = {} /\ local'[p].todo = {}
    BY <1>11, <1>a, <1>d, <2>2 DEF DeleteFile, Forget, Locals
  <2>4. Still(p)
    BY <1>a, <1>f, <2>1, <2>3, Zenon DEF InSync, SyncLabels
  <2> QED
    BY <1>a, <1>b, <1>c, <2>1, <2>4, ProtocolKept
<1>12. ASSUME NEW p \in Purgers, PopLogs(p) PROVE Protocol'
  <2> DEFINE gone == Poppable(UpTo(local[p].min_log - 1))
  <2>1. /\ UNCHANGED <<logfile_number, getting_synced, alive_log_files, flushed>>
        /\ logs' = logs \ gone /\ Others(p) /\ pc[p] = "pop" /\ pc'[p] \in {"pop", "delete", "idle"}
        /\ local'[p] \in {local[p], NoLocal}
    BY <1>12, <1>a, Zenon DEF PopLogs, Goto, Forget, Others, fileVars
  <2>2. \A n \in Logs : pre_sync_size'[n] \in {0, pre_sync_size[n]}
    BY <1>12, Zenon DEF PopLogs
  <2>3. \A n \in gone : ~getting_synced[n] /\ n < logfile_number
    <3> SUFFICES ASSUME NEW n \in gone PROVE ~getting_synced[n] /\ n < logfile_number
      BY Zenon
    <3>1. n \in UpTo(local[p].min_log - 1) /\ \A m \in UpTo(n) : ~getting_synced[m]
      BY Zenon DEF Poppable
    <3>2. n \in Nat /\ n \in logs /\ local[p].min_log \in Nat /\ local[p].min_log <= min_log_number_to_keep
      <4>1. n \in logs /\ logs \subseteq Nat
        BY <3>1 DEF UpTo, TypeOK, Logs
      <4>2. local[p].min_log \in Nat
        BY <1>a, Zenon DEF Locals
      <4>3. local[p].min_log <= min_log_number_to_keep
        BY Zenon DEF Kept, PurgeKnows
      <4> QED
        BY <4>1, <4>2, <4>3, Zenon
    <3> QED
      BY <1>e, <3>1, <3>2 DEF UpTo
  <2> HIDE DEF gone
  <2>4. local[p].held = {} /\ local[p].todo = {} /\ local'[p].held = {} /\ local'[p].todo = {}
    BY <1>a, <1>c, <1>d, <2>1, Zenon DEF SyncerOK, InSync
  <2>5. \A q \in Threads : local'[q].held = local[q].held
    BY <2>1, <2>4, Zenon DEF Others
  <2>6. ASSUME NEW q \in Threads PROVE SyncerOK(q)'
    <3>1. CASE q = p
      BY <2>1, <2>4, <3>1, Zenon DEF SyncerOK, InSync, SyncLabels
    <3>2. CASE q # p
      <4>1. pc'[q] = pc[q] /\ local'[q] = local[q] /\ SyncerOK(q)
        BY <1>c, <2>1, <3>2, Zenon DEF Others
      <4>2. InSync(q) => UpTo(local[q].up_to)' = UpTo(local[q].up_to)
        BY <2>1, <2>3, <4>1, Zenon DEF SyncerOK, UpTo
      <4> QED
        BY <2>1, <4>1, <4>2, Zenon DEF SyncerOK, InSync
    <3> QED
      BY <3>1, <3>2, Zenon
  <2>7. \A n \in Logs : pre_sync_size'[n] <= flushed'[n]
    BY <1>b, <2>1, <2>2 DEF Protocol
  <2>8. /\ \A n \in logs' : n <= logfile_number'
        /\ logfile_number' \in logs'
        /\ logfile_number' \in alive_log_files'
    BY <1>c, <1>e, <2>1, <2>3 DEF Protocol
  <2>9. \A n \in Logs : getting_synced'[n] => \E q \in Threads : n \in local'[q].held
    BY <2>1, <2>5, Zenon DEF Protocol
  <2>10. \A q, r \in Threads : q # r => local'[q].held = {} \/ local'[r].held = {}
    BY <2>5, Zenon DEF Protocol
  <2> QED
    BY <2>6, <2>7, <2>8, <2>9, <2>10, Zenon DEF Protocol
<1>13. ASSUME NEW p \in Threads, SyncLog(p) PROVE Protocol'
  <2>1. PICK S : local' = [local EXCEPT ![p].todo = @ \ S]
    BY <1>13, Zenon DEF SyncLog
  <2>2. UNCHANGED <<logfile_number, logs, getting_synced, pre_sync_size, alive_log_files, pc>>
    BY <1>13, Zenon DEF SyncLog, logVars
  <2>3. \A n \in Logs : flushed[n] <= flushed'[n]
    BY <1>13, <1>b DEF SyncLog, TypeOK
  <2>4. Still(p)
    BY <2>1, <2>2, SyncLogEffect DEF Still, Others, InSync
  <2> QED
    BY <1>c, <2>2, <2>3, <2>4, ProtocolKept, Zenon
<1>14. ASSUME NEW p \in Threads, SyncDir(p) \/ SyncFails(p) PROVE Protocol'
  <2>1. /\ UNCHANGED <<logfile_number, logs, getting_synced, pre_sync_size, alive_log_files, flushed>>
        /\ pc[p] = "sync" /\ pc'[p] = "mark" /\ \A q \in Threads \ {p} : pc'[q] = pc[q]
        /\ local' \in {local, [local EXCEPT ![p].ok = FALSE]}
    BY <1>14, <1>a, Zenon DEF SyncDir, SyncFails, Goto, logVars, fileVars
  <2>2. /\ \A q \in Threads \ {p} : local'[q] = local[q]
        /\ local'[p].todo = local[p].todo /\ local'[p].held = local[p].held
        /\ local'[p].up_to = local[p].up_to
    <3>1. CASE local' = local
      BY <3>1, Zenon
    <3>2. CASE local' = [local EXCEPT ![p].ok = FALSE]
      BY <3>2, FailEffect, Zenon
    <3> QED
      BY <2>1, <3>1, <3>2, Zenon
  <2>3. Still(p)
    BY <2>1, <2>2 DEF Still, Others, InSync, SyncLabels
  <2> QED
    BY <1>b, <1>c, <2>1, <2>3, ProtocolKept
<1>15. ASSUME NEW p \in Threads, MarkLogsSynced(p) PROVE Protocol'
  <2> DEFINE full == {n \in {m \in UpTo(local[p].up_to) : m < logfile_number} : FullySynced(n)}
  <2>1. /\ pc[p] = "mark" /\ logs' = logs \ full
        /\ getting_synced' = [n \in Logs |-> getting_synced[n] /\ n \notin UpTo(local[p].up_to)]
        /\ \A n \in Logs : pre_sync_size'[n] \in {0, pre_sync_size[n]}
        /\ UNCHANGED <<logfile_number, alive_log_files, flushed>>
    BY <1>15, Zenon DEF MarkLogsSynced, fileVars
  <2>2. full \in SUBSET UpTo(local[p].up_to) /\ logfile_number \notin full
    BY <1>e
  <2> HIDE DEF full
  <2>3. /\ Others(p) /\ local'[p].held = {} /\ local'[p].todo = {} /\ ~InSync(p)'
        /\ pc'[p] \in SyncLabels => local'[p].up_to = local[p].up_to
    <3>1. CASE Finish(p)
      BY <3>1, FinishEffect, Zenon DEF InSync, SyncLabels
    <3>2. CASE ~Finish(p)
      <4>1. PICK sizes : local' = [local EXCEPT ![p].synced_wals = sizes, ![p].held = {}, ![p].todo = {}]
        BY <1>15, <3>2, Zenon DEF MarkLogsSynced
      <4>2. pc'[p] = "apply" /\ \A q \in Threads \ {p} : pc'[q] = pc[q]
        BY <1>15, <1>a, <3>2, Zenon DEF MarkLogsSynced, Goto
      <4> QED
        BY <4>1, <4>2, TrackEffect, Zenon DEF Others, InSync
    <3> QED
      BY <3>1, <3>2, Zenon
  <2> QED
    BY <2>1, <2>2, <2>3, MarkProtocol, Zenon
<1>16. ASSUME NEW p \in Threads, MarkLogsNotSynced(p) PROVE Protocol'
  <2>1. /\ pc[p] = "mark" /\ logs' = logs \ {}
        /\ getting_synced' = [n \in Logs |-> getting_synced[n] /\ n \notin UpTo(local[p].up_to)]
        /\ UNCHANGED <<logfile_number, alive_log_files, flushed, pre_sync_size>> /\ Finish(p)
    BY <1>16, Zenon DEF MarkLogsNotSynced, fileVars
  <2>2. /\ Others(p) /\ local'[p].held = {} /\ local'[p].todo = {} /\ ~InSync(p)'
        /\ pc'[p] \in SyncLabels => local'[p].up_to = local[p].up_to
    BY <2>1, FinishEffect, Zenon DEF InSync, SyncLabels
  <2>3. {} \in SUBSET UpTo(local[p].up_to) /\ logfile_number \notin {}
        /\ \A n \in Logs : pre_sync_size'[n] \in {0, pre_sync_size[n]}
    BY <2>1, Zenon
  <2> QED
    BY <2>1, <2>2, <2>3, MarkProtocol, Zenon
<1>17. ASSUME NEW p \in Threads, ApplyWALToManifest(p) PROVE Protocol'
  <2>1. /\ UNCHANGED <<logfile_number, logs, getting_synced, pre_sync_size, alive_log_files, flushed>>
        /\ pc[p] = "apply" /\ Finish(p)
    BY <1>17, Zenon DEF ApplyWALToManifest, logVars, fileVars
  <2>2. Still(p)
    BY <1>f, <2>1, FinishEffect, Zenon DEF InSync, SyncLabels
  <2> QED
    BY <1>b, <1>c, <2>1, <2>2, ProtocolKept
<1>18. CASE WriteToWAL
  <2>1. /\ UNCHANGED <<logfile_number, logs, getting_synced, pre_sync_size, alive_log_files>>
        /\ Others(Writer) /\ pc[Writer] = "append" /\ pc'[Writer] = "sync"
    BY <1>18, <1>a, Zenon DEF WriteToWAL, Goto, Others
  <2>2. /\ local'[Writer].held = local[Writer].held /\ local'[Writer].todo = local[Writer].todo
        /\ local'[Writer].up_to = local[Writer].up_to
    BY <1>18, <1>a, Zenon DEF WriteToWAL, Locals
  <2>3. \A n \in Logs : flushed[n] <= flushed'[n]
    BY <1>18, <1>b, AddRecordGrows, Zenon DEF WriteToWAL
  <2>4. Still(Writer)
    BY <2>1, <2>2 DEF Still, InSync, SyncLabels
  <2> QED
    BY <1>a, <1>c, <2>1, <2>3, <2>4, ProtocolKept, Zenon
<1>19. CASE WriteToWALFails
  <2>1. /\ UNCHANGED <<logfile_number, logs, getting_synced, pre_sync_size, alive_log_files, flushed>>
        /\ pc[Writer] = "append" /\ pc'[Writer] = "mark"
        /\ \A q \in Threads \ {Writer} : pc'[q] = pc[q]
        /\ local' = [local EXCEPT ![Writer].ok = FALSE]
    BY <1>19, <1>a, Zenon DEF WriteToWALFails, Goto, logVars, fileVars
  <2>2. Still(Writer)
    BY <1>a, <2>1, FailEffect DEF Still, Others, InSync, SyncLabels
  <2> QED
    BY <1>a, <1>b, <1>c, <2>1, <2>2, ProtocolKept
<1> QED
  BY <1>1, <1>2, <1>3, <1>4, <1>5, <1>6, <1>7, <1>8, <1>9, <1>10, <1>11, <1>12,
     <1>13, <1>14, <1>15, <1>16, <1>17, <1>18, <1>19, Zenon
     DEF Next, Calls, Syncing, WriterStep, FlushStep, PurgeStep

(* The second layer gives SyncProtocol.                                    *)
LEMMA ProtocolSuffices == TypeOK /\ Protocol => SyncProtocol
<1> SUFFICES ASSUME TypeOK, Protocol PROVE SyncProtocol
  BY Zenon
<1>1. ASSUME NEW m \in logs, NEW n \in logs, m < n, getting_synced[n] PROVE getting_synced[m]
  <2>1. PICK p \in Threads : n \in local[p].held
    BY <1>1, Zenon DEF Protocol, TypeOK
  <2>2. local[p].held = UpTo(local[p].up_to) /\ \A k \in local[p].held : getting_synced[k]
    BY <2>1, Zenon DEF Protocol, SyncerOK
  <2>3. m \in Nat /\ n \in Nat /\ local[p].up_to \in Nat
    BY DEF TypeOK, Logs, Locals
  <2>4. m \in UpTo(local[p].up_to)
    BY <1>1, <2>1, <2>2, <2>3 DEF UpTo
  <2> QED
    BY <2>2, <2>4, Zenon
<1>2. ASSUME NEW p \in Threads, Holding(p)
      PROVE  /\ local[p].held = UpTo(local[p].up_to)
             /\ \A n \in local[p].held : getting_synced[n]
             /\ \A q \in Threads \ {p} : local[p].held \cap local[q].held = {}
  BY <1>2, Zenon DEF Holding, Protocol, SyncerOK
<1>3. \A n \in logs : pre_sync_size[n] <= flushed[n]
  BY Zenon DEF Protocol, TypeOK
<1>4. logfile_number \in logs \cap alive_log_files
  BY Zenon DEF Protocol
<1> QED
  BY <1>1, <1>2, <1>3, <1>4, Zenon DEF SyncProtocol
=============================================================================
