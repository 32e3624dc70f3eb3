-------------------------- MODULE WalDurableProofs --------------------------
(***************************************************************************)
(* The third layer of the invariants of WalFiles: what the three ways to   *)
(* sync promise is durable.                                                *)
(***************************************************************************)
EXTENDS WalSyncProofs

(* A step that pops no needed log from logs_ keeps FilesOK.                *)
LEMMA FilesKept ==
    ASSUME TypeOK, TypeOK', Protocol, FilesOK, Monotone, logfile_number' = logfile_number,
           log_dir_synced' => log_dir_synced,
           \A n \in logs \ logs' : ~Needed(n)',
           \A n \in Logs : /\ n # logfile_number => flushed'[n] = flushed[n]
                           /\ synced'[n] <= flushed'[n]
    PROVE  FilesOK'
<1>1. \A n \in Logs : Needed(n)' => Needed(n)
  BY Numbers DEF Needed, Monotone, TypeOK
<1>2. \A n \in Logs : n > logfile_number' => flushed'[n] = 0
  BY Numbers DEF FilesOK
<1>3. log_dir_synced' => Linked(logfile_number)'
  BY <1>1, Zenon DEF FilesOK, Linked, Monotone
<1>4. ASSUME NEW n \in Logs, Needed(n)', n \notin logs'
      PROVE  n \in linked' /\ synced'[n] = flushed'[n]
  <2>1. Needed(n) /\ n \notin logs /\ n # logfile_number
    BY <1>1, <1>4, Zenon DEF Protocol
  <2>2. n \in linked /\ synced[n] = flushed[n] /\ flushed'[n] = flushed[n]
    BY <2>1, Zenon DEF FilesOK
  <2>3. synced[n] <= synced'[n] /\ synced'[n] <= flushed'[n] /\ n \in linked'
    BY <2>2, Zenon DEF Monotone
  <2>4. synced[n] \in Nat /\ synced'[n] \in Nat
    BY Numbers, Zenon DEF TypeOK, Sizes
  <2> QED
    BY <2>2, <2>3, <2>4
<1> QED
  BY <1>2, <1>3, <1>4, Zenon DEF FilesOK

(* What a thread has synced stays synced while others run.                 *)
LEMMA KnowsKept ==
    ASSUME TypeOK, TypeOK', NEW q \in Threads, SyncerOK(q), SyncKnows(q), Monotone,
           pc'[q] = pc[q], local'[q] = local[q],
           \A n \in local[q].held : pre_sync_size'[n] <= pre_sync_size[n]
    PROVE  SyncKnows(q)'
<1>a. /\ min_log_number_to_keep' \in Nat /\ \A n \in Logs : synced'[n] \in Nat /\ pre_sync_size'[n] \in Nat
  BY Zenon DEF TypeOK, Sizes
<1>1. ASSUME pc[q] \in SyncLabels, NEW n \in Logs, Needed(n)', n <= local[q].up_to
      PROVE  Needed(n)
  BY <1>1, <1>a, Numbers DEF SyncerOK, Needed, Monotone
<1>2. ASSUME pc[q] \in SyncLabels, Linked(local[q].up_to) PROVE Linked(local[q].up_to)'
  BY <1>1, <1>2, Zenon DEF Linked, Monotone
<1>3. pc[q] \in {"append", "sync"} /\ ~local[q].need_dir => Linked(local[q].up_to)'
  BY <1>2, Zenon DEF SyncKnows, SyncLabels
<1>4. Clean(q)' = Clean(q)
  BY Zenon DEF Clean
<1>5. Clean(q) => Linked(local[q].up_to)' /\ local[q].todo = {}
  BY <1>2, Zenon DEF SyncKnows, SyncLabels, Clean
<1>6. ASSUME pc[q] = "sync" \/ Clean(q), NEW n \in local[q].held \ local[q].todo
      PROVE  pre_sync_size'[n] <= synced'[n]
  <2>1. n \in Logs /\ pre_sync_size[n] <= synced[n] /\ pre_sync_size'[n] <= pre_sync_size[n]
        /\ synced[n] <= synced'[n]
    BY <1>6, Numbers, Zenon DEF SyncKnows, Monotone
  <2> QED
    BY <1>a, <2>1, Numbers
<1>7. ASSUME pc[q] = "sync" \/ Clean(q), NEW n \in Logs, Needed(n)', n <= local[q].up_to,
             n \notin local[q].todo
      PROVE  local[q].promise[n] <= synced'[n]
  <2>1. Needed(n)
    BY <1>1, <1>7, Zenon DEF Clean, SyncLabels
  <2>2. local[q].promise[n] <= synced[n] /\ synced[n] <= synced'[n]
    BY <1>7, <2>1, Zenon DEF SyncKnows, Monotone
  <2> QED
    BY <1>a, <2>2, Numbers
<1> QED
  BY <1>3, <1>4, <1>5, <1>6, <1>7, Zenon DEF SyncKnows

(* A promise stays one about written records while others run.             *)
LEMMA PromiseKept ==
    ASSUME TypeOK, TypeOK', NEW q \in Threads, PromiseOK(q), Monotone,
           pc'[q] = pc[q], local'[q] = local[q],
           q = Writer => /\ logfile_number' = logfile_number
                         /\ flushed[logfile_number] + buffered <= flushed'[logfile_number] + buffered'
    PROVE  PromiseOK(q)'
<1>a. /\ logfile_number \in Logs /\ buffered' \in Nat /\ \A n \in Logs : flushed'[n] \in Nat
  BY Zenon DEF TypeOK, Sizes
<1>1. q \in Syncers => \A n \in Logs : local[q].promise[n] <= flushed'[n]
  <2> SUFFICES ASSUME q \in Syncers, NEW n \in Logs PROVE local[q].promise[n] <= flushed'[n]
    BY Zenon
  <2>1. local[q].promise[n] <= flushed[n] /\ flushed[n] <= flushed'[n]
    BY Zenon DEF PromiseOK, Monotone
  <2> QED
    BY <1>a, <2>1, Numbers
<1>2. ASSUME q = Writer, NEW n \in Logs
      PROVE  local[q].promise[n] <= flushed'[n] + (IF n = logfile_number' THEN buffered' ELSE 0)
  <2>1. local[q].promise[n] <= flushed[n] + (IF n = logfile_number THEN buffered ELSE 0)
    BY <1>2, Zenon DEF PromiseOK
  <2>2. flushed[n] <= flushed'[n]
    BY Zenon DEF Monotone
  <2>3. local[q].promise[n] \in Nat /\ flushed[n] \in Nat /\ flushed'[n] \in Nat
        /\ buffered \in Nat /\ buffered' \in Nat
    BY <1>a, Numbers, Zenon
  <2>4. CASE n = logfile_number
    BY <1>2, <2>1, <2>2, <2>3, <2>4
  <2>5. CASE n # logfile_number
    BY <1>2, <2>1, <2>2, <2>3, <2>5
  <2> QED
    BY <2>4, <2>5, Zenon
<1> QED
  BY <1>1, <1>2, Zenon DEF PromiseOK

(* What was acknowledged stays durable.                                    *)
LEMMA AckedKept ==
    ASSUME TypeOK, TypeOK', AckedOK, Monotone, acked' = acked
    PROVE  AckedOK'
<1> SUFFICES ASSUME NEW n \in Logs, min_log_number_to_keep' <= n, acked[n] > 0
             PROVE  n <= logfile_number' /\ n \in linked' /\ acked[n] <= synced'[n]
  BY Zenon DEF AckedOK
<1>1. min_log_number_to_keep' \in Nat /\ synced'[n] \in Nat /\ logfile_number' \in Nat
  BY DEF TypeOK, Sizes, Logs
<1>2. min_log_number_to_keep <= n
  BY <1>1, Numbers DEF Monotone
<1> QED
  BY <1>1, <1>2, Numbers DEF AckedOK, Monotone

(* A step of thread p keeps the third layer if it does for p and the       *)
(* files.                                                                  *)
LEMMA DurableStep ==
    ASSUME TypeOK, TypeOK', Protocol, Durable, Monotone, NEW p \in Threads, Others(p),
           FilesOK', AckedOK', SyncKnows(p)', PromiseOK(p)',
           \A q \in Threads \ {p} : \A n \in local[q].held : pre_sync_size'[n] <= pre_sync_size[n],
           p # Writer => /\ logfile_number' = logfile_number
                         /\ flushed[logfile_number] + buffered <= flushed'[logfile_number] + buffered'
    PROVE  Durable'
<1> SUFFICES ASSUME NEW q \in Threads \ {p} PROVE SyncKnows(q)' /\ PromiseOK(q)'
  BY Zenon DEF Durable
<1>1. pc'[q] = pc[q] /\ local'[q] = local[q] /\ SyncerOK(q) /\ SyncKnows(q) /\ PromiseOK(q)
  BY Zenon DEF Others, Protocol, Durable
<1>2. q = Writer => p # Writer
  BY Zenon
<1> QED
  BY <1>1, <1>2, KnowsKept, PromiseKept, Zenon

(* ... which is so for a step outside the three ways to sync.              *)
LEMMA DurableIdle ==
    ASSUME TypeOK, TypeOK', Protocol, Durable, NEW p \in Threads, Others(p),
           UNCHANGED <<logfile_number, log_dir_synced, acked, synced, linked, flushed, buffered>>,
           min_log_number_to_keep <= min_log_number_to_keep',
           \A n \in logs \ logs' : ~Needed(n)',
           \A n \in Logs : pre_sync_size'[n] <= pre_sync_size[n],
           pc'[p] \notin SyncLabels,
           \/ local'[p].promise = NoSizes
           \/ p # Writer /\ local'[p].promise = local[p].promise /\ local'[p].up_to = local[p].up_to
    PROVE  Durable'
<1>1. Monotone
  BY Numbers DEF Monotone
<1>2. FilesOK'
  <2>1. \A n \in Logs : synced'[n] <= flushed'[n]
    BY Zenon DEF Durable, FilesOK
  <2> QED
    BY <1>1, <2>1, FilesKept, Zenon DEF Durable
<1>3. AckedOK'
  BY <1>1, AckedKept, Zenon DEF Durable
<1>4. SyncKnows(p)'
  BY Zenon DEF SyncKnows, Clean, SyncLabels
<1>5. PromiseOK(p)'
  <2>1. CASE local'[p].promise = NoSizes
    <3>1. \A n \in Logs : local'[p].promise[n] = 0 /\ flushed'[n] \in Nat
      BY <2>1, Zenon DEF NoSizes, TypeOK, Sizes
    <3>2. buffered' \in Nat
      BY Zenon DEF TypeOK
    <3>3. \A n \in Logs : 0 <= flushed'[n] + (IF n = logfile_number' THEN buffered' ELSE 0)
      BY <3>1, <3>2
    <3> QED
      BY <2>1, <3>1, <3>3 DEF PromiseOK, SyncLabels
  <2>2. CASE p # Writer /\ local'[p].promise = local[p].promise /\ local'[p].up_to = local[p].up_to
    BY <2>2, Zenon DEF Durable, PromiseOK
  <2> QED
    BY <2>1, <2>2, Zenon
<1>6. \A q \in Threads \ {p} : \A n \in local[q].held : pre_sync_size'[n] <= pre_sync_size[n]
  BY Numbers, Zenon
<1>7. flushed[logfile_number] + buffered <= flushed'[logfile_number] + buffered'
  BY Numbers DEF TypeOK
<1> QED
  BY <1>1, <1>2, <1>3, <1>4, <1>5, <1>6, <1>7, DurableStep, Zenon

(* At first nothing is promised.                                           *)
LEMMA InitDurable == Init => Durable
<1> SUFFICES ASSUME Init PROVE Durable
  BY Zenon
<1>a. 1 \in Logs /\ \A n \in Logs : NoSizes[n] = 0 /\ n \in Nat
  BY WalAssumption DEF NoSizes, Logs
<1>1. \A p \in Threads : pc[p] = "idle" /\ local[p].promise = NoSizes /\ local[p].up_to = 0
  BY Zenon DEF Init, NoLocal
<1>2. FilesOK
  <2>1. \A n \in Logs : synced[n] = 0 /\ flushed[n] = 0
    BY <1>a, Zenon DEF Init
  <2>2. \A n \in Logs : Needed(n) => n \in logs
    BY <1>a DEF Init, Needed
  <2> QED
    BY <2>1, <2>2 DEF FilesOK, Init
<1>3. AckedOK
  BY <1>a DEF AckedOK, Init
<1>4. ASSUME NEW p \in Threads PROVE SyncKnows(p) /\ PromiseOK(p)
  <2>1. SyncKnows(p)
    BY <1>1, Zenon DEF SyncKnows, Clean
  <2>2. flushed = NoSizes /\ buffered = 0
    BY Zenon DEF Init
  <2>3. PromiseOK(p)
    BY <1>1, <1>a, <2>2 DEF PromiseOK
  <2> QED
    BY <2>1, <2>3, Zenon
<1> QED
  BY <1>2, <1>3, <1>4, Zenon DEF Durable

(* PrepareForSync keeps the third layer: a log up to up_to that is not in  *)
(* logs_ was synced by whoever popped it.                                  *)
LEMMA PrepareDurable ==
    ASSUME TypeOK, Places, TypeOK', Protocol, Protocol', Durable,
           NEW p \in Threads \ Purgers, NEW l \in Locals,
           StartsSync(p, l), WaitOrPrepare(p, l)
    PROVE  Durable'
<1>a. /\ UNCHANGED <<logfile_number, log_dir_synced, logs, min_log_number_to_keep, acked,
                     synced, linked, flushed, buffered>>
  BY Zenon DEF WaitOrPrepare, fileVars, versionVars, fixedVars
<1>b. SyncKnows(p) /\ PromiseOK(p) /\ SyncerOK(p) /\ local[p] \in Locals /\ FilesOK
  BY Zenon DEF Durable, Protocol, TypeOK
<1>c. Writer \notin Syncers /\ Flusher \notin Syncers /\ Writer # Flusher
  BY WalAssumption, Zenon
<1>d. \A n \in Logs : NoSizes[n] = 0
  BY Zenon DEF NoSizes
<1>1. Monotone
  BY <1>a, Numbers DEF Monotone
<1>2. FilesOK'
  BY <1>a, <1>b, Zenon DEF FilesOK, Linked, Needed
<1>3. AckedOK'
  BY <1>1, <1>a, AckedKept, Zenon DEF Durable
<1>4. Others(p) /\ local'[p].promise = l.promise /\ local'[p].up_to = l.up_to
  BY PrepareEffect, Zenon
<1>5. /\ l.up_to <= logfile_number
      /\ \A n \in Logs : n > l.up_to => l.promise[n] = 0
      /\ p \in Syncers => \A n \in Logs : l.promise[n] <= flushed[n]
      /\ p = Flusher => l.promise = NoSizes
      /\ p = Writer => l.up_to = logfile_number /\ \A n \in Logs : l.promise[n] <=
             flushed[n] + (IF n = logfile_number THEN buffered ELSE 0)
  <2>1. CASE p \in Syncers /\ l = [NoLocal EXCEPT !.up_to = logfile_number, !.promise = flushed]
    <3>1. l.up_to = logfile_number /\ l.promise = flushed
      BY <2>1, Zenon DEF NoLocal
    <3> QED
      BY <1>b, <1>c, <2>1, <3>1, Numbers DEF FilesOK
  <2>2. CASE p = Flusher /\ pc[p] = "closed" /\ l = [local[p] EXCEPT !.up_to = logfile_number - 1]
    <3>1. l.up_to = logfile_number - 1 /\ l.promise = local[p].promise
      BY <1>b, <2>2, Zenon DEF Locals
    <3>2. l.promise = NoSizes
      BY <1>b, <2>2, <3>1, Zenon DEF PromiseOK
    <3> QED
      BY <1>c, <1>d, <2>2, <3>1, <3>2, Numbers
  <2>3. CASE p = Writer /\ \E C : l = [NoLocal EXCEPT !.up_to = logfile_number, !.cfs = C]
    <3>1. l.up_to = logfile_number /\ l.promise = NoSizes
      BY <2>3, Zenon DEF NoLocal
    <3>2. \A n \in Logs : 0 <= flushed[n] + (IF n = logfile_number THEN buffered ELSE 0)
      BY Numbers
    <3> QED
      BY <1>c, <1>d, <2>3, <3>1, <3>2, Numbers
  <2>4. CASE pc[p] = "prepare" /\ l = local[p]
    BY <1>b, <2>4, Zenon DEF PromiseOK, SyncerOK, SyncLabels
  <2> QED
    BY <2>1, <2>2, <2>3, <2>4, Zenon DEF StartsSync
<1>6. pc'[p] \in {"prepare", "append", "pick", "sync"} /\ (p = Writer => pc'[p] \in {"prepare", "append"})
  BY PrepareEffect, Zenon
<1>7. PromiseOK(p)'
  BY <1>4, <1>5, <1>6, <1>a, Zenon DEF PromiseOK
<1>8. SyncKnows(p)'
  <2>1. CASE MustWait(l)
    <3>1. pc'[p] = "prepare"
      BY <2>1, PrepareEffect, Zenon
    <3> QED
      BY <3>1, Zenon DEF SyncKnows, Clean
  <2>2. CASE ~MustWait(l)
    <3> DEFINE H == UpTo(l.up_to)
    <3>1. local'[p].held = H /\ local'[p].todo = H /\ local'[p].need_dir = (p = Flusher \/ ~log_dir_synced)
      BY <2>2, PrepareEffect, Zenon
    <3>2. ~local'[p].need_dir => Linked(local[p].up_to)'
      <4> SUFFICES ASSUME log_dir_synced PROVE Linked(local[p].up_to)'
        BY <3>1, Zenon
      <4>1. Linked(logfile_number)
        BY <1>b, Zenon DEF FilesOK
      <4> QED
        BY <1>4, <1>5, <1>a, <4>1, Numbers, Zenon DEF Linked, Needed
    <3>3. ASSUME pc'[p] = "sync", NEW n \in Logs, Needed(n)', n <= l.up_to, n \notin H
          PROVE  l.promise[n] <= synced'[n]
      <4>1. n \notin logs /\ Needed(n)
        BY <1>a, <3>3, Zenon DEF UpTo, Needed
      <4>2. synced[n] = flushed[n] /\ p # Writer
        BY <1>6, <1>b, <3>3, <4>1, Zenon DEF FilesOK
      <4>3. p \in Syncers \/ p = Flusher
        BY <4>2, Zenon DEF Threads
      <4> QED
        BY <1>5, <1>a, <1>d, <4>2, <4>3, Numbers
    <3>4. ~Clean(p)' /\ pc'[p] # "apply"
      BY <1>6, Zenon DEF Clean
    <3> HIDE DEF H
    <3> QED
      BY <1>4, <3>1, <3>2, <3>3, <3>4, Zenon DEF SyncKnows
  <2> QED
    BY <2>1, <2>2, Zenon
<1>9. ASSUME NEW q \in Threads \ {p}, NEW n \in local[q].held PROVE pre_sync_size'[n] <= pre_sync_size[n]
  <2>1. n \in Logs /\ pre_sync_size[n] \in Nat
    BY <1>9, Numbers, Zenon
  <2>2. CASE MustWait(l)
    BY <2>1, <2>2 DEF WaitOrPrepare
  <2>3. CASE ~MustWait(l)
    <3>1. local'[p].held = UpTo(l.up_to) /\ local'[q].held = local[q].held
      BY <1>4, <1>9, <2>3, PrepareEffect, Zenon DEF Others
    <3>2. n \notin UpTo(l.up_to)
      BY <1>9, <3>1 DEF Protocol
    <3> QED
      BY <2>1, <2>3, <3>2 DEF WaitOrPrepare, PrepareLogs
  <2> QED
    BY <2>2, <2>3, Zenon
<1>10. flushed[logfile_number] + buffered <= flushed'[logfile_number] + buffered'
  BY <1>a, Numbers DEF TypeOK
<1> QED
  BY <1>1, <1>2, <1>3, <1>4, <1>7, <1>8, <1>9, <1>10, <1>a, DurableStep, Zenon

(* A longer log keeps what survives a crash.                               *)
LEMMA GrowsMonotone ==
    ASSUME TypeOK, TypeOK', Protocol, Durable, CurrentGrows,
           UNCHANGED <<log_dir_synced, logs, min_log_number_to_keep, acked, synced, linked>>
    PROVE  Monotone /\ FilesOK' /\ AckedOK'
<1>1. Monotone
  BY Numbers DEF Monotone, CurrentGrows
<1>2. ASSUME NEW n \in Logs PROVE synced'[n] <= flushed'[n]
  <2>1. synced[n] <= flushed[n] /\ flushed[n] <= flushed'[n] /\ flushed'[n] \in Nat
    BY Zenon DEF Durable, FilesOK, CurrentGrows, TypeOK, Sizes
  <2> QED
    BY <2>1, Numbers
<1>3. FilesOK'
  BY <1>1, <1>2, FilesKept, Zenon DEF Durable, CurrentGrows
<1> QED
  BY <1>1, <1>3, AckedKept, Zenon DEF Durable

(* A write without sync, or FlushWAL, keeps the third layer.               *)
LEMMA DurableGrow ==
    ASSUME TypeOK, TypeOK', Protocol, Durable, CurrentGrows,
           UNCHANGED <<log_dir_synced, logs, min_log_number_to_keep, acked, synced, linked,
                       pre_sync_size, pc, local>>
    PROVE  Durable'
<1>1. Monotone /\ FilesOK' /\ AckedOK'
  BY GrowsMonotone, Zenon
<1>2. ASSUME NEW q \in Threads PROVE SyncKnows(q)' /\ PromiseOK(q)'
  <2>1. \A n \in local[q].held : pre_sync_size'[n] <= pre_sync_size[n]
    BY Numbers
  <2> QED
    BY <1>1, <2>1, KnowsKept, PromiseKept, Zenon DEF CurrentGrows, Durable, Protocol
<1> QED
  BY <1>1, <1>2, Zenon DEF Durable

(* The sync of a log keeps the third layer.                                *)
LEMMA SyncLogDurable ==
    ASSUME LeastExists, TypeOK, Places, TypeOK', Protocol, Durable, NEW p \in Threads, SyncLog(p)
    PROVE  Durable'
<1> DEFINE now == IF p = Writer /\ manual_wal_flush THEN local[p].todo ELSE {Least(local[p].todo)}
           flush == p \notin Syncers /\ logfile_number \in now
<1>1. /\ pc[p] = "sync" /\ local[p].todo # {}
      /\ synced' = [n \in Logs |-> IF n \in now THEN flushed'[n] ELSE synced[n]]
      /\ local' = [local EXCEPT ![p].todo = @ \ now]
      /\ UNCHANGED <<logfile_number, log_dir_synced, logs, min_log_number_to_keep, acked, linked,
                     pre_sync_size, pc>>
  BY Zenon DEF SyncLog, logVars, versionVars, fixedVars
<1>2. /\ flush => flushed' = [flushed EXCEPT ![logfile_number] = @ + buffered] /\ buffered' = 0
      /\ ~flush => flushed' = flushed /\ buffered' = buffered
  BY Zenon DEF SyncLog
<1>3. SyncerOK(p) /\ SyncKnows(p) /\ PromiseOK(p) /\ local[p] \in Locals
  BY Zenon DEF Protocol, Durable, TypeOK
<1>4. local[p].held = UpTo(local[p].up_to) /\ local[p].todo \subseteq local[p].held /\ local[p].held \subseteq logs
  BY <1>1, <1>3, Zenon DEF SyncerOK, InSync, UpTo
<1>5. now \subseteq local[p].todo
  BY <1>1, <1>4, Numbers, Zenon DEF LeastExists
<1> HIDE DEF now, flush
<1>6. CurrentGrows
  BY <1>1, <1>2, FlushBufferEffect, Zenon
<1>7. ASSUME NEW n \in Logs
      PROVE  /\ synced[n] <= synced'[n] /\ synced'[n] <= flushed'[n]
             /\ flushed'[n] \in Nat /\ synced'[n] \in Nat /\ flushed[n] <= flushed'[n]
             /\ n \in now => synced'[n] = flushed'[n]
  <2>1. synced[n] <= flushed[n] /\ flushed[n] <= flushed'[n] /\ flushed'[n] \in Nat
    BY <1>6, Zenon DEF Durable, FilesOK, CurrentGrows, TypeOK, Sizes
  <2> QED
    BY <1>1, <2>1, Numbers
<1>8. Monotone
  BY <1>1, <1>7, Numbers DEF Monotone
<1>9. FilesOK'
  BY <1>1, <1>6, <1>7, <1>8, FilesKept, Zenon DEF Durable, CurrentGrows
<1>10. AckedOK'
  BY <1>1, <1>8, AckedKept, Zenon DEF Durable
<1>11. /\ Others(p) /\ local'[p].todo = local[p].todo \ now /\ local'[p].held = local[p].held
       /\ local'[p].need_dir = local[p].need_dir /\ local'[p].up_to = local[p].up_to
       /\ local'[p].ok = local[p].ok /\ local'[p].promise = local[p].promise /\ pc'[p] = "sync"
  BY <1>1, SyncLogEffect, Zenon DEF Others
<1>12. PromiseOK(p)'
  <2>1. \A n \in Logs : n > local'[p].up_to => local'[p].promise[n] = 0
    BY <1>3, <1>11, Zenon DEF PromiseOK
  <2>2. p \in Syncers => \A n \in Logs : local'[p].promise[n] <= flushed'[n]
    <3> SUFFICES ASSUME p \in Syncers, NEW n \in Logs PROVE local'[p].promise[n] <= flushed'[n]
      BY Zenon
    <3>1. local[p].promise[n] <= flushed[n]
      BY <1>3, Zenon DEF PromiseOK
    <3> QED
      BY <1>7, <1>11, <3>1, Numbers
  <2>3. ASSUME p = Writer, NEW n \in Logs
        PROVE  local'[p].promise[n] <= flushed'[n] + (IF n = logfile_number' THEN buffered' ELSE 0)
    <3>1. local[p].promise[n] <= flushed[n] + (IF n = logfile_number THEN buffered ELSE 0)
      BY <1>3, <2>3, Zenon DEF PromiseOK
    <3>2. buffered' \in Nat /\ local[p].promise[n] \in Nat
      BY Numbers, Zenon DEF TypeOK
    <3>3. CASE n = logfile_number
      BY <1>1, <1>6, <1>7, <1>11, <3>1, <3>2, <3>3, Numbers DEF CurrentGrows
    <3>4. CASE n # logfile_number
      BY <1>1, <1>6, <1>7, <1>11, <3>1, <3>2, <3>4, Numbers, Zenon DEF CurrentGrows
    <3> QED
      BY <3>3, <3>4, Zenon
  <2> QED
    BY <1>1, <1>3, <1>11, <2>1, <2>2, <2>3, Zenon DEF PromiseOK
<1>13. SyncKnows(p)'
  <2>1. ~local'[p].need_dir => Linked(local[p].up_to)'
    BY <1>1, <1>3, <1>11, Zenon DEF SyncKnows, Linked, Needed
  <2>2. ASSUME NEW n \in local[p].held \ (local[p].todo \ now) PROVE pre_sync_size'[n] <= synced'[n]
    <3>1. n \in Logs /\ pre_sync_size[n] <= flushed[n] /\ pre_sync_size[n] \in Nat
      BY <1>4, <2>2, Numbers, Zenon DEF Protocol
    <3>2. CASE n \in now
      BY <1>1, <1>7, <3>1, <3>2, Numbers
    <3>3. CASE n \notin now
      <4>1. pre_sync_size[n] <= synced[n]
        BY <1>1, <1>3, <2>2, <3>3, Zenon DEF SyncKnows
      <4> QED
        BY <1>1, <1>7, <3>1, <4>1, Numbers
    <3> QED
      BY <3>2, <3>3, Zenon
  <2>3. ASSUME NEW n \in Logs, Needed(n)', n <= local[p].up_to, n \notin local[p].todo \ now
        PROVE  local[p].promise[n] <= synced'[n]
    <3>1. Needed(n) /\ local[p].promise[n] \in Nat
      BY <1>1, <2>3, Numbers, Zenon DEF Needed
    <3>2. CASE n \in now
      <4>1. synced'[n] = flushed'[n]
        BY <1>7, <3>2, Zenon
      <4>2. p \in Syncers \/ p = Writer \/ p = Flusher
        BY <1>1, Zenon DEF Threads, Places
      <4>3. CASE p \in Syncers
        BY <1>3, <1>7, <3>1, <4>1, <4>3, Numbers DEF PromiseOK
      <4>4. CASE p = Flusher
        BY <1>3, <1>7, <4>1, <4>4 DEF PromiseOK, NoSizes
      <4>5. CASE p = Writer
        <5>1. p \notin Syncers /\ logfile_number \in Logs
          BY <4>5, WalAssumption, Zenon DEF TypeOK
        <5>2. local[p].promise[n] <= flushed[n] + (IF n = logfile_number THEN buffered ELSE 0)
          BY <1>3, <4>5 DEF PromiseOK
        <5>3. CASE n = logfile_number
          <6>1. flushed'[n] = flushed[n] + buffered
            BY <1>2, <3>2, <5>1, <5>3, Zenon DEF flush, TypeOK, Sizes
          <6> QED
            BY <4>1, <5>2, <5>3, <6>1, Zenon
        <5>4. CASE n # logfile_number
          BY <1>7, <3>1, <4>1, <5>2, <5>4, Numbers
        <5> QED
          BY <5>3, <5>4, Zenon
      <4> QED
        BY <4>2, <4>3, <4>4, <4>5, Zenon
    <3>3. CASE n \notin now
      <4>1. local[p].promise[n] <= synced[n]
        BY <1>1, <1>3, <2>3, <3>1, <3>3, Zenon DEF SyncKnows
      <4> QED
        BY <1>7, <3>1, <4>1, Numbers
    <3> QED
      BY <3>2, <3>3, Zenon
  <2>4. ~Clean(p)' /\ pc'[p] \notin {"append", "apply"}
    BY <1>11, Zenon DEF Clean
  <2> QED
    BY <1>11, <2>1, <2>2, <2>3, <2>4, Zenon DEF SyncKnows
<1>14. \A q \in Threads \ {p} : \A n \in local[q].held : pre_sync_size'[n] <= pre_sync_size[n]
  BY <1>1, Numbers
<1> QED
  BY <1>6, <1>8, <1>9, <1>10, <1>11, <1>12, <1>13, <1>14, DurableStep, Zenon DEF CurrentGrows

(* The sync of the directory keeps the third layer.                        *)
LEMMA SyncDirDurable ==
    ASSUME TypeOK, TypeOK', Kept, Protocol, Durable, NEW p \in Threads, SyncDir(p)
    PROVE  Durable'
<1>1. /\ pc[p] = "sync" /\ local[p].todo = {}
      /\ linked' = IF local[p].need_dir THEN linked \cup files ELSE linked
      /\ UNCHANGED <<logfile_number, log_dir_synced, logs, min_log_number_to_keep, acked, synced,
                     flushed, buffered, pre_sync_size, local>>
      /\ pc'[p] = "mark" /\ Others(p)
  BY Zenon DEF SyncDir, logVars, versionVars, fixedVars, Goto, Others, TypeOK
<1>2. SyncKnows(p) /\ PromiseOK(p)
  BY Zenon DEF Durable
<1>3. Monotone
  BY <1>1, Numbers DEF Monotone
<1>4. FilesOK'
  BY <1>1, <1>3, FilesKept, Zenon DEF Durable, FilesOK
<1>5. AckedOK'
  BY <1>1, <1>3, AckedKept, Zenon DEF Durable
<1>6. Linked(local[p].up_to)'
  BY <1>1, <1>2, Zenon DEF Linked, Needed, Kept, SyncKnows
<1>7. SyncKnows(p)'
  BY <1>1, <1>2, <1>6, Zenon DEF SyncKnows, Clean, Needed
<1>8. PromiseOK(p)'
  BY <1>1, <1>2, Zenon DEF PromiseOK
<1>9. /\ \A q \in Threads \ {p} : \A n \in local[q].held : pre_sync_size'[n] <= pre_sync_size[n]
      /\ flushed[logfile_number] + buffered <= flushed'[logfile_number] + buffered'
  BY <1>1, Numbers DEF TypeOK
<1> QED
  BY <1>1, <1>3, <1>4, <1>5, <1>7, <1>8, <1>9, DurableStep, Zenon

(* An I/O error keeps the third layer.                                     *)
LEMMA FailDurable ==
    ASSUME TypeOK, TypeOK', Protocol, Durable, NEW p \in Threads, pc[p] \in {"append", "sync"},
           local' = [local EXCEPT ![p].ok = FALSE], Goto(p, "mark"),
           UNCHANGED <<logfile_number, log_dir_synced, logs, min_log_number_to_keep, acked, synced,
                       linked, flushed, buffered, pre_sync_size>>
    PROVE  Durable'
<1>1. pc'[p] = "mark" /\ local'[p].ok = FALSE /\ local'[p].promise = local[p].promise
      /\ local'[p].up_to = local[p].up_to /\ Others(p)
  BY FailEffect DEF Goto, Others, TypeOK
<1>2. Monotone
  BY Numbers DEF Monotone
<1>3. FilesOK'
  BY <1>2, FilesKept, Zenon DEF Durable, FilesOK
<1>4. AckedOK'
  BY <1>2, AckedKept, Zenon DEF Durable
<1>5. SyncKnows(p)'
  BY <1>1, Zenon DEF SyncKnows, Clean
<1>6. PromiseOK(p)'
  BY <1>1, Zenon DEF PromiseOK, Durable
<1>7. /\ \A q \in Threads \ {p} : \A n \in local[q].held : pre_sync_size'[n] <= pre_sync_size[n]
      /\ flushed[logfile_number] + buffered <= flushed'[logfile_number] + buffered'
  BY Numbers DEF TypeOK
<1> QED
  BY <1>1, <1>2, <1>3, <1>4, <1>5, <1>6, <1>7, DurableStep, Zenon

(* What a call promised is synced and linked when it returns OK.           *)
LEMMA FinishAcked ==
    ASSUME TypeOK, TypeOK', Protocol, Durable, NEW p \in Threads, Finish(p),
           pc[p] \in {"mark", "apply"},
           UNCHANGED <<logfile_number, min_log_number_to_keep, synced, linked>>
    PROVE  AckedOK'
<1>1. CASE acked' = acked
  BY <1>1, Zenon DEF Durable, AckedOK
<1>2. CASE acked' # acked
  <2>1. local[p].ok /\ acked' = [n \in Logs |-> Larger(acked[n], local[p].promise[n])]
    BY <1>2, Zenon DEF Finish
  <2>2. Clean(p) /\ SyncKnows(p) /\ PromiseOK(p) /\ SyncerOK(p)
    BY <2>1, Zenon DEF Clean, Durable, Protocol
  <2> SUFFICES ASSUME NEW n \in Logs, min_log_number_to_keep <= n, acked'[n] > 0
               PROVE  n <= logfile_number /\ n \in linked /\ acked'[n] <= synced[n]
    BY Zenon DEF AckedOK
  <2>3. CASE acked'[n] = acked[n]
    BY <2>3, Zenon DEF Durable, AckedOK
  <2>4. CASE acked'[n] = local[p].promise[n]
    <3>1. n <= local[p].up_to /\ local[p].up_to <= logfile_number
      BY <2>2, <2>4, Numbers DEF PromiseOK, SyncerOK, SyncLabels
    <3>2. Needed(n)
      BY <3>1, Numbers DEF Needed
    <3>3. Linked(local[p].up_to) /\ n \notin local[p].todo
      BY <2>2, Zenon DEF SyncKnows
    <3> QED
      BY <2>2, <2>4, <3>1, <3>2, <3>3, Zenon DEF SyncKnows, Linked, Needed
  <2> QED
    BY <2>1, <2>3, <2>4, Zenon DEF Larger
<1> QED
  BY <1>1, <1>2, Zenon

(* A call that has returned promises nothing more.                         *)
LEMMA FinishKnows ==
    ASSUME TypeOK, TypeOK', NEW p \in Threads, Finish(p)
    PROVE  SyncKnows(p)' /\ PromiseOK(p)'
<1>1. /\ pc'[p] \in {"idle", "pick", "failed"} /\ local'[p].promise = NoSizes
  BY FinishEffect, Zenon
<1>2. SyncKnows(p)'
  BY <1>1, Zenon DEF SyncKnows, Clean
<1>3. \A n \in Logs : local'[p].promise[n] = 0 /\ flushed'[n] \in Nat
  BY <1>1, Zenon DEF NoSizes, TypeOK, Sizes
<1>4. buffered' \in Nat
  BY Zenon DEF TypeOK
<1>5. \A n \in Logs : 0 <= flushed'[n] /\ 0 <= flushed'[n] + (IF n = logfile_number' THEN buffered' ELSE 0)
  BY <1>3, <1>4
<1>6. PromiseOK(p)'
  BY <1>1, <1>3, <1>5, Zenon DEF PromiseOK
<1> QED
  BY <1>2, <1>6, Zenon

(* MarkLogsSynced keeps the third layer: a log it pops from logs_ has not  *)
(* grown since PrepareForSync.                                             *)
LEMMA MarkSyncedDurable ==
    ASSUME TypeOK, TypeOK', Protocol, Durable, NEW p \in Threads, MarkLogsSynced(p)
    PROVE  Durable'
<1> DEFINE full == {n \in {m \in UpTo(local[p].up_to) : m < logfile_number} : FullySynced(n)}
<1>1. /\ pc[p] = "mark" /\ local[p].ok /\ logs' = logs \ full
      /\ log_dir_synced' = (log_dir_synced \/ DirIsSynced(p))
      /\ \A n \in Logs : pre_sync_size'[n] \in {0, pre_sync_size[n]}
      /\ UNCHANGED <<logfile_number, min_log_number_to_keep, synced, linked, flushed, buffered>>
  BY Zenon DEF MarkLogsSynced, fileVars
<1>2. Clean(p) /\ SyncKnows(p) /\ PromiseOK(p) /\ SyncerOK(p)
  BY <1>1, Zenon DEF Clean, Durable, Protocol
<1>3. /\ Linked(local[p].up_to) /\ local[p].todo = {}
      /\ \A n \in UpTo(local[p].up_to) : pre_sync_size[n] <= synced[n]
      /\ \A n \in Logs : Needed(n) /\ n <= local[p].up_to => local[p].promise[n] <= synced[n]
  BY <1>1, <1>2, Zenon DEF SyncKnows, SyncerOK, InSync
<1>4. Monotone
  BY <1>1, Numbers DEF Monotone
<1>5. FilesOK'
  <2>1. /\ \A n \in Logs : synced'[n] <= flushed'[n]
        /\ \A n \in Logs : n > logfile_number' => flushed'[n] = 0
    BY <1>1, Zenon DEF Durable, FilesOK
  <2>2. log_dir_synced' => Linked(logfile_number)'
    BY <1>1, <1>3, Zenon DEF Durable, FilesOK, DirIsSynced, Linked, Needed
  <2>3. ASSUME NEW n \in Logs, Needed(n), n \notin logs' PROVE n \in linked /\ synced[n] = flushed[n]
    <3>1. CASE n \notin logs
      BY <2>3, <3>1, Zenon DEF Durable, FilesOK
    <3>2. CASE n \in full
      <4>1. n \in UpTo(local[p].up_to) /\ pre_sync_size[n] = flushed[n] /\ n <= local[p].up_to
        BY <3>2, Zenon DEF FullySynced, UpTo
      <4>2. pre_sync_size[n] <= synced[n] /\ synced[n] <= flushed[n]
        BY <1>3, <4>1, Zenon DEF Durable, FilesOK
      <4> QED
        BY <1>3, <2>3, <4>1, <4>2, Numbers DEF Linked
    <3> QED
      BY <1>1, <2>3, <3>1, <3>2, Zenon
  <2> QED
    BY <1>1, <2>1, <2>2, <2>3, Zenon DEF FilesOK, Needed
<1>6. /\ \A q \in Threads \ {p} : \A n \in local[q].held : pre_sync_size'[n] <= pre_sync_size[n]
      /\ flushed[logfile_number] + buffered <= flushed'[logfile_number] + buffered'
  BY <1>1, Numbers DEF TypeOK
<1>7. CASE Finish(p)
  BY <1>1, <1>4, <1>5, <1>6, <1>7, FinishAcked, FinishKnows, FinishEffect, DurableStep, Zenon
<1>8. CASE ~Finish(p)
  <2>1. PICK sizes : local' = [local EXCEPT ![p].synced_wals = sizes, ![p].held = {}, ![p].todo = {}]
    BY <1>8, Zenon DEF MarkLogsSynced
  <2>2. pc'[p] = "apply" /\ (\A q \in Threads \ {p} : pc'[q] = pc[q]) /\ acked' = acked
    BY <1>8, Zenon DEF MarkLogsSynced, Goto, TypeOK, fixedVars
  <2>3. /\ Others(p) /\ local'[p].held = {} /\ local'[p].todo = {}
        /\ local'[p].up_to = local[p].up_to /\ local'[p].ok = local[p].ok
        /\ local'[p].promise = local[p].promise
    BY <2>1, <2>2, TrackEffect, Zenon DEF Others
  <2>4. AckedOK'
    BY <1>4, <2>2, AckedKept, Zenon DEF Durable
  <2>5. Linked(local[p].up_to)'
    BY <1>1, <1>3, <2>3, Zenon DEF Linked, Needed
  <2>6. SyncKnows(p)'
    BY <1>1, <1>3, <2>2, <2>3, <2>5, Zenon DEF SyncKnows, Clean, Needed
  <2>7. PromiseOK(p)'
    BY <1>1, <1>2, <2>2, <2>3, Zenon DEF PromiseOK
  <2> QED
    BY <1>1, <1>4, <1>5, <1>6, <2>3, <2>4, <2>6, <2>7, DurableStep, Zenon
<1> QED
  BY <1>7, <1>8, Zenon

(* The return of a call keeps the third layer.                             *)
LEMMA FinishDurable ==
    ASSUME TypeOK, TypeOK', Protocol, Durable, NEW p \in Threads, Finish(p),
           pc[p] \in {"mark", "apply"},
           UNCHANGED <<logfile_number, log_dir_synced, logs, min_log_number_to_keep, synced,
                       linked, flushed, buffered, pre_sync_size>>
    PROVE  Durable'
<1>1. Monotone
  BY Numbers DEF Monotone
<1>2. FilesOK'
  BY <1>1, FilesKept, Zenon DEF Durable, FilesOK
<1>3. /\ \A q \in Threads \ {p} : \A n \in local[q].held : pre_sync_size'[n] <= pre_sync_size[n]
      /\ flushed[logfile_number] + buffered <= flushed'[logfile_number] + buffered'
  BY Numbers DEF TypeOK
<1> QED
  BY <1>1, <1>2, <1>3, FinishAcked, FinishKnows, FinishEffect, DurableStep, Zenon

(* The record of a write with sync keeps the third layer, and is what the  *)
(* write promises.                                                         *)
LEMMA WriteToWALDurable ==
    ASSUME TypeOK, TypeOK', Protocol, Durable, WriteToWAL
    PROVE  Durable'
<1>a. Writer \in Threads /\ Writer \notin Syncers /\ Writer # Flusher /\ local[Writer] \in Locals
  BY WalAssumption, Zenon DEF Threads, TypeOK
<1> DEFINE promise == [flushed EXCEPT ![logfile_number] = @ + buffered + 1]
<1>1. /\ pc[Writer] = "append" /\ pc'[Writer] = "sync" /\ Others(Writer) /\ AddRecord
      /\ UNCHANGED <<logfile_number, log_dir_synced, logs, min_log_number_to_keep, acked, synced,
                     linked, pre_sync_size>>
  BY <1>a, Zenon DEF WriteToWAL, Goto, Others, TypeOK, versionVars, fixedVars
<1>2. local'[Writer] = [local[Writer] EXCEPT !.promise = promise]
  BY <1>a, Zenon DEF WriteToWAL, TypeOK
<1>3. /\ local'[Writer].promise = promise
      /\ local'[Writer].held = local[Writer].held /\ local'[Writer].todo = local[Writer].todo
      /\ local'[Writer].up_to = local[Writer].up_to /\ local'[Writer].need_dir = local[Writer].need_dir
  BY <1>a, <1>2, Zenon DEF Locals
<1>4. CurrentGrows /\ flushed'[logfile_number] + buffered' = flushed[logfile_number] + buffered + 1
  BY <1>1, AddRecordEffect, Zenon
<1>5. Monotone /\ FilesOK' /\ AckedOK'
  BY <1>1, <1>4, GrowsMonotone, Zenon
<1>6. SyncKnows(Writer) /\ PromiseOK(Writer) /\ SyncerOK(Writer)
  BY <1>a, Zenon DEF Durable, Protocol
<1>7. local[Writer].up_to = logfile_number /\ local[Writer].todo = UpTo(logfile_number)
      /\ local[Writer].held = UpTo(logfile_number)
  BY <1>1, <1>6, Zenon DEF PromiseOK, SyncKnows, SyncerOK, InSync
<1>8. /\ logfile_number \in Logs
      /\ \A n \in Logs : promise[n] = IF n = logfile_number THEN flushed[n] + buffered + 1 ELSE flushed[n]
  BY Zenon DEF TypeOK, Sizes
<1> HIDE DEF promise
<1>9. PromiseOK(Writer)'
  <2>1. \A n \in Logs : n > logfile_number => promise[n] = 0
    BY <1>8, Numbers DEF Durable, FilesOK
  <2>2. ASSUME NEW n \in Logs
        PROVE  promise[n] <= flushed'[n] + (IF n = logfile_number' THEN buffered' ELSE 0)
    <3>1. CASE n = logfile_number
      BY <1>1, <1>4, <1>8, <3>1, Numbers
    <3>2. CASE n # logfile_number
      BY <1>1, <1>4, <1>8, <3>2, Numbers DEF CurrentGrows
    <3> QED
      BY <3>1, <3>2, Zenon
  <2> QED
    BY <1>1, <1>3, <1>7, <1>a, <2>1, <2>2, Zenon DEF PromiseOK
<1>10. SyncKnows(Writer)'
  <2>1. ~local'[Writer].need_dir => Linked(local[Writer].up_to)'
    BY <1>1, <1>3, <1>6, Zenon DEF SyncKnows, Linked, Needed
  <2>2. ASSUME NEW n \in Logs, Needed(n), n <= logfile_number, n \notin UpTo(logfile_number)
        PROVE  promise[n] <= synced[n]
    <3>1. n \notin logs /\ n # logfile_number
      BY <2>2, Zenon DEF UpTo, Protocol
    <3>2. synced[n] = flushed[n]
      BY <2>2, <3>1, Zenon DEF Durable, FilesOK
    <3> QED
      BY <1>8, <3>1, <3>2, Numbers
  <2>3. ~Clean(Writer)' /\ pc'[Writer] \notin {"append", "apply"}
    BY <1>1, Zenon DEF Clean
  <2>4. local'[Writer].held \ local'[Writer].todo = {}
    BY <1>3, <1>7, Zenon
  <2>5. ASSUME NEW n \in Logs, Needed(n)', n <= local'[Writer].up_to, n \notin local'[Writer].todo
        PROVE  local'[Writer].promise[n] <= synced'[n]
    BY <1>1, <1>3, <1>7, <2>2, <2>5, Zenon DEF Needed
  <2> QED
    BY <2>1, <2>3, <2>4, <2>5, Zenon DEF SyncKnows
<1>11. \A q \in Threads \ {Writer} : \A n \in local[q].held : pre_sync_size'[n] <= pre_sync_size[n]
  BY <1>1, Numbers
<1> QED
  BY <1>1, <1>5, <1>9, <1>10, <1>11, <1>a, DurableStep, Zenon

(* A new log keeps the third layer: log_dir_synced_ is reset.              *)
LEMMA SwitchDurable ==
    ASSUME TypeOK, TypeOK', Protocol, Durable, NEW c, SwitchMemtable(c)
    PROVE  Durable'
<1>a. Writer \in Threads /\ Writer \notin Syncers /\ Writer # Flusher /\ local[Writer] \in Locals
  BY WalAssumption, Zenon DEF Threads, TypeOK
<1>b. local \in [Threads -> Locals] /\ pc \in [Threads -> Labels]
  BY Zenon DEF TypeOK
<1>1. /\ logfile_number' = logfile_number + 1 /\ logs' = logs \cup {logfile_number'}
      /\ flushed' = [flushed EXCEPT ![logfile_number] = @ + buffered] /\ buffered' = 0
      /\ log_dir_synced' = FALSE /\ pc[Writer] = "idle"
      /\ UNCHANGED <<pre_sync_size, min_log_number_to_keep, acked, synced, linked>>
      /\ Others(Writer)
  BY <1>a, Zenon DEF SwitchMemtable, Others, Goto, TypeOK, fixedVars
<1>2. \/ pc'[Writer] = "delete_wals" /\ local'[Writer].promise = NoSizes
      \/ pc'[Writer] = pc[Writer] /\ local'[Writer] = local[Writer]
  BY <1>a, <1>b, Zenon DEF SwitchMemtable, Goto, NoLocal
<1>3. \A n \in Logs : /\ flushed[n] <= flushed'[n] /\ flushed'[n] \in Nat
                      /\ n # logfile_number => flushed'[n] = flushed[n]
  BY <1>1, Numbers DEF TypeOK, Sizes
<1>4. Monotone
  BY <1>1, <1>3, Numbers DEF Monotone
<1>5. AckedOK'
  BY <1>1, <1>4, AckedKept, Zenon DEF Durable
<1>6. FilesOK'
  <2>1. ASSUME NEW n \in Logs PROVE synced'[n] <= flushed'[n]
    BY <1>1, <1>3, Numbers DEF Durable, FilesOK
  <2>2. \A n \in Logs : n > logfile_number' => flushed'[n] = 0
    BY <1>1, <1>3, Numbers DEF Durable, FilesOK
  <2>3. ASSUME NEW n \in Logs, Needed(n)', n \notin logs' PROVE n \in linked' /\ synced'[n] = flushed'[n]
    <3>1. n \notin logs /\ n # logfile_number /\ n # logfile_number'
      BY <1>1, <2>3, Zenon DEF Protocol
    <3>2. Needed(n)
      BY <1>1, <2>3, <3>1, Numbers DEF Needed
    <3> QED
      BY <1>1, <1>3, <3>1, <3>2, Zenon DEF Durable, FilesOK
  <2> QED
    BY <1>1, <2>1, <2>2, <2>3, Zenon DEF FilesOK
<1>7. local'[Writer].promise = NoSizes /\ pc'[Writer] \in {"idle", "delete_wals"}
  BY <1>1, <1>2, <1>a, Zenon DEF Durable, PromiseOK
<1>8. SyncKnows(Writer)'
  BY <1>7, Zenon DEF SyncKnows, Clean
<1>9. PromiseOK(Writer)'
  <2>1. \A n \in Logs : local'[Writer].promise[n] = 0
    BY <1>7, Zenon DEF NoSizes
  <2>2. \A n \in Logs : 0 <= flushed'[n] + (IF n = logfile_number' THEN buffered' ELSE 0)
    BY <1>1, <1>3
  <2> QED
    BY <1>7, <1>a, <2>1, <2>2, Zenon DEF PromiseOK
<1>10. \A q \in Threads \ {Writer} : \A n \in local[q].held : pre_sync_size'[n] <= pre_sync_size[n]
  BY <1>1, Numbers
<1> QED
  BY <1>1, <1>4, <1>5, <1>6, <1>8, <1>9, <1>10, <1>a, DurableStep, Zenon

(* Every step keeps the third layer.                                       *)
LEMMA StepDurable ==
    /\ LeastExists /\ TypeOK /\ Places /\ FlushJob /\ Kept /\ Protocol /\ Durable /\ [Next]_vars
    /\ TypeOK' /\ Protocol'
    => Durable'
<1> SUFFICES ASSUME LeastExists, TypeOK, Places, FlushJob, Kept, Protocol, Durable, [Next]_vars,
                    TypeOK', Protocol'
             PROVE  Durable'
  BY Zenon
<1>a. /\ Writer \in Threads \ Purgers /\ Flusher \in Threads \ Purgers /\ Writer # Flusher
      /\ Purgers \subseteq Threads
      /\ local \in [Threads -> Locals] /\ pc \in [Threads -> Labels]
      /\ local[Flusher] \in Locals
  BY WalAssumption, Zenon DEF Threads, TypeOK
<1>b. NoLocal.promise = NoSizes /\ NoLocal.up_to = 0
  BY Zenon DEF NoLocal
<1>c. \A n \in Logs : pre_sync_size[n] <= pre_sync_size[n]
  BY Numbers
<1>1. CASE \/ \E p \in setup.syncers : SyncWAL(p)
           \/ SyncClosedLogs
           \/ \E C \in setup.sync_batches : WriteSync(C)
           \/ \E p \in Threads : PrepareForSync(p)
  BY <1>1, PrepareCases, PrepareDurable, Zenon
<1>2. ASSUME NEW p \in setup.syncers, FlushWAL(p) PROVE Durable'
  <2>1. UNCHANGED <<logfile_number, log_dir_synced, logs, min_log_number_to_keep, acked, synced,
                    linked, pre_sync_size, pc, local>>
    BY <1>2, Zenon DEF FlushWAL, logVars, versionVars, fixedVars
  <2>2. CurrentGrows
    BY <1>2, <2>1, FlushBufferEffect, Zenon DEF FlushWAL
  <2> QED
    BY <2>1, <2>2, DurableGrow, Zenon
<1>3. ASSUME NEW C, Write(C) PROVE Durable'
  <2>1. UNCHANGED <<logfile_number, log_dir_synced, logs, min_log_number_to_keep, acked, synced,
                    linked, pre_sync_size, pc, local>>
    BY <1>3, Zenon DEF Write, fixedVars
  <2>2. CurrentGrows
    BY <1>3, <2>1, AddRecordEffect, Zenon DEF Write
  <2> QED
    BY <2>1, <2>2, DurableGrow, Zenon
<1>4. CASE SwitchFails \/ \E c \in Families : SwitchKeepsLog(c)
  <2>1. UNCHANGED <<logfile_number, log_dir_synced, logs, min_log_number_to_keep, acked, synced,
                    linked, pre_sync_size, pc, local, flushed, buffered>>
    BY <1>4, Zenon DEF SwitchFails, SwitchKeepsLog, logVars, fileVars, versionVars, fixedVars
  <2>2. CurrentGrows
    BY <2>1, FlushBufferEffect, Zenon
  <2> QED
    BY <2>1, <2>2, DurableGrow, Zenon
<1>5. ASSUME NEW c \in Families, SwitchMemtable(c) PROVE Durable'
  BY <1>5, SwitchDurable, Zenon
<1>6. CASE WriteToWAL
  BY <1>6, WriteToWALDurable, Zenon
<1>7. CASE WriteToWALFails
  <2>1. UNCHANGED <<logfile_number, log_dir_synced, logs, min_log_number_to_keep, acked, synced,
                    linked, flushed, buffered, pre_sync_size>>
    BY <1>7, Zenon DEF WriteToWALFails, logVars, fileVars, versionVars, fixedVars
  <2> QED
    BY <1>7, <1>a, <2>1, FailDurable, Zenon DEF WriteToWALFails
<1>8. CASE SwitchDeletesWals
  <2>1. UNCHANGED <<logfile_number, log_dir_synced, logs, min_log_number_to_keep, acked, synced,
                    linked, flushed, buffered, pre_sync_size>>
    BY <1>8, Zenon DEF SwitchDeletesWals, logVars, fileVars, fixedVars
  <2>2. Others(Writer) /\ pc'[Writer] = "idle" /\ local'[Writer] = NoLocal
    BY <1>8, <1>a, Zenon DEF SwitchDeletesWals, Goto, Forget, Others
  <2> QED
    BY <1>a, <1>b, <1>c, <2>1, <2>2, Numbers, DurableIdle DEF SyncLabels
<1>9. ASSUME NEW p \in Threads, SyncLog(p) PROVE Durable'
  BY <1>9, SyncLogDurable, Zenon
<1>10. ASSUME NEW p \in Threads, SyncDir(p) PROVE Durable'
  BY <1>10, SyncDirDurable, Zenon
<1>11. ASSUME NEW p \in Threads, SyncFails(p) PROVE Durable'
  <2>1. UNCHANGED <<logfile_number, log_dir_synced, logs, min_log_number_to_keep, acked, synced,
                    linked, flushed, buffered, pre_sync_size>>
    BY <1>11, Zenon DEF SyncFails, logVars, fileVars, versionVars, fixedVars
  <2> QED
    BY <1>11, <2>1, FailDurable, Zenon DEF SyncFails
<1>12. ASSUME NEW p \in Threads, MarkLogsSynced(p) PROVE Durable'
  BY <1>12, MarkSyncedDurable, Zenon
<1>13. ASSUME NEW p \in Threads, MarkLogsNotSynced(p) PROVE Durable'
  <2>1. UNCHANGED <<logfile_number, log_dir_synced, logs, min_log_number_to_keep, synced,
                    linked, flushed, buffered, pre_sync_size>>
    BY <1>13, Zenon DEF MarkLogsNotSynced, fileVars, versionVars
  <2> QED
    BY <1>13, <2>1, FinishDurable, Zenon DEF MarkLogsNotSynced
<1>14. ASSUME NEW p \in Threads, ApplyWALToManifest(p) PROVE Durable'
  <2>1. UNCHANGED <<logfile_number, log_dir_synced, logs, min_log_number_to_keep, synced,
                    linked, flushed, buffered, pre_sync_size>>
    BY <1>14, Zenon DEF ApplyWALToManifest, logVars, fileVars
  <2> QED
    BY <1>14, <2>1, FinishDurable, Zenon DEF ApplyWALToManifest
<1>15. ASSUME NEW c \in Families, FlushBegin(c) \/ FlushPick(c) \/ FlushCompute(c) PROVE Durable'
  <2>1. UNCHANGED <<logfile_number, log_dir_synced, logs, min_log_number_to_keep, acked, synced,
                    linked, flushed, buffered, pre_sync_size>>
    BY <1>15, Zenon DEF FlushBegin, FlushPick, FlushCompute, logVars, fileVars, versionVars, fixedVars
  <2>2. Others(Flusher) /\ pc'[Flusher] \in {"closed", "pick", "compute", "install"}
    BY <1>15, <1>a, Zenon DEF FlushBegin, FlushPick, FlushCompute, Goto, Others
  <2>3. CASE FlushBegin(c)
    <3>1. local'[Flusher] = [NoLocal EXCEPT !.cfs = {c}, !.count = Len(cf[c].imm)]
      BY <2>3, <1>a, Zenon DEF FlushBegin
    <3>2. local'[Flusher].promise = NoSizes
      BY <3>1, Zenon DEF NoLocal
    <3> QED
      BY <1>a, <1>c, <2>1, <2>2, <3>2, Numbers, DurableIdle DEF SyncLabels
  <2>4. CASE FlushPick(c) \/ FlushCompute(c)
    <3>1. local'[Flusher].promise = local[Flusher].promise /\ local'[Flusher].up_to = local[Flusher].up_to
      BY <2>4, <1>a DEF FlushPick, FlushCompute, Locals
    <3> QED
      BY <1>a, <1>c, <2>1, <2>2, <3>1, Numbers, DurableIdle DEF SyncLabels
  <2> QED
    BY <1>15, <2>3, <2>4, Zenon
<1>16. ASSUME FlushFails \/ \E c \in Families : FlushInstall(c) PROVE Durable'
  <2>1. UNCHANGED <<logfile_number, log_dir_synced, logs, acked, synced,
                    linked, flushed, buffered, pre_sync_size>>
    BY <1>16, Zenon DEF FlushFails, FlushInstall, logVars, fileVars, fixedVars
  <2>2. Others(Flusher) /\ pc'[Flusher] = "idle" /\ local'[Flusher] = NoLocal
    BY <1>16, <1>a, Zenon DEF FlushFails, FlushInstall, Goto, Forget, Others
  <2>3. min_log_number_to_keep <= min_log_number_to_keep'
    <3>1. local[Flusher].min_log \in Nat
      BY <1>a, Zenon DEF Locals
    <3>2. \/ min_log_number_to_keep' = min_log_number_to_keep
          \/ min_log_number_to_keep' = Larger(min_log_number_to_keep, local[Flusher].min_log)
      BY <1>16, Zenon DEF FlushFails, FlushInstall, versionVars
    <3> QED
      BY <3>1, <3>2, Numbers DEF Larger
  <2> QED
    BY <1>a, <1>b, <1>c, <2>1, <2>2, <2>3, DurableIdle, Zenon DEF SyncLabels
<1>17. ASSUME NEW p \in Purgers, FindObsoleteFiles(p) \/ PopLogs(p) \/ DeleteFile(p) PROVE Durable'
  <2>1. p \in Threads /\ p # Writer
    BY <1>a, Zenon
  <2>2. UNCHANGED <<logfile_number, log_dir_synced, min_log_number_to_keep, acked, synced,
                    linked, flushed, buffered>>
    BY <1>17, Zenon DEF FindObsoleteFiles, PopLogs, DeleteFile, logVars, fileVars, versionVars, fixedVars
  <2>3. Others(p) /\ pc'[p] \in {"idle", "pop", "delete"}
    BY <1>17, <1>a, <2>1, Zenon DEF FindObsoleteFiles, PopLogs, DeleteFile, Goto, Forget, Others
  <2>4. \/ local'[p].promise = NoSizes
        \/ local'[p].promise = local[p].promise /\ local'[p].up_to = local[p].up_to
    <3>1. local[p] \in Locals
      BY <1>a, <2>1, Zenon
    <3>2. CASE FindObsoleteFiles(p)
      BY <1>a, <2>1, <3>2, Zenon DEF FindObsoleteFiles, NoLocal
    <3>3. CASE PopLogs(p)
      BY <1>a, <1>b, <2>1, <3>3, Zenon DEF PopLogs, Forget
    <3>4. CASE DeleteFile(p)
      BY <1>a, <1>b, <2>1, <3>1, <3>4 DEF DeleteFile, Forget, Locals
    <3> QED
      BY <1>17, <3>2, <3>3, <3>4, Zenon
  <2>5. CASE PopLogs(p)
    <3>1. local[p].min_log \in Nat /\ local[p].min_log <= min_log_number_to_keep
      BY <1>a, <2>1, Zenon DEF Kept, PurgeKnows, Locals
    <3>2. logs \ logs' \subseteq UpTo(local[p].min_log - 1)
      BY <2>5, Zenon DEF PopLogs, Poppable
    <3>3. \A n \in logs \ logs' : ~Needed(n)'
      BY <2>2, <3>1, <3>2, Numbers DEF UpTo, Needed
    <3>4. \A n \in Logs : pre_sync_size'[n] \in {0, pre_sync_size[n]}
      BY <2>5, Zenon DEF PopLogs
    <3>5. \A n \in Logs : pre_sync_size'[n] <= pre_sync_size[n]
      BY <3>4, Numbers
    <3> QED
      BY <2>1, <2>2, <2>3, <2>4, <3>3, <3>5, Numbers, DurableIdle DEF SyncLabels
  <2>6. CASE FindObsoleteFiles(p) \/ DeleteFile(p)
    <3>1. UNCHANGED <<logs, pre_sync_size>>
      BY <2>6, Zenon DEF FindObsoleteFiles, DeleteFile, logVars
    <3> QED
      BY <1>c, <2>1, <2>2, <2>3, <2>4, <3>1, Numbers, DurableIdle DEF SyncLabels
  <2> QED
    BY <1>17, <2>5, <2>6, Zenon
<1>18. CASE UNCHANGED vars
  <2>1. UNCHANGED <<logfile_number, log_dir_synced, logs, min_log_number_to_keep, acked, synced,
                    linked, pre_sync_size, pc, local, flushed, buffered>>
    BY <1>18, Zenon DEF vars, logVars, fileVars, versionVars, fixedVars
  <2>2. CurrentGrows
    BY <2>1, FlushBufferEffect
  <2> QED
    BY <2>1, <2>2, DurableGrow
<1> QED
  BY <1>1, <1>2, <1>3, <1>4, <1>5, <1>6, <1>7, <1>8, <1>9, <1>10, <1>11, <1>12, <1>13, <1>14,
     <1>15, <1>16, <1>17, <1>18, Zenon
     DEF Next, Calls, WriterStep, FlushStep, PurgeStep, Syncing

(* The third layer, with the file from the first, gives AckedIsDurable.    *)
LEMMA DurableSuffices == TypeOK /\ Kept /\ Durable => AckedIsDurable
<1> SUFFICES ASSUME TypeOK, Kept, Durable, NEW n \in Logs, n >= min_log_number_to_keep, acked[n] > 0
             PROVE  n \in linked \cap files /\ acked[n] <= synced[n]
  BY Zenon DEF AckedIsDurable
<1>1. n <= logfile_number /\ n \in linked /\ acked[n] <= synced[n]
  BY Numbers, Zenon DEF Durable, AckedOK
<1>2. n \in files
  BY <1>1, Numbers, Zenon DEF Kept, Needed
<1> QED
  BY <1>1, <1>2, Zenon
=============================================================================
