------------------------------ MODULE DBWrite ------------------------------
(***************************************************************************)
(* The write path of db/db_impl/db_impl_write.cc on top of WriteThread:    *)
(* DBImpl::WriteImpl, PipelinedWriteImpl, DelayWrite and the unbatched     *)
(* sections (EnterUnbatched / ExitUnbatched).  Each thread runs one write  *)
(* after another; a step is what the code does between two accesses to     *)
(* memory that another thread can change.                                  *)
(***************************************************************************)
EXTENDS WriteThread

CONSTANTS
    Loads,              \* the loads (a sequence), one for each behaviour
    MaxWrites,          \* bound: writes per thread
    paranoid_checks     \* DBOptions

(* A load: DBOptions' enable_pipelined_write, unordered_write and          *)
(* allow_concurrent_memtable_write; the threads that may write and the     *)
(* requests they may write with, those that may enter unbatched and those  *)
(* that may lock the WAL;                                                  *)
(* whether writes are stopped for other reasons; the bounds on write       *)
(* stalls, on failing WAL writes and on memtable switches.                 *)
ASSUME BoundsAssumption ==
    /\ MaxWrites \in Nat
    /\ paranoid_checks \in BOOLEAN
    /\ \A l \in ToSet(Loads) :
         /\ {l.stalls, l.io_errors, l.switches} \subseteq Nat
         /\ l.writers \cup l.unbatched \cup l.lockers \subseteq Threads
         /\ {l.pipelined, l.unordered, l.concurrent, l.stops} \subseteq BOOLEAN
         /\ ~(l.pipelined /\ l.unordered)

VARIABLES
    pc,             \* where each thread is
    local,          \* its local variables
    writes,         \* the number of writes each thread has begun
    LastSequence,   \* versions_->LastSequence(): what readers see
    last_sequence,  \* the last number allocated: WriteThread::last_sequence_
                    \* (pipelined), VersionSet::last_allocated_sequence_
                    \* (unordered)
    wal,            \* records appended to the logs, oldest first
    wal_synced,     \* how many of them are durable
    logfile_number, \* the current log
    sealed,         \* next_log_number of each memtable switched away from
    mem,            \* what the memtables hold
    bg_error,       \* error_handler_.IsDBStopped()
    stopped,        \* write_controller_.IsStopped()
    io_errors,      \* failing WAL writes so far
    lock_wal_count, \* LockWAL calls in effect: if any, a stop token is held
    pending_memtable_writes, \* unordered writes in the log, not yet inserted
    load            \* which of the loads this behaviour has

seqVars == <<LastSequence, last_sequence>>
logVars == <<wal, wal_synced, logfile_number, sealed>>
extVars == <<lock_wal_count, pending_memtable_writes, load>>
ctlVars == <<bg_error, stopped, io_errors, extVars>>
dbVars == <<seqVars, logVars, mem, ctlVars>>
heads == <<newest_writer, newest_memtable_writer>>
stalls == <<stall_begun_count, stall_ended_count>>
vars == <<wtVars, pc, local, writes, dbVars>>

Requests == Loads[load].requests
UnbatchedThreads == Loads[load].unbatched
MaxStalls == Loads[load].stalls
MaxIOErrors == Loads[load].io_errors
MaxSwitches == Loads[load].switches
Lockers == Loads[load].lockers
enable_pipelined_write == Loads[load].pipelined
unordered_write == Loads[load].unordered
allow_concurrent_memtable_write == Loads[load].concurrent

(* write_controller_.IsStopped(): LockWAL holds a stop token of its own.   *)
IsStopped == stopped \/ lock_wal_count > 0

NoLocal == [on |-> Null, goal |-> {}, next |-> "idle", cursor |-> Null,
            prev |-> Null, status |-> OK, last_sequence |-> 0,
            lock_wal |-> FALSE, stall |-> 0]

Init ==
    /\ newest_writer = Null
    /\ newest_memtable_writer = Null
    /\ writer = [w \in Writers |-> NewWriter(NoRequest)]
    /\ group = [t \in Threads |-> NewGroup]
    /\ stall_begun_count = 0
    /\ stall_ended_count = 0
    /\ pc = [t \in Threads |-> "idle"]
    /\ local = [t \in Threads |-> NoLocal]
    /\ writes = [t \in Threads |-> 0]
    /\ LastSequence = 0
    /\ last_sequence = 0
    /\ wal = << >>
    /\ wal_synced = 0
    /\ logfile_number = 1
    /\ sealed = << >>
    /\ mem = {}
    /\ bg_error = FALSE
    /\ stopped = FALSE
    /\ io_errors = 0
    /\ lock_wal_count = 0
    /\ pending_memtable_writes = 0
    /\ load \in DOMAIN Loads

Op(t) == <<t, writes[t]>>
(* The records of t's batch up to `upto', numbered from `first' on, as     *)
(* they are in the current memtable.                                       *)
Entries(t, first, upto) ==
    {[op |-> Op(t), key |-> k, seq |-> first + k - 1,
      memtable |-> Len(sealed) + 1] : k \in 1..upto}
Goto(t, label) == pc' = [pc EXCEPT ![t] = label]
Await(t, on, goal) ==
    /\ local' = [local EXCEPT ![t].on = on, ![t].goal = goal]
    /\ Goto(t, "await")

(* Where a thread goes once its write is completed: an unordered write now *)
(* inserts its batch, on its own.                                          *)
Completed(W, t) ==
    IF /\ unordered_write
       /\ local[t].status = OK /\ FinalStatus(W[t]) = OK
       /\ ~W[t].request.disable_memtable
    THEN "unordered_insert" ELSE "return"

(* Where a thread goes once the writer it waited on has reached its goal.  *)
Resume(t) ==
    IF local[t].on = MemDummy THEN "drained"
    ELSE CASE writer[t].state = GROUP_LEADER ->
                IF writer[t].request.batch THEN "leader" ELSE "enter_unbatched"
           [] writer[t].state = MEMTABLE_WRITER_LEADER -> "memtable_leader"
           [] writer[t].state = PARALLEL_MEMTABLE_WRITER -> "insert"
           [] OTHER -> Completed(writer, t)
----------------------------------------------------------------------------
(* JoinBatchGroup and EnterUnbatched                                       *)

BeginWrite(t) ==
    /\ pc[t] = "idle"
    /\ writes[t] < MaxWrites
    /\ \E r \in (IF t \in Loads[load].writers THEN Requests ELSE {})
                \cup (IF t \in UnbatchedThreads THEN {NoRequest} ELSE {}) :
         writer' = [writer EXCEPT ![t] = NewWriter(r)]
    /\ writes' = [writes EXCEPT ![t] = @ + 1]
    /\ Goto(t, "link")
    /\ UNCHANGED <<heads, group, stalls, local, dbVars>>

(* LinkOne behind a stall: a no_slowdown write fails, others wait on       *)
(* stall_cv_ until EndWriteStall.                                          *)
LinkStalled(t) ==
    /\ pc[t] = "link"
    /\ newest_writer = StallDummy
    /\ IF writer[t].request.no_slowdown
       THEN /\ writer' = SetState([writer EXCEPT ![t].status = Incomplete],
                                  t, COMPLETED)
            /\ Goto(t, "return")
       ELSE Goto(t, "stalled") /\ UNCHANGED writer
    /\ UNCHANGED <<heads, group, stalls, local, writes, dbVars>>

JoinGoal(t) ==
    IF writer[t].request.batch
    THEN {GROUP_LEADER, MEMTABLE_WRITER_LEADER, PARALLEL_MEMTABLE_WRITER,
          COMPLETED}
    ELSE {GROUP_LEADER}

LinkOneUnbatchedNoWait(t) ==    \* mutated: EnterUnbatched does not wait
    /\ pc[t] = "link"
    /\ newest_writer # StallDummy
    /\ newest_writer' = t
    /\ LET linked == [writer EXCEPT ![t].link_older = newest_writer]
       IN  writer' = IF newest_writer = Null /\ writer[t].request.batch
                     THEN SetState(linked, t, GROUP_LEADER) ELSE linked
    /\ IF newest_writer = Null \/ ~writer[t].request.batch
       THEN /\ Goto(t, IF writer[t].request.batch
                       THEN "leader" ELSE "enter_unbatched")
            /\ UNCHANGED local
       ELSE Await(t, t, JoinGoal(t))
    /\ UNCHANGED <<newest_memtable_writer, group, stalls, writes, dbVars>>
LinkOne(t) ==
    /\ pc[t] = "link"
    /\ newest_writer # StallDummy
    /\ newest_writer' = t
    /\ LET linked == [writer EXCEPT ![t].link_older = newest_writer]
       IN  writer' = IF newest_writer = Null /\ writer[t].request.batch
                     THEN SetState(linked, t, GROUP_LEADER) ELSE linked
    /\ IF newest_writer = Null
       THEN /\ Goto(t, IF writer[t].request.batch
                       THEN "leader" ELSE "enter_unbatched")
            /\ UNCHANGED local
       ELSE Await(t, t, JoinGoal(t))
    /\ UNCHANGED <<newest_memtable_writer, group, stalls, writes, dbVars>>
----------------------------------------------------------------------------
(* AwaitState: spin until the goal is met, or give up and block.           *)

AwaitSpin(t) ==
    /\ pc[t] = "await"
    /\ writer[local[t].on].state \in local[t].goal
    /\ Goto(t, Resume(t))
    /\ UNCHANGED <<wtVars, local, writes, dbVars>>

(* BlockingAwaitState, first half: make the mutex, publish LOCKED_WAITING. *)
BlockingAwaitCAS(t) ==
    /\ pc[t] = "await"
    /\ writer[local[t].on].state \notin local[t].goal
    /\ writer' = [writer EXCEPT ![local[t].on].made_waitable = TRUE,
                                ![local[t].on].state = LOCKED_WAITING]
    /\ Goto(t, "block")
    /\ UNCHANGED <<heads, group, stalls, local, writes, dbVars>>

(* Second half: StateCV().wait returns once SetState has changed the state. *)
BlockingAwaitWait(t) ==
    /\ pc[t] = "block"
    /\ writer[local[t].on].state # LOCKED_WAITING
    /\ Goto(t, Resume(t))
    /\ UNCHANGED <<wtVars, local, writes, dbVars>>
----------------------------------------------------------------------------
(* WaitForMemTableWriters: before a memtable switch, before an unbatched   *)
(* section and before a callback that refuses batching, the leader of the  *)
(* write queue puts a writer of its own behind the memtable writers.       *)

WaitForMemTableWriters(t, next) ==
    IF enable_pipelined_write /\ newest_memtable_writer # Null
    THEN /\ writer' = [writer EXCEPT ![MemDummy] =
                [NewWriter(NoRequest) EXCEPT
                    !.link_older = newest_memtable_writer]]
         /\ newest_memtable_writer' = MemDummy
         /\ local' = [local EXCEPT ![t].on = MemDummy, ![t].next = next,
                                   ![t].goal = {MEMTABLE_WRITER_LEADER}]
         /\ Goto(t, "await")
    ELSE /\ Goto(t, next)
         /\ UNCHANGED <<newest_memtable_writer, writer, local>>

MemTableWritersDrained(t) ==
    /\ pc[t] = "drained"
    /\ newest_memtable_writer' = Null
    /\ Goto(t, local[t].next)
    /\ UNCHANGED <<newest_writer, writer, group, stalls, local, writes,
                   dbVars>>

(* EnterUnbatched once it is the leader; PipelinedWriteImpl before         *)
(* PreprocessWrite.                                                        *)
StartUnbatched(t) ==
    /\ pc[t] = "enter_unbatched"
    /\ WaitForMemTableWriters(t, "unbatched")
    /\ UNCHANGED <<newest_writer, group, stalls, writes, dbVars>>

StartLeader(t) ==
    /\ pc[t] = "leader"
    /\ IF writer[t].request.callback = "nobatch"
       THEN WaitForMemTableWriters(t, "flush_due")
       ELSE /\ Goto(t, "flush_due")
            /\ UNCHANGED <<newest_memtable_writer, writer, local>>
    /\ UNCHANGED <<newest_writer, group, stalls, writes, dbVars>>

(* PreprocessWrite switches memtables if a flush is due, after             *)
(* WaitForPendingWrites, and so does FlushMemTable in an unbatched section. *)
NoFlushDue(t) ==
    /\ pc[t] = "flush_due"
    /\ Goto(t, "preprocess")
    /\ UNCHANGED <<wtVars, local, writes, dbVars>>

WaitForNoPendingWrites(t) ==    \* mutated: switches without waiting
    /\ pc[t] = "flush_due"
    /\ ~bg_error /\ Len(sealed) < MaxSwitches
    /\ Goto(t, "switch")
    /\ UNCHANGED <<wtVars, local, writes, dbVars>>
WaitForPendingWrites(t) ==
    /\ \/ pc[t] = "flush_due" /\ ~bg_error
       \/ pc[t] = "unbatched" /\ ~local[t].lock_wal
    /\ Len(sealed) < MaxSwitches
    /\ WaitForMemTableWriters(t, IF unordered_write THEN "pending" ELSE "switch")
    /\ UNCHANGED <<newest_writer, group, stalls, writes, dbVars>>

(* ... and, for unordered writes, on switch_cv_, whose predicate is        *)
(* evaluated under switch_mutex_.                                          *)
WaitOnSwitchCV(t) ==
    /\ pc[t] = "pending"
    /\ Goto(t, IF pending_memtable_writes = 0 THEN "switch" ELSE "switch_asleep")
    /\ UNCHANGED <<wtVars, local, writes, dbVars>>

(* SwitchMemtable, by a leader or inside an unbatched section (a manual    *)
(* flush).  A log that is still empty is kept.                             *)
LogEmpty == \A i \in DOMAIN wal : wal[i].log # logfile_number

SwitchMemtable(t) ==
    /\ pc[t] = "switch"
    /\ Goto(t, IF writer[t].request.batch THEN "preprocess" ELSE "unbatched")
    /\ logfile_number' = IF LogEmpty THEN logfile_number ELSE logfile_number + 1
    /\ sealed' = Append(sealed, logfile_number')
    /\ UNCHANGED <<wtVars, local, writes, seqVars, wal, wal_synced, mem, ctlVars>>

SwitchMemtableFails(t) ==
    /\ pc[t] = "switch"
    /\ Goto(t, IF writer[t].request.batch THEN "preprocess" ELSE "unbatched")
    /\ ~LogEmpty
    /\ io_errors < MaxIOErrors
    /\ io_errors' = io_errors + 1
    /\ bg_error' = TRUE
    /\ UNCHANGED <<wtVars, local, writes, seqVars, logVars, mem, stopped, extVars>>

ExitUnbatched(t) ==
    /\ \/ pc[t] = "unbatched" /\ ~local[t].lock_wal
       \/ pc[t] = "lock_exit"
    /\ IF newest_writer = t
       THEN newest_writer' = Null /\ UNCHANGED writer
       ELSE /\ LET W == CreateMissingNewerLinks(writer, newest_writer)
               IN  writer' = Promote(W, W[t].link_newer, GROUP_LEADER)
            /\ UNCHANGED newest_writer
    /\ Goto(t, IF local[t].lock_wal THEN "locked" ELSE "return")
    /\ UNCHANGED <<newest_memtable_writer, group, stalls, local, writes,
                   dbVars>>
----------------------------------------------------------------------------
(* LockWAL and UnlockWAL                                                   *)

(* A lock that finds another one in effect only counts itself; the first   *)
(* goes through the queue, so that whoever was writing has finished.       *)
LockWALSkipsQueue(t) ==    \* mutated: takes the token without draining
    /\ pc[t] = "idle"
    /\ writes[t] < MaxWrites /\ t \in Lockers
    /\ writes' = [writes EXCEPT ![t] = @ + 1]
    /\ lock_wal_count' = lock_wal_count + 1
    /\ Goto(t, "locked")
    /\ UNCHANGED <<wtVars, local, seqVars, logVars, mem, bg_error, stopped,
                   io_errors, pending_memtable_writes, load>>
LockWAL(t) ==
    /\ pc[t] = "idle"
    /\ writes[t] < MaxWrites /\ t \in Lockers
    /\ writes' = [writes EXCEPT ![t] = @ + 1]
    /\ IF lock_wal_count > 0
       THEN /\ lock_wal_count' = lock_wal_count + 1
            /\ Goto(t, "locked")
            /\ UNCHANGED <<writer, local>>
       ELSE /\ writer' = [writer EXCEPT ![t] = NewWriter(NoRequest)]
            /\ local' = [local EXCEPT ![t].lock_wal = TRUE]
            /\ Goto(t, "link")
            /\ UNCHANGED lock_wal_count
    /\ UNCHANGED <<heads, group, stalls, seqVars, logVars, mem, bg_error,
                   stopped, io_errors, pending_memtable_writes, load>>

(* ... takes the stop token unless somebody did in the meantime, and       *)
(* leaves (ExitUnbatched).  FlushWAL, which LockWAL calls then, has        *)
(* nothing to do, for manual_wal_flush is off here.                        *)
TakeStopToken(t) ==
    /\ pc[t] = "unbatched" /\ local[t].lock_wal
    /\ lock_wal_count' = lock_wal_count + 1
    /\ Goto(t, "lock_exit")
    /\ UNCHANGED <<wtVars, local, writes, seqVars, logVars, mem, bg_error,
                   stopped, io_errors, pending_memtable_writes, load>>

(* The last UnlockWAL gives the token back and waits for the stall that    *)
(* the token caused to end.                                                *)
UnlockWALReturnsAtOnce(t) ==    \* mutated: WaitForStallEndedCount is missing
    /\ pc[t] = "locked"
    /\ lock_wal_count' = lock_wal_count - 1
    /\ Goto(t, "return")
    /\ UNCHANGED <<wtVars, local, writes, seqVars, logVars, mem, bg_error,
                   stopped, io_errors, pending_memtable_writes, load>>
UnlockWAL(t) ==
    /\ pc[t] = "locked"
    /\ lock_wal_count' = lock_wal_count - 1
    /\ IF lock_wal_count' = 0 /\ stall_begun_count > stall_ended_count
       THEN /\ local' = [local EXCEPT ![t].stall = stall_begun_count]
            /\ Goto(t, "unlock_wait")
       ELSE UNCHANGED local /\ Goto(t, "return")
    /\ UNCHANGED <<wtVars, writes, seqVars, logVars, mem, bg_error, stopped,
                   io_errors, pending_memtable_writes, load>>

WaitForStallEndedCount(t) ==
    /\ pc[t] = "unlock_wait"
    /\ stall_ended_count >= local[t].stall
    /\ Goto(t, "return")
    /\ UNCHANGED <<wtVars, local, writes, dbVars>>
----------------------------------------------------------------------------
(* PreprocessWrite and DelayWrite: a stopped database stalls its leader,   *)
(* which puts the stall marker on the queue and fails the no_slowdown      *)
(* writers already there.                                                  *)

PreprocessWrite(t) ==
    /\ pc[t] = "preprocess"
    /\ bg_error \/ ~IsStopped \/ writer[t].request.no_slowdown
    /\ local' = [local EXCEPT ![t].status =
                    IF bg_error THEN Failed
                    ELSE IF IsStopped THEN Incomplete ELSE OK]
    /\ Goto(t, "enter")
    /\ UNCHANGED <<wtVars, writes, dbVars>>

BeginWriteStallNoWalk(t) ==    \* mutated: no_slowdown writers stay queued
    /\ pc[t] = "preprocess"
    /\ ~bg_error /\ IsStopped /\ ~writer[t].request.no_slowdown
    /\ stall_begun_count' = stall_begun_count + 1
    /\ writer' = [writer EXCEPT ![StallDummy].link_older = newest_writer]
    /\ newest_writer' = StallDummy
    /\ Goto(t, "stalling")
    /\ UNCHANGED <<newest_memtable_writer, group, stall_ended_count, local,
                   writes, dbVars>>
BeginWriteStall(t) ==
    /\ pc[t] = "preprocess"
    /\ ~bg_error /\ IsStopped /\ ~writer[t].request.no_slowdown
    /\ stall_begun_count' = stall_begun_count + 1
    /\ writer' = [writer EXCEPT ![StallDummy].link_older = newest_writer]
    /\ newest_writer' = StallDummy
    /\ local' = [local EXCEPT ![t].cursor = newest_writer,
                              ![t].prev = StallDummy]
    /\ Goto(t, "stall_walk")
    /\ UNCHANGED <<newest_memtable_writer, group, stall_ended_count, writes,
                   dbVars>>

StallWalk(t) ==
    LET w == local[t].cursor
        prev == local[t].prev
    IN
    /\ pc[t] = "stall_walk"
    /\ IF w = Null \/ (w # Null /\ writer[w].write_group # Null)
       THEN Goto(t, "stalling") /\ UNCHANGED <<writer, local>>
       ELSE /\ UNCHANGED pc
            /\ IF writer[w].request.no_slowdown
               THEN LET older == writer[w].link_older
                        W == SetState([writer EXCEPT ![prev].link_older = older,
                                                     ![w].status = Incomplete],
                                      w, COMPLETED)
                    IN  /\ writer' = IF older # Null /\ W[older].link_newer # Null
                                     THEN [W EXCEPT ![older].link_newer = prev]
                                     ELSE W
                        /\ local' = [local EXCEPT ![t].cursor = older]
               ELSE /\ local' = [local EXCEPT ![t].prev = w,
                                              ![t].cursor = writer[w].link_older]
                    /\ UNCHANGED writer
    /\ UNCHANGED <<heads, group, stalls, writes, dbVars>>

(* bg_cv_ may wake the leader before the stall is over: it then ends this  *)
(* stall, and DelayWrite's loop begins another one.                        *)
EndWriteStall(t) ==
    LET older == writer[StallDummy].link_older
    IN
    /\ pc[t] = "stalling"
    /\ bg_error \/ ~IsStopped \/ stall_begun_count < MaxStalls
    /\ writer' = [w \in Writers |->
                    IF w = older
                    THEN [writer[w] EXCEPT !.link_newer =
                            writer[StallDummy].link_newer]
                    ELSE writer[w]]
    /\ newest_writer' = older
    /\ stall_ended_count' = stall_ended_count + 1
    /\ pc' = [u \in Threads |-> IF u = t THEN "preprocess"
                                ELSE IF pc[u] = "stalled" THEN "link"
                                ELSE pc[u]]
    /\ local' = [local EXCEPT ![t].cursor = Null, ![t].prev = Null]
    /\ UNCHANGED <<newest_memtable_writer, group, stall_begun_count, writes,
                   dbVars>>
----------------------------------------------------------------------------
(* The leader's WAL stage                                                  *)

(* The number of records that a group's members put into the memtable (an  *)
(* unordered write also counts what it only logs), and each member's first *)
(* sequence number when the group's is `first'.                            *)
MemTableCountAll(W, members) ==    \* mutated: counts batches it must not
    LET total[i \in 0..Len(members)] ==
            IF i = 0 THEN 0 ELSE total[i - 1] + W[members[i]].request.count
    IN  total[Len(members)]
MemTableCount(W, members) ==
    LET counts(w) == IF unordered_write THEN W[w].callback_ok
                     ELSE ShouldWriteToMemtable(W[w])
        count(w) == IF counts(w) THEN W[w].request.count ELSE 0
        total[i \in 0..Len(members)] ==
            IF i = 0 THEN 0 ELSE total[i - 1] + count(members[i])
    IN  total[Len(members)]
SeqNumbers(W, members, first) ==
    [i \in DOMAIN members |->
        first + MemTableCount(W, SubSeq(members, 1, i - 1))]

Assign(W, members, first) ==
    LET seq == SeqNumbers(W, members, first)
    IN  [w \in Writers |->
            IF /\ w \in ToSet(members)
               /\ W[w].callback_ok
               /\ enable_pipelined_write => ShouldWriteToMemtable(W[w])
            THEN [W[w] EXCEPT !.sequence =
                    seq[CHOOSE i \in DOMAIN members : members[i] = w]]
            ELSE W[w]]

UpdateLastSequenceAlways(sequence) == sequence    \* mutated: no maximum
UpdateLastSequence(sequence) ==
    IF sequence > last_sequence THEN sequence ELSE last_sequence

(* EnterAsBatchGroupLeader, CheckCallback of every member and, when        *)
(* pipelined, the sequence numbers (WriteImpl assigns them after the log). *)
EnterAsBatchGroupLeader(t) ==
    LET linked == CreateMissingNewerLinks(writer, newest_writer)
        members == BatchGroup(linked, t, newest_writer)
        joined == JoinGroup(linked, members, t)
        checked == [w \in Writers |->
                      IF w \in ToSet(members) /\ local[t].status = OK
                      THEN [joined[w] EXCEPT !.callback_ok =
                              joined[w].request.callback # "fail"]
                      ELSE joined[w]]
        base == UpdateLastSequence(LastSequence)
    IN
    /\ pc[t] = "enter"
    /\ group' = [group EXCEPT ![t] = GroupRecord(members)]
    /\ IF enable_pipelined_write
       THEN IF local[t].status = OK
            THEN /\ writer' = Assign(checked, members, base + 1)
                 /\ last_sequence' = base + MemTableCount(checked, members)
            ELSE writer' = checked /\ last_sequence' = base
       ELSE writer' = checked /\ UNCHANGED last_sequence
    /\ Goto(t, IF local[t].status = OK THEN "log"
               ELSE IF enable_pipelined_write THEN "wal_exit" ELSE "exit")
    /\ UNCHANGED <<heads, stalls, local, writes, LastSequence, logVars, mem,
                   ctlVars>>

(* MergeBatch and AddRecord: one record for the group, without the batches *)
(* whose callback failed; recovery numbers them from the record's first    *)
(* sequence number.                                                        *)
WalRecords(t, first) ==
    LET members == SelectSeq(Members(writer, group[t]),
                             LAMBDA w : writer[w].callback_ok)
        seq == SeqNumbers(writer, members, first)
    IN  [i \in DOMAIN members |-> [op |-> Op(members[i]), seq |-> seq[i],
                               log |-> logfile_number]]

FirstSequence(t) ==
    IF enable_pipelined_write
    THEN 1 + last_sequence - MemTableCount(writer, Members(writer, group[t]))
    ELSE IF unordered_write THEN 1 + last_sequence
    ELSE 1 + LastSequence

(* ConcurrentWriteToWAL allocates numbers even if the log then fails.      *)
Allocate(t) ==
    last_sequence' = IF unordered_write
                     THEN last_sequence
                            + MemTableCount(writer, Members(writer, group[t]))
                     ELSE last_sequence

(* WriteImpl: the group inserts in parallel unless one of its batches      *)
(* merges.                                                                 *)
Parallel(t) ==
    /\ allow_concurrent_memtable_write
    /\ group[t].size > 1
    /\ \A w \in ToSet(Members(writer, group[t])) :
         ShouldWriteToMemtable(writer[w]) => ~writer[w].request.merge

AfterLog(t, status) ==
    IF enable_pipelined_write THEN "wal_exit"
    ELSE IF status # OK THEN "exit"
    ELSE IF unordered_write THEN "unordered_publish"
    ELSE IF Parallel(t) THEN "launch" ELSE "insert_group"

(* WriteToWAL succeeds (or is disabled), and WriteImpl then assigns the    *)
(* sequence numbers.                                                       *)
WriteToWALPublishes(t) ==    \* mutated: LastSequence moves before the memtable
    LET m == Members(writer, group[t])
        first == FirstSequence(t)
    IN
    /\ pc[t] = "log"
    /\ wal' = wal \o WalRecords(t, first)
    /\ writer' = Assign(writer, m, first)
    /\ LastSequence' = first + MemTableCount(writer, m) - 1
    /\ local' = [local EXCEPT ![t].last_sequence = LastSequence']
    /\ Goto(t, AfterLog(t, OK))
    /\ UNCHANGED <<heads, group, stalls, writes, last_sequence, wal_synced,
                   logfile_number, sealed, mem, ctlVars>>
WriteToWALOffByOne(t) ==    \* mutated: the batches are numbered one too high
    LET m == Members(writer, group[t])
        first == FirstSequence(t)
    IN
    /\ pc[t] = "log"
    /\ wal' = wal \o WalRecords(t, first)
    /\ writer' = Assign(writer, m, first + 1)
    /\ local' = [local EXCEPT ![t].last_sequence =
                    first + MemTableCount(writer, m) - 1]
    /\ Goto(t, AfterLog(t, OK))
    /\ UNCHANGED <<heads, group, stalls, writes, seqVars, wal_synced,
                   logfile_number, sealed, mem, ctlVars>>
WriteToWAL(t) ==
    LET m == Members(writer, group[t])
        first == FirstSequence(t)
    IN
    /\ pc[t] = "log"
    /\ IF writer[t].request.disable_wal
       THEN UNCHANGED <<wal, wal_synced>>
       ELSE /\ wal' = wal \o WalRecords(t, first)
            /\ wal_synced' = IF writer[t].request.sync THEN Len(wal')
                             ELSE wal_synced
    /\ writer' = IF enable_pipelined_write THEN writer
                 ELSE Assign(writer, m, first)
    /\ local' = [local EXCEPT ![t].last_sequence =
                    first + MemTableCount(writer, m) - 1]
    /\ Allocate(t)
    /\ Goto(t, AfterLog(t, OK))
    /\ UNCHANGED <<heads, group, stalls, writes, LastSequence, logfile_number,
                   sealed, mem, ctlVars>>

(* The record, or the sync after it, fails, and the record may or may not  *)
(* have reached the file; IOStatusCheck stops the database if checks are   *)
(* paranoid.                                                               *)
WriteToWALFails(t) ==
    /\ pc[t] = "log"
    /\ io_errors < MaxIOErrors
    /\ ~writer[t].request.disable_wal
    /\ io_errors' = io_errors + 1
    /\ wal' \in {wal, wal \o WalRecords(t, FirstSequence(t))}
    /\ bg_error' = (bg_error \/ paranoid_checks)
    /\ local' = [local EXCEPT ![t].status = Failed]
    /\ Allocate(t)
    /\ Goto(t, AfterLog(t, Failed))
    /\ UNCHANGED <<wtVars, writes, LastSequence, wal_synced, logfile_number,
                   sealed, mem, stopped, extVars>>
----------------------------------------------------------------------------
(* Unordered writes (WriteImplWALOnly, UnorderedWriteMemtable): the leader *)
(* publishes the sequence numbers of its group right after the log, and    *)
(* each member inserts its own batch after the group is gone.              *)

(* SyncWAL fails after the record was written: the numbers are published   *)
(* although no member will insert its batch.                               *)
UnorderedSyncFails(t) ==
    LET first == FirstSequence(t)
    IN
    /\ pc[t] = "log" /\ unordered_write
    /\ writer[t].request.sync
    /\ io_errors < MaxIOErrors
    /\ io_errors' = io_errors + 1
    /\ wal' = wal \o WalRecords(t, first)
    /\ last_sequence' = first + MemTableCount(writer, Members(writer, group[t])) - 1
    /\ LastSequence' = last_sequence'
    /\ bg_error' = (bg_error \/ paranoid_checks)
    /\ local' = [local EXCEPT ![t].status = Failed]
    /\ Goto(t, "exit")
    /\ UNCHANGED <<wtVars, writes, wal_synced, logfile_number, sealed, mem,
                   stopped, extVars>>

UnorderedPublish(t) ==
    LET inserts == {w \in ToSet(Members(writer, group[t])) :
                      writer[w].callback_ok /\ ~writer[w].request.disable_memtable}
    IN
    /\ pc[t] = "unordered_publish"
    /\ LastSequence' = local[t].last_sequence
    /\ pending_memtable_writes' = pending_memtable_writes + Cardinality(inserts)
    /\ Goto(t, "exit")
    /\ UNCHANGED <<wtVars, local, writes, last_sequence, logVars, mem, bg_error,
                   stopped, io_errors, lock_wal_count, load>>

(* What InsertInto leaves in the memtable: the batch up to its bad record. *)
Inserts(W, w) ==
    LET r == W[w].request
    IN  Entries(w, W[w].sequence, IF r.bad = 0 THEN r.count ELSE r.bad - 1)

(* The callback is checked once more; here it gives the same answer.       *)
UnorderedWriteMemtable(t) ==
    /\ pc[t] = "unordered_insert"
    /\ mem' = mem \cup Inserts(writer, t)
    /\ writer' = IF writer[t].request.bad = 0 THEN writer
                 ELSE [writer EXCEPT ![t].status = Failed]
    /\ Goto(t, "unordered_done")
    /\ UNCHANGED <<heads, group, stalls, local, writes, seqVars, logVars,
                   ctlVars>>

PendingWriteForgotten(t) ==    \* mutated: a failed insertion is not counted off
    /\ pc[t] = "unordered_done"
    /\ pending_memtable_writes' =
         pending_memtable_writes - IF writer[t].status = OK THEN 1 ELSE 0
    /\ Goto(t, IF pending_memtable_writes' = 0
               THEN "switch_notify" ELSE "unordered_check")
    /\ UNCHANGED <<wtVars, local, writes, seqVars, logVars, mem, bg_error,
                   stopped, io_errors, lock_wal_count, load>>
PendingWriteDone(t) ==
    /\ pc[t] = "unordered_done"
    /\ pending_memtable_writes' = pending_memtable_writes - 1
    /\ Goto(t, IF pending_memtable_writes' = 0
               THEN "switch_notify" ELSE "unordered_check")
    /\ UNCHANGED <<wtVars, local, writes, seqVars, logVars, mem, bg_error,
                   stopped, io_errors, lock_wal_count, load>>

(* switch_cv_.notify_all() under switch_mutex_.                            *)
NotifySwitch(t) ==
    /\ pc[t] = "switch_notify"
    /\ pc' = [u \in Threads |-> IF u = t THEN "unordered_check"
                                ELSE IF pc[u] = "switch_asleep" THEN "pending"
                                ELSE pc[u]]
    /\ UNCHANGED <<wtVars, local, writes, dbVars>>

WriteStatusCheck(t) ==
    /\ pc[t] = "unordered_check"
    /\ bg_error' = (bg_error \/ (paranoid_checks /\ writer[t].status # OK))
    /\ Goto(t, "return")
    /\ UNCHANGED <<wtVars, local, writes, seqVars, logVars, mem, stopped,
                   io_errors, extVars>>
----------------------------------------------------------------------------
(* The memtable stage                                                      *)

(* EnterAsMemTableWriter                                                   *)
EnterAsMemTableWriter(t) ==
    LET linked == IF allow_concurrent_memtable_write /\ writer[t].request.merge
                  THEN writer
                  ELSE CreateMissingNewerLinks(writer, newest_memtable_writer)
        members == MemTableGroup(linked, t, newest_memtable_writer,
                                 allow_concurrent_memtable_write)
    IN
    /\ pc[t] = "memtable_leader"
    /\ writer' = JoinGroup(linked, members, t)
    /\ group' = [group EXCEPT ![t] =
                    [GroupRecord(members) EXCEPT
                        !.last_sequence = linked[Last(members)].sequence
                            + linked[Last(members)].request.count - 1]]
    /\ Goto(t, IF Len(members) > 1 /\ allow_concurrent_memtable_write
               THEN "launch" ELSE "insert_group")
    /\ UNCHANGED <<heads, stalls, local, writes, dbVars>>

(* InsertInto(write_group, ...): one batch after another up to the first   *)
(* that fails; batches are renumbered from the first one's sequence.       *)
InsertGroup(t) ==
    LET m == Members(writer, group[t])
        fails == {i \in DOMAIN m : /\ ShouldWriteToMemtable(writer[m[i]])
                                   /\ writer[m[i]].request.bad # 0}
        reached == {i \in DOMAIN m : \A j \in fails : i <= j}
        W == Assign(writer, SubSeq(m, 1, Cardinality(reached)),
                    IF enable_pipelined_write
                    THEN writer[t].sequence ELSE LastSequence + 1)
        written == {i \in reached : ShouldWriteToMemtable(writer[m[i]])}
        failed == {m[i] : i \in reached \cap fails}
    IN
    /\ pc[t] = "insert_group"
    /\ mem' = mem \cup UNION {Inserts(W, m[i]) : i \in written}
    /\ writer' = [w \in Writers |->
                    IF \/ w \in failed
                       \/ w = t /\ failed # {} /\ ~enable_pipelined_write
                    THEN [W[w] EXCEPT !.status = Failed] ELSE W[w]]
    /\ group' = IF enable_pipelined_write /\ failed # {}
                THEN [group EXCEPT ![t].status = Failed] ELSE group
    /\ Goto(t, "publish")
    /\ UNCHANGED <<heads, stalls, local, writes, seqVars, logVars, ctlVars>>

(* LaunchParallelMemTableWriters: the iterator reads the link_newer of a   *)
(* writer it has already set free to run.                                  *)
LaunchParallelMemTableWriters(t) ==
    /\ pc[t] = "launch"
    /\ group' = [group EXCEPT ![t].running = group[t].size,
                    ![t].last_sequence = IF enable_pipelined_write THEN @
                                         ELSE local[t].last_sequence]
    /\ writer' = SetState(writer, t, PARALLEL_MEMTABLE_WRITER)
    /\ local' = [local EXCEPT ![t].cursor = t]
    /\ Goto(t, "launching")
    /\ UNCHANGED <<heads, stalls, writes, dbVars>>

LaunchNext(t) ==
    LET next == writer[local[t].cursor].link_newer
    IN
    /\ pc[t] = "launching"
    /\ IF local[t].cursor = group[t].last_writer
       THEN /\ local' = [local EXCEPT ![t].cursor = Null]
            /\ Goto(t, "insert")
            /\ UNCHANGED writer
       ELSE /\ writer' = SetState(writer, next, PARALLEL_MEMTABLE_WRITER)
            /\ local' = [local EXCEPT ![t].cursor = next]
            /\ UNCHANGED pc
    /\ UNCHANGED <<heads, group, stalls, writes, dbVars>>

(* InsertInto(&w, ...) of one member of a parallel group.                  *)
ParallelInsert(t) ==
    /\ pc[t] = "insert"
    /\ IF ShouldWriteToMemtable(writer[t])
       THEN /\ mem' = mem \cup Inserts(writer, t)
            /\ writer' = IF writer[t].request.bad = 0 THEN writer
                         ELSE [writer EXCEPT ![t].status = Failed]
       ELSE UNCHANGED <<writer, mem>>
    /\ Goto(t, IF writer'[t].status = OK THEN "complete_parallel" ELSE "report")
    /\ UNCHANGED <<heads, group, stalls, local, writes, seqVars, logVars,
                   ctlVars>>

(* CompleteParallelMemTableWriter: a failure goes to the group's status,   *)
(* under the leader's StateMutex; the last to finish exits for all.        *)
ReportNothing(t) ==    \* mutated: the group does not learn of the failure
    /\ pc[t] = "report"
    /\ Goto(t, "complete_parallel")
    /\ UNCHANGED <<wtVars, local, writes, dbVars>>
ReportFailure(t) ==
    /\ pc[t] = "report"
    /\ group' = [group EXCEPT ![writer[t].write_group].status = writer[t].status]
    /\ Goto(t, "complete_parallel")
    /\ UNCHANGED <<heads, writer, stalls, local, writes, dbVars>>

CompleteParallelMemTableWriter(t) ==
    LET g == writer[t].write_group
    IN
    /\ pc[t] = "complete_parallel"
    /\ group' = [group EXCEPT ![g].running = @ - 1]
    /\ IF group[g].running > 1
       THEN Await(t, t, {COMPLETED}) /\ UNCHANGED writer
       ELSE /\ writer' = [writer EXCEPT ![t].status = group[g].status]
            /\ Goto(t, "publish")
            /\ UNCHANGED local
    /\ UNCHANGED <<heads, stalls, writes, dbVars>>

(* PipelinedWriteImpl calls MemTableInsertStatusCheck for a parallel group *)
(* only.                                                                   *)
ReportsInsertStatus(t) ==
    /\ pc[t] = "publish"
    /\ writer[t].status # OK
    /\ enable_pipelined_write => /\ group[writer[t].write_group].size > 1
                                 /\ allow_concurrent_memtable_write

(* SetLastSequence, and MemTableInsertStatusCheck, which stops the         *)
(* database after a failed insertion.                                      *)
Publish(t) ==
    LET g == writer[t].write_group
    IN
    /\ pc[t] = "publish"
    /\ LastSequence' =
         IF ~enable_pipelined_write /\ t = g
         THEN IF local[t].status = OK THEN local[t].last_sequence
              ELSE LastSequence
         ELSE group[g].last_sequence
    /\ bg_error' = (\/ bg_error
                    \/ ReportsInsertStatus(t))
    /\ Goto(t, IF enable_pipelined_write THEN "memtable_exit" ELSE "exit")
    /\ UNCHANGED <<wtVars, local, writes, last_sequence, logVars, mem,
                   stopped, io_errors, extVars>>
----------------------------------------------------------------------------
(* ExitAsBatchGroupLeader without pipelining, by the leader or, through    *)
(* ExitAsBatchGroupFollower, by the last parallel member.                  *)

(* The `status' argument: the leader's local status, or the group's own.   *)
ExitStatus(t) ==
    LET g == writer[t].write_group
    IN  IF t = g /\ local[t].status # OK THEN local[t].status
        ELSE group[g].status

ExitAsBatchGroupLeader(t) ==
    LET g == writer[t].write_group
        last == group[g].last_writer
    IN
    /\ pc[t] = "exit"
    /\ IF newest_writer = last
       THEN newest_writer' = Null /\ UNCHANGED writer
       ELSE /\ LET W == CreateMissingNewerLinks(writer, newest_writer)
               IN  writer' = Promote(W, W[last].link_newer, GROUP_LEADER)
            /\ UNCHANGED newest_writer
    /\ local' = [local EXCEPT ![t].cursor = last,
                    ![t].status = IF t = g THEN ExitStatus(t) ELSE @]
    /\ Goto(t, "completing")
    /\ UNCHANGED <<newest_memtable_writer, group, stalls, writes, dbVars>>

(* Complete the followers, newest first; link_older is read before the     *)
(* follower is let go.  A follower that exits for the group releases the   *)
(* leader last.                                                            *)
CompleteFollowers(t) ==
    LET g == writer[t].write_group
        w == local[t].cursor
    IN
    /\ pc[t] = "completing"
    /\ IF w # group[g].leader
       THEN /\ writer' = SetState([writer EXCEPT ![w].status = ExitStatus(t)],
                                  w, COMPLETED)
            /\ local' = [local EXCEPT ![t].cursor = writer[w].link_older]
            /\ UNCHANGED pc
       ELSE /\ writer' = IF t = g THEN writer ELSE SetState(writer, w, COMPLETED)
            /\ local' = [local EXCEPT ![t].cursor = Null]
            /\ Goto(t, Completed(writer, t))
    /\ UNCHANGED <<heads, group, stalls, writes, dbVars>>
----------------------------------------------------------------------------
(* ExitAsBatchGroupLeader with pipelining: leave a dummy in the queue so   *)
(* that nobody overtakes, complete whoever skips the memtable, move the    *)
(* rest to the memtable queue, then wake the next leader.                  *)

WalExit(t) ==
    LET last == group[t].last_writer
        failed == [writer EXCEPT ![t].status = local[t].status]
        W == CreateMissingNewerLinks(failed, newest_writer)
        next == W[last].link_newer
    IN
    /\ pc[t] = "wal_exit"
    /\ IF newest_writer = last
       THEN /\ newest_writer' = ExitDummy
            /\ writer' = [failed EXCEPT ![ExitDummy] = NewWriter(NoRequest)]
       ELSE /\ writer' = [W EXCEPT ![next].link_older = ExitDummy,
                             ![ExitDummy] = [NewWriter(NoRequest) EXCEPT
                                                !.link_newer = next]]
            /\ UNCHANGED newest_writer
    /\ local' = [local EXCEPT ![t].cursor = last]
    /\ Goto(t, "wal_completing")
    /\ UNCHANGED <<newest_memtable_writer, group, stalls, writes, dbVars>>

WalCompleteFollowers(t) ==
    LET w == local[t].cursor
        W == [writer EXCEPT ![w].status = local[t].status]
        g == group[t]
    IN
    /\ pc[t] = "wal_completing"
    /\ w # t
    /\ IF ShouldWriteToMemtable(W[w])
       THEN writer' = W /\ UNCHANGED group
       ELSE /\ writer' = CompleteFollower(W, w, g)
            /\ group' = [group EXCEPT ![t] = CompleteFollowerGroup(W, w, g)]
    /\ local' = [local EXCEPT ![t].cursor = writer[w].link_older]
    /\ UNCHANGED <<heads, stalls, pc, writes, dbVars>>

WalLinkGroup(t) ==
    LET skip == ~ShouldWriteToMemtable(writer[t])
        W == IF skip THEN CompleteLeader(writer, group[t]) ELSE writer
        g == IF skip THEN CompleteLeaderGroup(writer, group[t]) ELSE group[t]
        linked == LinkGroup(W, g, newest_memtable_writer)
    IN
    /\ pc[t] = "wal_completing"
    /\ local[t].cursor = t
    /\ group' = [group EXCEPT ![t] = g]
    /\ IF g.size = 0
       THEN writer' = W /\ UNCHANGED newest_memtable_writer
       ELSE /\ newest_memtable_writer' = g.last_writer
            /\ writer' = IF newest_memtable_writer = Null
                         THEN SetState(linked, g.leader, MEMTABLE_WRITER_LEADER)
                         ELSE linked
    /\ Goto(t, "wal_unlink")
    /\ UNCHANGED <<newest_writer, stalls, local, writes, dbVars>>

WalUnlinkDummy(t) ==
    /\ pc[t] = "wal_unlink"
    /\ IF newest_writer = ExitDummy
       THEN newest_writer' = Null /\ UNCHANGED writer
       ELSE /\ LET W == CreateMissingNewerLinks(writer, newest_writer)
               IN  writer' = Promote(W, W[ExitDummy].link_newer, GROUP_LEADER)
            /\ UNCHANGED newest_writer
    /\ local' = [local EXCEPT ![t] = [NoLocal EXCEPT !.on = t,
                    !.goal = {MEMTABLE_WRITER_LEADER,
                              PARALLEL_MEMTABLE_WRITER, COMPLETED}]]
    /\ Goto(t, "await")
    /\ UNCHANGED <<newest_memtable_writer, group, stalls, writes, dbVars>>
----------------------------------------------------------------------------
(* ExitAsMemTableWriter, by the leader of the memtable group or the last   *)
(* of its parallel members: followers are completed oldest first, the      *)
(* leader, whose stack holds the group, last.                              *)

ExitKeepsHead(t) ==    \* mutated: the last group stays in the queue
    LET g == group[writer[t].write_group]
    IN
    /\ pc[t] = "memtable_exit"
    /\ IF newest_memtable_writer = g.last_writer
       THEN UNCHANGED writer
       ELSE LET W == CreateMissingNewerLinks(writer, newest_memtable_writer)
            IN  writer' = Promote(W, W[g.last_writer].link_newer,
                                  MEMTABLE_WRITER_LEADER)
    /\ local' = [local EXCEPT ![t].cursor = g.leader]
    /\ Goto(t, "memtable_completing")
    /\ UNCHANGED <<heads, group, stalls, writes, dbVars>>
ExitAsMemTableWriter(t) ==
    LET g == group[writer[t].write_group]
    IN
    /\ pc[t] = "memtable_exit"
    /\ IF newest_memtable_writer = g.last_writer
       THEN newest_memtable_writer' = Null /\ UNCHANGED writer
       ELSE /\ LET W == CreateMissingNewerLinks(writer, newest_memtable_writer)
               IN  writer' = Promote(W, W[g.last_writer].link_newer,
                                     MEMTABLE_WRITER_LEADER)
            /\ UNCHANGED newest_memtable_writer
    /\ local' = [local EXCEPT ![t].cursor = g.leader]
    /\ Goto(t, "memtable_completing")
    /\ UNCHANGED <<newest_writer, group, stalls, writes, dbVars>>

MemTableCompleteAll(t) ==    \* mutated: the leader is let go in its turn
    LET g == group[writer[t].write_group]
        w == local[t].cursor
    IN
    /\ pc[t] = "memtable_completing"
    /\ w # Null
    /\ writer' = SetState(writer, w, COMPLETED)
    /\ local' = [local EXCEPT ![t].cursor =
                    IF w = g.last_writer THEN Null ELSE writer[w].link_newer]
    /\ UNCHANGED <<heads, group, stalls, pc, writes, dbVars>>
MemTableComplete(t) ==
    LET g == group[writer[t].write_group]
        w == local[t].cursor
        W == IF g.status = OK THEN writer
             ELSE [writer EXCEPT ![w].status = g.status]
    IN
    /\ pc[t] = "memtable_completing"
    /\ w # Null
    /\ writer' = IF w = g.leader THEN W ELSE SetState(W, w, COMPLETED)
    /\ local' = [local EXCEPT ![t].cursor =
                    IF w = g.last_writer THEN Null ELSE writer[w].link_newer]
    /\ UNCHANGED <<heads, group, stalls, pc, writes, dbVars>>

MemTableCompleteLeader(t) ==
    /\ pc[t] = "memtable_completing"
    /\ local[t].cursor = Null
    /\ writer' = SetState(writer, group[writer[t].write_group].leader, COMPLETED)
    /\ Goto(t, "return")
    /\ UNCHANGED <<heads, group, stalls, local, writes, dbVars>>
----------------------------------------------------------------------------
(* The write returns: its Writer and its group leave the stack.            *)
Result(t) ==
    IF local[t].status # OK THEN local[t].status ELSE FinalStatus(writer[t])

Return(t) ==
    /\ pc[t] = "return"
    /\ writer' = [writer EXCEPT ![t] = NewWriter(NoRequest)]
    /\ group' = [group EXCEPT ![t] = NewGroup]
    /\ local' = [local EXCEPT ![t] = NoLocal]
    /\ Goto(t, "idle")
    /\ UNCHANGED <<heads, stalls, writes, dbVars>>

(* The write controller: compaction debt and full memtables stop the       *)
(* writes, and flushes and compactions let them go on.                     *)
StopWrites ==
    /\ ~stopped /\ Loads[load].stops
    /\ stall_begun_count < MaxStalls
    /\ stopped' = TRUE
    /\ UNCHANGED <<wtVars, pc, local, writes, seqVars, logVars, mem,
                   bg_error, io_errors, extVars>>
ResumeWrites ==
    /\ stopped
    /\ stopped' = FALSE
    /\ UNCHANGED <<wtVars, pc, local, writes, seqVars, logVars, mem,
                   bg_error, io_errors, extVars>>

ThreadStep(t) ==
    \/ LinkStalled(t) \/ LinkOne(t)
    \/ AwaitSpin(t) \/ BlockingAwaitCAS(t) \/ BlockingAwaitWait(t)
    \/ MemTableWritersDrained(t) \/ StartUnbatched(t) \/ ExitUnbatched(t)
    \/ StartLeader(t) \/ NoFlushDue(t) \/ WaitForPendingWrites(t)
    \/ WaitOnSwitchCV(t) \/ SwitchMemtable(t) \/ SwitchMemtableFails(t)
    \/ TakeStopToken(t) \/ UnlockWAL(t) \/ WaitForStallEndedCount(t)
    \/ PreprocessWrite(t) \/ BeginWriteStall(t) \/ StallWalk(t)
    \/ EndWriteStall(t)
    \/ EnterAsBatchGroupLeader(t) \/ WriteToWAL(t) \/ WriteToWALFails(t)
    \/ UnorderedSyncFails(t) \/ UnorderedPublish(t)
    \/ UnorderedWriteMemtable(t) \/ PendingWriteDone(t) \/ NotifySwitch(t)
    \/ WriteStatusCheck(t)
    \/ EnterAsMemTableWriter(t) \/ InsertGroup(t)
    \/ LaunchParallelMemTableWriters(t) \/ LaunchNext(t)
    \/ ParallelInsert(t) \/ ReportFailure(t)
    \/ CompleteParallelMemTableWriter(t) \/ Publish(t)
    \/ ExitAsBatchGroupLeader(t) \/ CompleteFollowers(t)
    \/ WalExit(t) \/ WalCompleteFollowers(t) \/ WalLinkGroup(t)
    \/ WalUnlinkDummy(t)
    \/ ExitAsMemTableWriter(t) \/ MemTableComplete(t)
    \/ MemTableCompleteLeader(t)
    \/ Return(t)

(* Nobody needs to write again.                                            *)
Finished ==
    /\ \A t \in Threads : pc[t] = "idle"
    /\ UNCHANGED vars

Next ==
    \/ \E t \in Threads : BeginWrite(t) \/ LockWAL(t) \/ ThreadStep(t)
    \/ StopWrites \/ ResumeWrites
    \/ Finished

Spec == Init /\ [][Next]_vars

(* A thread inside a write can take a step unless it waits for a stall to  *)
(* end or for another thread's SetState.                                   *)
CanStep(t) ==
    /\ pc[t] \notin {"idle", "stalled", "switch_asleep"}
    /\ pc[t] = "unlock_wait" => stall_ended_count >= local[t].stall
    /\ pc[t] = "block" => writer[local[t].on].state # LOCKED_WAITING
    /\ pc[t] = "stalling" => bg_error \/ ~IsStopped \/ stall_begun_count < MaxStalls

(* The operating system runs every thread that can run (this is            *)
(* WF_vars(ThreadStep(t)), with CanStep(t) for ENABLED ThreadStep(t)), and *)
(* a stall ends.                                                           *)
Fairness ==
    /\ \A t \in Threads : []<>(~CanStep(t)) \/ []<><<ThreadStep(t)>>_vars
    /\ WF_vars(ResumeWrites)

FairSpec == Spec /\ Fairness
----------------------------------------------------------------------------
(* Properties                                                              *)

Labels ==
    {"idle", "link", "stalled", "await", "block", "drained", "leader",
     "enter_unbatched", "unbatched", "flush_due", "switch", "preprocess",
     "stall_walk", "stalling", "enter", "log", "launch", "launching",
     "insert_group", "insert", "report", "complete_parallel", "publish",
     "exit", "completing", "wal_exit", "wal_completing", "wal_unlink",
     "memtable_leader", "memtable_exit", "memtable_completing", "return", "pending",
     "switch_asleep", "lock_exit", "locked", "unlock_wait", "unordered_publish",
     "unordered_insert", "unordered_done", "switch_notify", "unordered_check"}

(* The types of the queue, the Writers, the groups and the locals; a       *)
(* group's `running' never wraps below zero and the log is never synced    *)
(* beyond its end.                                                         *)
TypeOK ==
    /\ newest_writer \in Pointers
    /\ newest_memtable_writer \in Pointers
    /\ \A w \in Writers :
         /\ writer[w].state \in States
         /\ writer[w].status \in Statuses
         /\ writer[w].link_older \in Pointers
         /\ writer[w].link_newer \in Pointers
         /\ writer[w].write_group \in Threads \cup {Null}
         /\ writer[w].sequence \in Nat
    /\ \A t \in Threads :
         /\ pc[t] \in Labels
         /\ writes[t] \in 0..MaxWrites
         /\ group[t].leader \in Threads \cup {Null}
         /\ group[t].last_writer \in Threads \cup {Null}
         /\ group[t].size \in 0..Cardinality(Threads)
         /\ group[t].running \in 0..Cardinality(Threads)
         /\ local[t].cursor \in Pointers
         /\ local[t].status \in Statuses
    /\ LastSequence \in Nat /\ last_sequence \in Nat
    /\ wal_synced \in 0..Len(wal)
    /\ lock_wal_count \in 0..Cardinality(Threads)
    /\ pending_memtable_writes \in 0..Cardinality(Threads)

Waiting(t) == pc[t] \in {"await", "block"}

(* The thread runs the part of a write that only the leader may run.       *)
Leading(t) ==
    \/ pc[t] \in {"leader", "enter_unbatched", "unbatched", "flush_due",
                  "switch", "preprocess", "stall_walk", "stalling", "enter",
                  "log", "wal_exit", "wal_completing", "wal_unlink", "drained",
                  "pending", "switch_asleep", "lock_exit", "unordered_publish"}
    \/ Waiting(t) /\ local[t].on = MemDummy
    \/ /\ ~enable_pipelined_write
       /\ pc[t] \in {"launch", "launching", "insert_group", "publish", "exit"}

(* The thread writes to the memtable, or publishes what was written.       *)
InMemTable(t) ==
    pc[t] \in {"memtable_leader", "launch", "launching", "insert_group", "insert",
              "report", "complete_parallel", "publish", "unordered_insert"}

(* Leadership is exclusive ("Correctness is maintained by ensuring that    *)
(* only a single thread is a leader at a time", write_thread.h:280), and   *)
(* whoever switches memtables or is in an unbatched section is alone with  *)
(* the memtable as well, which SwitchMemtable relies on ("There should be  *)
(* no concurrent write", db_impl_write.cc:2187).                           *)
LeaderIsAlone ==
    \A t, u \in Threads :
        t # u /\ Leading(t) =>
            /\ ~Leading(u)
            /\ pc[t] = "switch" => ~InMemTable(u)
            /\ ~unordered_write /\ pc[t] = "unbatched" => ~InMemTable(u)
            /\ ~enable_pipelined_write /\ ~unordered_write /\ pc[t] \in {"flush_due", "enter", "log"}
                 => ~InMemTable(u)

(* The thread has no Writer on its stack.                                  *)
Gone == {"idle", "link", "return", "locked", "unlock_wait", "unordered_insert",
         "unordered_done", "switch_notify", "unordered_check"}

(* The shape of the queue a leader relies on.  From each head, link_older  *)
(* leads through distinct writers that are still on their owners' stacks   *)
(* to the end; link_newer is set from the oldest writer up to some point,  *)
(* never with a hole, and where it is set it inverts link_older            *)
(* (the assertion of CreateMissingNewerLinks, write_thread.cc:291).        *)
WellLinked(head) ==
    LET c == OlderChain(writer, head)
        newer(i) == writer[c[i]].link_newer
    IN  /\ Len(c) < Cardinality(Writers)
        /\ \A i, j \in DOMAIN c : c[i] = c[j] => i = j
        /\ \A i \in DOMAIN c :
             /\ c[i] \in Threads => pc[c[i]] \notin Gone
             /\ i > 1 => newer(i) \in {Null, c[i - 1]}
             /\ i > 2 /\ newer(i) = Null => newer(i - 1) = Null
QueuesWellLinked ==
    WellLinked(newest_writer) /\ WellLinked(newest_memtable_writer)

(* A thread that walks over other threads' writers, or uses another        *)
(* thread's write group, never touches one whose owner has already gone:   *)
(* the Writer is on the owner's stack and "the other thread's Await may    *)
(* return and deallocate the Writer" (write_thread.cc:784).                *)
NoDanglingPointer ==
    \A t \in Threads :
        /\ pc[t] \in {"launching", "completing", "memtable_completing"}
             /\ local[t].cursor # Null
             => writer[local[t].cursor].write_group = writer[t].write_group
        /\ pc[t] = "wal_completing"
             => writer[local[t].cursor].write_group = t
        /\ pc[t] \in {"insert", "report", "complete_parallel", "publish", "exit",
                      "completing", "memtable_exit", "memtable_completing"}
             => LET g == writer[t].write_group
                IN  g # Null /\ group[g].size > 0 /\ pc[g] # "idle"
        /\ pc[t] = "stall_walk" /\ local[t].cursor \in Threads
             => pc[local[t].cursor] \notin Gone

(* While a stall is in force, no no_slowdown write waits in the queue: it  *)
(* "fails immediately" (WriteOptions::no_slowdown, options.h:1728).        *)
NoSlowdownNeverStalls ==
    \A t, u \in Threads :
        /\ pc[t] = "stalling" /\ pc[u] \in {"await", "block", "stalled"}
        /\ writer[u].request.no_slowdown
        => \/ writer[u].state = COMPLETED
           \/ u \notin ToSet(OlderChain(writer, newest_writer))

(* A write that returns OK has happened: it is in a memtable and visible   *)
(* to readers, it is in the log unless it disabled the log, and the log    *)
(* is durable up to it if it asked for sync.                               *)
Visible(op) == {e.key : e \in {e \in mem : e.op = op /\ e.seq <= LastSequence}}
Inserted(t) == Visible(Op(t)) = 1..writer[t].request.count
Logged(t, upto) == \E i \in 1..upto : wal[i].op = Op(t)

OkMeansWritten ==
    \A t \in Threads :
        /\ pc[t] = "return" /\ Result(t) = OK /\ writer[t].request.batch
        => /\ ~writer[t].request.disable_memtable => Inserted(t)
           /\ ~writer[t].request.disable_wal => Logged(t, Len(wal))
           /\ writer[t].request.sync => Logged(t, wal_synced)

(* Recovery replays the log with the numbers the log gives: they agree     *)
(* with the numbers in the memtable, the log is in sequence order, and a   *)
(* batch never lands in a memtable younger than the logs that are kept for *)
(* it (a log older than next_log_number of a flushed memtable is deleted). *)
LogMatchesMemTable ==
    /\ \A i, j \in DOMAIN wal : i < j => wal[i].seq <= wal[j].seq
    /\ \A i \in DOMAIN wal, e \in mem :
         wal[i].op = e.op =>
            /\ wal[i].seq + e.key - 1 = e.seq
            /\ e.memtable > 1 => wal[i].log >= sealed[e.memtable - 1]

(* Readers see all of a batch or nothing of it: a WriteBatch is "a         *)
(* collection of updates to apply atomically" (write_batch.h:9), unless    *)
(* one of its records cannot be inserted.                                  *)
BatchAtomic ==
    \A t \in Threads :
        pc[t] # "idle" /\ writer[t].request.bad = 0 =>
            Visible(Op(t)) \in {{}, 1..writer[t].request.count}

(* From the return of LockWAL to the call of UnlockWAL nothing is written: *)
(* it "freezes the logical state of the DB (by stopping writes)"           *)
(* (db.h:1587), however the locks of several threads overlap.  With        *)
(* unordered_write it does not hold: LockWAL waits for the write queue,    *)
(* not for pending_memtable_writes_.                                       *)
LockWALFreezes ==
    [][\A t \in Threads : pc[t] = "locked" /\ pc'[t] = "locked" =>
            UNCHANGED <<wal, mem, LastSequence>>]_vars

(* Once UnlockWAL has returned, no stall is left of those it caused, "so   *)
(* that no_slowdown writes after UnlockWAL() are guaranteed to succeed if  *)
(* there's no other source of stall" (db_impl.cc:1612).                    *)
UnlockWALEndsStall ==
    /\ ~Loads[load].stops /\ ~IsStopped
    /\ newest_writer = StallDummy
    => \E t \in Threads : pc[t] = "unlock_wait"

(* Every write returns, whatever the others do, as long as stalls end.     *)
EveryWriteReturns == \A t \in Threads : pc[t] # "idle" ~> pc[t] = "idle"

(* A write is one atomic action on what readers see: the batches that are  *)
(* visible, in sequence-number order, form a history that only grows at    *)
(* its end, by batches whose call is in progress, and that holds every     *)
(* batch whose write to the memtable returned OK.  The history is read off *)
(* the memtables, a set of batches for each number: two batches with the   *)
(* same number, or a number that moves, would not be a step of it.         *)
PublicHistory ==
    LET at == [s \in 1..LastSequence |->
                   {e.op : e \in {e \in mem : e.key = 1 /\ e.seq = s}}]
    IN  SelectSeq(at, LAMBDA ops : ops # {})
PublicPhase ==
    [t \in Threads |->
        CASE pc[t] = "idle" -> "idle"
          [] pc[t] = "return" ->
               IF /\ Result(t) = OK
                  /\ writer[t].request.count > 0
                  /\ ~writer[t].request.disable_memtable
               THEN "ok" ELSE "other"
          [] OTHER -> "pending"]
Atomic == INSTANCE AtomicWrites
            WITH calls <- writes, phase <- PublicPhase, history <- PublicHistory
WritesAreAtomic == Atomic!Spec
=============================================================================
