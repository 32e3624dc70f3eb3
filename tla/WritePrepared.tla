---------------------------- MODULE WritePrepared ----------------------------
(***************************************************************************)
(* WritePrepared transactions (utilities/transactions).     *)
(* A transaction's data enter the memtable when it is prepared, under the  *)
(* sequence number prep; they become visible at a later number, commit,    *)
(* which only the structures below know.  IsInSnapshot must find out, from *)
(* parts it reads one at a time and mostly without a lock, whether the     *)
(* data of prep were committed at or before a snapshot:                    *)
(*   commit_cache            COMMIT_CACHE_SIZE entries, at prep modulo it  *)
(*   max_evicted_seq         entries evicted so far have commits below it  *)
(*   future_max_evicted_seq  what max_evicted_seq is about to become       *)
(*   prepared_txns           the prepared heap; delayed_prepared: those    *)
(*                           of its numbers that max_evicted_seq overtook  *)
(*   delayed_prepared_commits  commits evicted before their prep left      *)
(*                           delayed_prepared                              *)
(*   old_commit_map          for a snapshot below max_evicted_seq: what    *)
(*                           was evicted although committed after it       *)
(*                                                                         *)
(* With one write queue prepares and commits are writes of the same write  *)
(* thread, a write group calls the callbacks of its writes in turn and     *)
(* publishes them together, and a committer calls RemovePrepared           *)
(* afterwards.  With two write queues prepares go through the main queue,  *)
(* commits through the second one, whose callback publishes and removes.   *)
(* A prepared_mutex_ critical section of more than one visible step holds  *)
(* the mutex; the others are single steps.  AddCommitted runs in one       *)
(* thread at a time, so snapshots_version_ equals max_evicted_seq when it  *)
(* is compared and the exchange of a commit entry succeeds.  Every batch   *)
(* has one sub-batch, and recovery and the recoverable state are left out. *)
(***************************************************************************)
EXTENDS Naturals, Sequences, FiniteSets, FiniteSetsExt

CONSTANTS Txns, Readers,
          Setups   \* what may be run, see SetupAssumption

Plans == {"2pc", "direct", "rollback", "none"}    \* a transaction's life
(* How a reader reads: from a snapshot, without one, or it only takes a    *)
(* snapshot and releases it.                                               *)
Kinds == {"snapshot", "unbacked", "holder", "none"}

ASSUME SetupAssumption ==
    Setups \subseteq [two_write_queues : BOOLEAN, COMMIT_CACHE_SIZE : Nat \ {0},
                      plan : [Txns -> Plans], kind : [Readers -> Kinds],
                      max_group : Nat \ {0}]

VARIABLES
    setup,
    last_allocated, last_sequence, last_published,    \* VersionSet
    commit_cache, max_evicted_seq, future_max_evicted_seq,
    prepared_txns, delayed_prepared, delayed_prepared_empty,
    delayed_prepared_commits, prepared_mutex,
    old_commit_map, old_commit_map_empty,
    snapshots_all,      \* the snapshots UpdateSnapshots stored last
    txn,                \* the transactions, and the empty one of each reader
    queue,              \* the write group in progress in each write queue
    add,                \* the AddPrepared in progress
    commit,             \* the AddCommitted in progress
    inserted,           \* the numbers whose data are in the memtable
    commit_of,          \* history: the commit number given to each number
    reader

sequences == <<last_allocated, last_sequence, last_published>>
prepared == <<prepared_txns, delayed_prepared, delayed_prepared_empty,
              delayed_prepared_commits, prepared_mutex>>
evictions == <<commit_cache, max_evicted_seq, future_max_evicted_seq>>
olds == <<old_commit_map, old_commit_map_empty, snapshots_all>>
vars == <<setup, sequences, prepared, evictions, olds, txn, queue, add, commit,
          inserted, commit_of, reader>>

two == setup.two_write_queues
Actors == Txns \cup Readers
PlanOf(a) == IF a \in Txns THEN setup.plan[a] ELSE "2pc"

(* The writes of a transaction, in order: with two queues a write that     *)
(* brings data of its own is prepared first and committed by another one.  *)
(* No write fails.                                                         *)
Steps(a) ==
    CASE PlanOf(a) = "2pc" -> <<"prepare", "commit">>
      [] PlanOf(a) = "direct" -> IF two THEN <<"prepare", "commit">>
                                 ELSE <<"commit">>
      [] PlanOf(a) = "rollback" -> IF two THEN <<"prepare", "aux", "commit">>
                                   ELSE <<"prepare", "commit">>
      [] PlanOf(a) = "none" -> << >>
Op(a) == Steps(a)[txn[a].step]
Queues == {"main", "second"}
QueueOf(op) == IF two /\ op = "commit" THEN "second" ELSE "main"
CommitQueue == QueueOf("commit")

(* A commit write of one queue may insert data that it commits itself.     *)
OwnData(a) == ~two /\ PlanOf(a) \in {"direct", "rollback"}

Idle == [writes |-> << >>, done |-> 0, at |-> "idle"]
NoEntry == [prep |-> 0, commit |-> 0]
kMaxSequenceNumber == 1000000    \* above every number: top of an empty heap

top == IF prepared_txns = {} THEN kMaxSequenceNumber ELSE Min(prepared_txns)
LastPublished == IF two THEN last_published ELSE last_sequence
Index(prep) == prep % setup.COMMIT_CACHE_SIZE

NewReader == [at |-> "idle", held |-> FALSE, snap |-> 0, min |-> 0, next |-> 0,
              top |-> 0, retries |-> 0, prep |-> 0, lb |-> 0, ub |-> 0, was_empty |-> TRUE,
              ret |-> FALSE, released |-> FALSE]

Init ==
    /\ setup \in Setups
    /\ last_allocated = 0 /\ last_sequence = 0 /\ last_published = 0
    /\ commit_cache = [i \in 0..setup.COMMIT_CACHE_SIZE - 1 |-> NoEntry]
    /\ max_evicted_seq = 0 /\ future_max_evicted_seq = 0
    /\ prepared_txns = {} /\ delayed_prepared = {}
    /\ delayed_prepared_empty = TRUE /\ delayed_prepared_commits = << >>
    /\ prepared_mutex = "free"
    /\ old_commit_map = << >> /\ old_commit_map_empty = TRUE
    /\ snapshots_all = {}
    /\ txn = [a \in Actors |-> [step |-> 1, busy |-> FALSE, prep |-> 0,
                                aux |-> 0, remove |-> << >>]]
    /\ queue = [k \in Queues |-> Idle]
    /\ add = [at |-> "idle", new_max |-> 0]
    /\ commit = [at |-> "idle", todo |-> << >>, seq |-> 0, evicted |-> NoEntry,
                 new_max |-> 0, snapshots |-> {}]
    /\ inserted = {} /\ commit_of = << >>
    /\ reader = [r \in Readers |-> NewReader]

-----------------------------------------------------------------------------
(* The write queues (DBImpl::WriteImpl, WriteImplWALOnly).                 *)

(* A transaction that may write next: its last write has returned and what *)
(* it had to remove is removed.  A reader's empty transaction is the one   *)
(* of AdvanceSeqByOne.                                                     *)
Wants(a) ==
    /\ ~txn[a].busy /\ txn[a].remove = << >>
    /\ txn[a].step <= Len(Steps(a))
    /\ a \in Readers => reader[a].at = "advance"

Groups(k) ==
    {as \in UNION {[1..n -> Actors] : n \in 1..setup.max_group} :
        /\ \A i, j \in DOMAIN as : as[i] = as[j] => i = j
        /\ \A i \in DOMAIN as : Wants(as[i]) /\ QueueOf(Op(as[i])) = k}

(* The numbers a commit write with number seq commits, in the order of the *)
(* AddCommitted calls of its callback.                                     *)
ToCommit(a, seq) ==
    CASE PlanOf(a) = "rollback" /\ two -> <<txn[a].aux, txn[a].prep>>
      [] PlanOf(a) = "rollback" /\ ~two -> <<txn[a].prep, seq>>
      [] PlanOf(a) = "direct" /\ ~two -> <<seq>>
      [] OTHER -> <<txn[a].prep>>

(* A leader takes a group of waiting writes and allocates their numbers.   *)
EnterQueue(k) ==
    /\ queue[k].at = "idle"
    /\ \E as \in Groups(k) :
        LET ws == [i \in DOMAIN as |-> [actor |-> as[i], op |-> Op(as[i]),
                                        seq |-> last_allocated + i]]
            new(p) == {i \in DOMAIN ws : ws[i].op = "commit" /\
                          \E j \in DOMAIN ToCommit(as[i], ws[i].seq) :
                              ToCommit(as[i], ws[i].seq)[j] = p}
            numbers == 1..last_allocated + Len(as)
        IN  /\ queue' = [queue EXCEPT ![k] = [writes |-> ws, done |-> 0,
                                              at |-> "callbacks"]]
            /\ last_allocated' = last_allocated + Len(as)
            /\ txn' = [a \in Actors |-> [txn[a] EXCEPT
                        !.busy = @ \/ \E i \in DOMAIN as : as[i] = a]]
            /\ commit_of' = [p \in DOMAIN commit_of \cup {n \in numbers : new(n) # {}} |->
                                IF p \in DOMAIN commit_of THEN commit_of[p]
                                ELSE ws[CHOOSE i \in new(p) : TRUE].seq]
    /\ UNCHANGED <<setup, last_sequence, last_published, prepared, evictions,
                   olds, add, commit, inserted, reader>>

(* The write whose callback is next, or in progress.                       *)
Current(k) == queue[k].writes[queue[k].done + 1]
Called(k) == [queue EXCEPT ![k].done = @ + 1, ![k].at = "callbacks"]

(* AddPreparedCallback pushes the number ...                               *)
StartAddPrepared ==
    /\ queue["main"].at = "callbacks"
    /\ queue["main"].done < Len(queue["main"].writes)
    /\ Current("main").op # "commit"
    /\ queue' = [queue EXCEPT !["main"].at = "calling"]
    /\ prepared_txns' = prepared_txns \cup {Current("main").seq}
    /\ add' = [add EXCEPT !.at = "future"]
    /\ UNCHANGED <<setup, sequences, delayed_prepared, delayed_prepared_empty,
                   delayed_prepared_commits, prepared_mutex, evictions, olds,
                   txn, commit, inserted, commit_of, reader>>

(* ... and looks whether max_evicted_seq is about to pass it.              *)
AddPrepared ==
    /\ add.at = "future"
    /\ IF Current("main").seq <= future_max_evicted_seq
       THEN /\ add' = [at |-> "lock", new_max |-> future_max_evicted_seq]
            /\ UNCHANGED queue
       ELSE add' = [add EXCEPT !.at = "idle"] /\ queue' = Called("main")
    /\ UNCHANGED <<setup, sequences, prepared, evictions, olds, txn, commit,
                   inserted, commit_of, reader>>

(* CheckPreparedAgainstMax, of AddPrepared and of AdvanceMaxEvictedSeq: a  *)
(* look at the top, then with the mutex each number up to new_max is put   *)
(* into delayed_prepared and, in a step of its own, popped.                *)
Lock(who) == prepared_mutex = "free" /\ prepared_mutex' = who
Unlock(who) == prepared_mutex = who /\ prepared_mutex' = "free"
Delay(new_max) ==
    /\ top <= new_max
    /\ delayed_prepared' = delayed_prepared \cup {top}
    /\ delayed_prepared_empty' = FALSE
Pop == prepared_txns' = prepared_txns \ {top}

AddChecks ==
    /\ \/ /\ add.at = "lock" /\ top <= add.new_max
          /\ Lock("add") /\ add' = [add EXCEPT !.at = "move"]
          /\ UNCHANGED <<prepared_txns, delayed_prepared, delayed_prepared_empty, queue>>
       \/ /\ add.at = "lock" /\ top > add.new_max
          /\ add' = [add EXCEPT !.at = "idle"] /\ queue' = Called("main")
          /\ UNCHANGED <<prepared_txns, delayed_prepared, delayed_prepared_empty,
                         prepared_mutex>>
       \/ /\ add.at = "move" /\ Delay(add.new_max)
          /\ add' = [add EXCEPT !.at = "pop"]
          /\ UNCHANGED <<prepared_txns, prepared_mutex, queue>>
       \/ /\ add.at = "pop" /\ Pop /\ add' = [add EXCEPT !.at = "move"]
          /\ UNCHANGED <<delayed_prepared, delayed_prepared_empty, prepared_mutex, queue>>
       \/ /\ add.at = "move" /\ top > add.new_max /\ Unlock("add")
          /\ add' = [add EXCEPT !.at = "idle"] /\ queue' = Called("main")
          /\ UNCHANGED <<prepared_txns, delayed_prepared, delayed_prepared_empty>>
    /\ UNCHANGED <<setup, sequences, delayed_prepared_commits, evictions, olds,
                   txn, commit, inserted, commit_of, reader>>

(* After the callbacks of the main queue the data go to the memtable, then *)
(* SetLastSequence makes the numbers of the group the last ones.           *)
InsertInto ==
    /\ queue["main"].at = "callbacks"
    /\ queue["main"].done = Len(queue["main"].writes)
    /\ queue' = [queue EXCEPT !["main"].at = "inserted"]
    /\ inserted' = inserted \cup
          {w.seq : w \in {w \in Range(queue["main"].writes) :
                            w.op = "commit" => OwnData(w.actor)}}
    /\ UNCHANGED <<setup, sequences, prepared, evictions, olds, txn, add, commit,
                   commit_of, reader>>

(* What a transaction knows, and has still to remove, when its write       *)
(* returns.  A commit from the second queue has removed prep already, but  *)
(* a rollback does so only now.                                            *)
Returned(t, w) ==
    [t EXCEPT !.busy = FALSE, !.step = @ + 1,
              !.prep = IF w.op = "prepare" THEN w.seq ELSE @,
              !.aux = IF w.op = "aux" THEN w.seq ELSE @,
              !.remove = IF w.op # "commit" THEN << >>
                         ELSE IF two
                         THEN IF PlanOf(w.actor) = "rollback"
                              THEN <<t.prep, t.aux>> ELSE << >>
                         ELSE IF PlanOf(w.actor) = "direct" THEN << >>
                         ELSE <<t.prep>>]
AllReturned(k) ==
    [a \in Actors |->
        IF \E i \in DOMAIN queue[k].writes : queue[k].writes[i].actor = a
        THEN Returned(txn[a], CHOOSE w \in Range(queue[k].writes) : w.actor = a)
        ELSE txn[a]]

ExitMain ==
    /\ queue["main"].at = "inserted"
    /\ last_sequence' = queue["main"].writes[Len(queue["main"].writes)].seq
    /\ txn' = AllReturned("main")
    /\ queue' = [queue EXCEPT !["main"] = Idle]
    /\ UNCHANGED <<setup, last_allocated, last_published, prepared, evictions,
                   olds, add, commit, inserted, commit_of, reader>>

ExitSecond ==
    /\ queue["second"].at = "callbacks"
    /\ queue["second"].done = Len(queue["second"].writes)
    /\ txn' = AllReturned("second")
    /\ queue' = [queue EXCEPT !["second"] = Idle]
    /\ UNCHANGED <<setup, sequences, prepared, evictions, olds, add, commit,
                   inserted, commit_of, reader>>

Removed(prep) ==
    /\ prepared_mutex = "free"
    /\ prepared_txns' = prepared_txns \ {prep}
    /\ delayed_prepared' = delayed_prepared \ {prep}
    /\ delayed_prepared_commits' =
          [p \in DOMAIN delayed_prepared_commits \ {prep} |-> delayed_prepared_commits[p]]
    /\ delayed_prepared_empty' = (delayed_prepared' = {})
    /\ UNCHANGED prepared_mutex

RemovePrepared(a) ==
    /\ txn[a].remove # << >>
    /\ Removed(Head(txn[a].remove))
    /\ txn' = [txn EXCEPT ![a].remove = Tail(@)]
    /\ UNCHANGED <<setup, sequences, evictions, olds, queue, add, commit,
                   inserted, commit_of, reader>>

-----------------------------------------------------------------------------
(* AddCommitted and AdvanceMaxEvictedSeq, called for each number the       *)
(* commit write commits.                                                   *)

StartCommit ==
    /\ queue[CommitQueue].at = "callbacks"
    /\ queue[CommitQueue].done < Len(queue[CommitQueue].writes)
    /\ LET w == Current(CommitQueue)
       IN  /\ w.op = "commit"
           /\ commit' = [commit EXCEPT !.at = "evict", !.seq = w.seq,
                                       !.todo = ToCommit(w.actor, w.seq)]
    /\ queue' = [queue EXCEPT ![CommitQueue].at = "calling"]
    /\ UNCHANGED <<setup, sequences, prepared, evictions, olds, txn, add,
                   inserted, commit_of, reader>>

(* INC_STEP_FOR_MAX_EVICTED is 1 for a commit cache of less than 200.      *)
NewMax(evicted) ==
    IF evicted.commit < LastPublished
    THEN Min({evicted.commit + 1, LastPublished - 1}) ELSE evicted.commit

AddCommitted ==
    /\ commit.at = "evict"
    /\ LET e == commit_cache[Index(Head(commit.todo))]
       IN  commit' = [commit EXCEPT !.evicted = e,
              !.at = IF e = NoEntry THEN "exchange"
                     ELSE IF max_evicted_seq < e.commit THEN "future" ELSE "delayed",
              !.new_max = IF e # NoEntry /\ max_evicted_seq < e.commit
                          THEN NewMax(e) ELSE 0]
    /\ UNCHANGED <<setup, sequences, prepared, evictions, olds, txn, queue, add,
                   inserted, commit_of, reader>>

DeclareFutureMax ==
    /\ commit.at = "future"
    /\ future_max_evicted_seq' = Max({future_max_evicted_seq, commit.new_max})
    /\ commit' = [commit EXCEPT !.at = "lock"]
    /\ UNCHANGED <<setup, sequences, prepared, commit_cache, max_evicted_seq, olds,
                   txn, queue, add, inserted, commit_of, reader>>

CheckPreparedAgainstMax ==
    /\ \/ /\ commit.at = "lock" /\ top <= commit.new_max
          /\ Lock("commit") /\ commit' = [commit EXCEPT !.at = "move"]
          /\ UNCHANGED <<prepared_txns, delayed_prepared, delayed_prepared_empty>>
       \/ /\ commit.at = "lock" /\ top > commit.new_max
          /\ commit' = [commit EXCEPT !.at = "list"]
          /\ UNCHANGED <<prepared_txns, delayed_prepared, delayed_prepared_empty,
                         prepared_mutex>>
       \/ /\ commit.at = "move" /\ Delay(commit.new_max)
          /\ commit' = [commit EXCEPT !.at = "pop"]
          /\ UNCHANGED <<prepared_txns, prepared_mutex>>
       \/ /\ commit.at = "pop" /\ Pop /\ commit' = [commit EXCEPT !.at = "move"]
          /\ UNCHANGED <<delayed_prepared, delayed_prepared_empty, prepared_mutex>>
       \/ /\ commit.at = "move" /\ top > commit.new_max /\ Unlock("commit")
          /\ commit' = [commit EXCEPT !.at = "list"]
          /\ UNCHANGED <<prepared_txns, delayed_prepared, delayed_prepared_empty>>
    /\ UNCHANGED <<setup, sequences, delayed_prepared_commits, evictions, olds,
                   txn, queue, add, inserted, commit_of, reader>>

(* The live snapshots of the database, up to max.                          *)
GetSnapshotListFromDB ==
    /\ commit.at = "list"
    /\ commit' = [commit EXCEPT !.at = "update", !.snapshots =
          {reader[r].snap : r \in {r \in Readers : reader[r].held /\
                                     reader[r].snap <= commit.new_max}}]
    /\ UNCHANGED <<setup, sequences, prepared, evictions, olds, txn, queue, add,
                   inserted, commit_of, reader>>

(* The released snapshots for which something was kept.                    *)
ReleaseSnapshotInternal(S) == {s \in S : s <= max_evicted_seq} \cap DOMAIN old_commit_map

(* UpdateSnapshots with CleanupReleasedSnapshots: what was kept for a      *)
(* snapshot that is no longer in the list is forgotten.                    *)
UpdateSnapshots ==
    /\ commit.at = "update"
    /\ LET released == ReleaseSnapshotInternal(snapshots_all \ commit.snapshots)
           kept == DOMAIN old_commit_map \ released
       IN  /\ old_commit_map' = [s \in kept |-> old_commit_map[s]]
           /\ old_commit_map_empty' = IF released = {} THEN old_commit_map_empty
                                      ELSE kept = {}
    /\ snapshots_all' = commit.snapshots
    /\ commit' = [commit EXCEPT !.at = IF commit.snapshots = {} THEN "max" ELSE "old"]
    /\ UNCHANGED <<setup, sequences, prepared, evictions, txn, queue, add,
                   inserted, commit_of, reader>>

KeepForSnapshots ==
    /\ commit.at = "old"
    /\ old_commit_map' = [s \in DOMAIN old_commit_map \cup commit.snapshots |->
                            IF s \in DOMAIN old_commit_map THEN old_commit_map[s] ELSE {}]
    /\ old_commit_map_empty' = FALSE
    /\ commit' = [commit EXCEPT !.at = "max"]
    /\ UNCHANGED <<setup, sequences, prepared, evictions, snapshots_all, txn, queue,
                   add, inserted, commit_of, reader>>

AdvanceMaxEvictedSeq ==
    /\ commit.at = "max"
    /\ max_evicted_seq' = commit.new_max
    /\ commit' = [commit EXCEPT !.at = "delayed"]
    /\ UNCHANGED <<setup, sequences, prepared, commit_cache, future_max_evicted_seq,
                   olds, txn, queue, add, inserted, commit_of, reader>>

(* A commit evicted while its number is still among the delayed ones.      *)
KeepDelayedCommit ==
    /\ commit.at = "delayed"
    /\ delayed_prepared_empty \/ prepared_mutex = "free"
    /\ LET e == commit.evicted
       IN  delayed_prepared_commits' =
             IF ~delayed_prepared_empty /\ e.prep \in delayed_prepared
             THEN [p \in DOMAIN delayed_prepared_commits \cup {e.prep} |->
                     IF p = e.prep THEN e.commit ELSE delayed_prepared_commits[p]]
             ELSE delayed_prepared_commits
    /\ commit' = [commit EXCEPT !.at = "check"]
    /\ UNCHANGED <<setup, sequences, prepared_txns, delayed_prepared,
                   delayed_prepared_empty, prepared_mutex, evictions, olds, txn,
                   queue, add, inserted, commit_of, reader>>

(* CheckAgainstSnapshots: the scans of snapshot_cache_ and snapshots_ stop *)
(* where no further snapshot of the sorted list can overlap.               *)
CheckAgainstSnapshots ==
    /\ commit.at = "check"
    /\ LET e == commit.evicted
           overlap == {s \in snapshots_all : e.prep <= s /\ s < e.commit}
           of(s) == IF s \in DOMAIN old_commit_map THEN old_commit_map[s] ELSE {}
       IN  /\ old_commit_map' = [s \in DOMAIN old_commit_map \cup overlap |->
                                   of(s) \cup IF s \in overlap THEN {e.prep} ELSE {}]
           /\ old_commit_map_empty' = (old_commit_map_empty /\ overlap = {})
    /\ commit' = [commit EXCEPT !.at = "exchange"]
    /\ UNCHANGED <<setup, sequences, prepared, evictions, snapshots_all, txn, queue,
                   add, inserted, commit_of, reader>>

ExchangeCommitEntry ==
    /\ commit.at = "exchange"
    /\ commit_cache' = [commit_cache EXCEPT ![Index(Head(commit.todo))] =
                          [prep |-> Head(commit.todo), commit |-> commit.seq]]
    /\ LET more == Len(commit.todo) > 1
       IN  /\ commit' = [commit EXCEPT !.todo = Tail(@), !.evicted = NoEntry,
                            !.new_max = 0, !.snapshots = {},
                            !.at = IF more THEN "evict"
                                   ELSE IF two THEN "publish" ELSE "idle"]
           /\ queue' = IF more \/ two THEN queue ELSE Called("main")
    /\ UNCHANGED <<setup, sequences, prepared, max_evicted_seq,
                   future_max_evicted_seq, olds, txn, add, inserted, commit_of, reader>>

(* With two queues the callback publishes the commit, and then removes the *)
(* prepared number unless it is a rollback.                                *)
SetLastPublishedSequence ==
    /\ commit.at = "publish"
    /\ last_published' = commit.seq
    /\ IF PlanOf(Current("second").actor) = "rollback"
       THEN commit' = [commit EXCEPT !.at = "idle"] /\ queue' = Called("second")
       ELSE commit' = [commit EXCEPT !.at = "remove"] /\ UNCHANGED queue
    /\ UNCHANGED <<setup, last_allocated, last_sequence, prepared, evictions, olds,
                   txn, add, inserted, commit_of, reader>>

CallbackRemoves ==
    /\ commit.at = "remove"
    /\ Removed(txn[Current("second").actor].prep)
    /\ commit' = [commit EXCEPT !.at = "idle"] /\ queue' = Called("second")
    /\ UNCHANGED <<setup, sequences, evictions, olds, txn, add, inserted,
                   commit_of, reader>>

-----------------------------------------------------------------------------
(* Readers.  Each takes one snapshot (GetSnapshotInternal), or reads       *)
(* without one (Get with no snapshot in its options), and asks about one   *)
(* number that it finds in the memtable.                                   *)

Go(r, next) ==
    /\ reader' = [reader EXCEPT ![r] = next]
    /\ UNCHANGED <<setup, sequences, prepared, evictions, olds, txn, queue, add,
                   commit, inserted, commit_of>>

SmallestReadsTopFirst(r) ==    \* mutated: the top is read before the next number
    LET me == reader[r]
        else == Min({me.top, me.next})
    IN  \/ /\ me.at = "idle" /\ setup.kind[r] # "none"
           /\ Go(r, [me EXCEPT !.at = "top", !.top = top])
        \/ me.at = "top" /\ Go(r, [me EXCEPT !.at = "min", !.next = last_sequence + 1])
        \/ /\ me.at = "min"
           /\ Go(r, IF delayed_prepared_empty
                    THEN [me EXCEPT !.at = "take", !.min = else]
                    ELSE [me EXCEPT !.at = "min_delayed"])
        \/ /\ me.at = "min_delayed" /\ prepared_mutex = "free"
           /\ Go(r, [me EXCEPT !.at = "take", !.min =
                        IF delayed_prepared = {} THEN else ELSE Min(delayed_prepared)])

(* SmallestUnCommittedSeq: the next number, the top of the heap and the    *)
(* delayed numbers, in this order.                                         *)
SmallestUnCommittedSeq(r) ==
    LET me == reader[r]
        else == Min({me.top, me.next})
    IN  \/ /\ me.at = "idle" /\ setup.kind[r] # "none"
           /\ Go(r, [me EXCEPT !.at = "top", !.next = last_sequence + 1])
        \/ me.at = "top" /\ Go(r, [me EXCEPT !.at = "min", !.top = top])
        \/ /\ me.at = "min"
           /\ Go(r, IF delayed_prepared_empty
                    THEN [me EXCEPT !.at = "take", !.min = else]
                    ELSE [me EXCEPT !.at = "min_delayed"])
        \/ /\ me.at = "min_delayed" /\ prepared_mutex = "free"
           /\ Go(r, [me EXCEPT !.at = "take", !.min =
                        IF delayed_prepared = {} THEN else ELSE Min(delayed_prepared)])

(* GetSnapshotImpl, which lists the snapshot in the database; or GetImpl,  *)
(* which only reads the last published number.                             *)
TakeSnapshot(r) ==
    LET me == reader[r]
        backed == setup.kind[r] # "unbacked"
    IN  /\ me.at = "take"
        /\ Go(r, [me EXCEPT !.snap = LastPublished, !.held = backed,
                            !.next = 0, !.top = 0,
                            !.at = IF backed THEN "future" ELSE "ready"])

(* A snapshot that max_evicted_seq has passed, or is about to, is given    *)
(* back and taken again once an empty transaction has committed; a reader  *)
(* for which that was not enough (the code tries 100 times) stops here.    *)
MaxRetries == 1
GetSnapshotInternal(r) ==
    LET me == reader[r]
    IN  \/ /\ me.at = "future"
           /\ Go(r, IF me.snap # 0 /\ me.snap <= future_max_evicted_seq
                    THEN [me EXCEPT !.held = FALSE, !.retries = @ + 1,
                            !.at = IF me.retries < MaxRetries THEN "advance" ELSE "stopped"]
                    ELSE [me EXCEPT !.at = "ready", !.retries = 0])
        \/ /\ me.at = "advance"
           /\ txn[r].step > Len(Steps(r)) /\ txn[r].remove = << >>
           /\ Go(r, [me EXCEPT !.at = "take"])

(* IsInSnapshot of a number found in the memtable: what needs no look.     *)
StartIsInSnapshot(r) ==
    LET me == reader[r]
    IN  /\ me.at = "ready" /\ setup.kind[r] # "holder"
        /\ \E p \in inserted :
            Go(r, IF me.snap < p \/ p < me.min
                  THEN [me EXCEPT !.prep = p, !.at = "answer", !.ret = ~(me.snap < p)]
                  ELSE [me EXCEPT !.prep = p, !.at = "lb"])

Answer(me, ret) == [me EXCEPT !.at = "answer", !.ret = ret, !.lb = 0, !.ub = 0,
                              !.was_empty = TRUE]

(* The commit cache has the number, and with it the answer; or not.        *)
Lookup(r, next) ==
    LET me == reader[r]
        e == commit_cache[Index(me.prep)]
    IN  Go(r, IF e.prep = me.prep THEN Answer(me, e.commit <= me.snap) ELSE next)

(* When max_evicted_seq has not moved, the number is evicted or delayed.   *)
Again(me, ub) ==
    IF me.lb # ub THEN [me EXCEPT !.at = "lb", !.ub = 0]
    ELSE IF ub < me.snap THEN Answer(me, TRUE)
    ELSE [me EXCEPT !.at = "old_empty", !.ub = ub]

DelayedLooksOnce(r) ==    \* mutated: no second look at the commit cache
    LET me == reader[r]
    IN  /\ me.at = "delayed" /\ prepared_mutex = "free"
        /\ Go(r, IF me.prep \in delayed_prepared
                 THEN Answer(me, me.prep \in DOMAIN delayed_prepared_commits /\
                                 delayed_prepared_commits[me.prep] <= me.snap)
                 ELSE [me EXCEPT !.at = "ub2"])
(* With prepared_mutex_ held for reading: a delayed number is uncommitted, *)
(* unless its commit was evicted already.                                  *)
LookAmongDelayed(r) ==
    LET me == reader[r]
    IN  /\ me.at = "delayed" /\ prepared_mutex = "free"
        /\ Go(r, IF me.prep \in delayed_prepared
                 THEN Answer(me, me.prep \in DOMAIN delayed_prepared_commits /\
                                 delayed_prepared_commits[me.prep] <= me.snap)
                 ELSE [me EXCEPT !.at = "cache2"])

IsInSnapshot(r) ==
    LET me == reader[r]
    IN  \/ me.at = "lb" /\ Go(r, [me EXCEPT !.at = "empty", !.lb = max_evicted_seq])
        \/ /\ me.at = "empty"
           /\ Go(r, [me EXCEPT !.at = "cache", !.was_empty = delayed_prepared_empty])
        \/ me.at = "cache" /\ Lookup(r, [me EXCEPT !.at = "ub"])
        \/ /\ me.at = "ub"
           /\ Go(r, IF me.lb = max_evicted_seq /\ max_evicted_seq < me.prep
                    THEN Answer(me, FALSE)
                    ELSE IF me.lb # max_evicted_seq \/ me.was_empty
                    THEN Again(me, max_evicted_seq)
                    ELSE [me EXCEPT !.at = "delayed"])
        \/ LookAmongDelayed(r)
        \/ me.at = "cache2" /\ Lookup(r, [me EXCEPT !.at = "ub2"])
        \/ me.at = "ub2" /\ Go(r, Again(me, max_evicted_seq))

(* The snapshot is old: what the map keeps for it was committed after it,  *)
(* and when the map has nothing of it the snapshot is not live.            *)
IsInOldSnapshot(r) ==
    LET me == reader[r]
        released == [Answer(me, TRUE) EXCEPT !.released = TRUE]
    IN  \/ /\ me.at = "old_empty"
           /\ Go(r, IF old_commit_map_empty THEN released
                    ELSE [me EXCEPT !.at = "old_map"])
        \/ /\ me.at = "old_map"
           /\ Go(r, IF me.snap \notin DOMAIN old_commit_map THEN released
                    ELSE Answer(me, me.prep \notin old_commit_map[me.snap]))

(* A read without a snapshot is valid only if max_evicted_seq has not      *)
(* reached its number; otherwise Get returns TryAgain.                     *)
ValidateSnapshot(r) ==
    LET me == reader[r]
    IN  /\ me.at = "answer" /\ setup.kind[r] = "unbacked"
        /\ Go(r, IF me.released \/ (me.snap <= max_evicted_seq /\ me.snap # 0)
                 THEN [NewReader EXCEPT !.at = "done"]
                 ELSE [me EXCEPT !.at = "valid"])

(* The snapshot leaves the list of live ones; what old_commit_map keeps    *)
(* for it goes with the next UpdateSnapshots.                              *)
ReleaseSnapshot(r) ==
    /\ reader[r].at \in {"ready", "answer"} /\ reader[r].held
    /\ Go(r, [NewReader EXCEPT !.at = "done"])

Next ==
    \/ \E k \in Queues : EnterQueue(k)
    \/ StartAddPrepared \/ AddPrepared \/ AddChecks \/ InsertInto
    \/ ExitMain \/ ExitSecond
    \/ \E a \in Actors : RemovePrepared(a)
    \/ StartCommit \/ AddCommitted \/ DeclareFutureMax \/ CheckPreparedAgainstMax
    \/ GetSnapshotListFromDB \/ UpdateSnapshots \/ KeepForSnapshots
    \/ AdvanceMaxEvictedSeq \/ KeepDelayedCommit \/ CheckAgainstSnapshots
    \/ ExchangeCommitEntry \/ SetLastPublishedSequence \/ CallbackRemoves
    \/ \E r \in Readers :
        \/ SmallestUnCommittedSeq(r) \/ TakeSnapshot(r) \/ GetSnapshotInternal(r)
        \/ StartIsInSnapshot(r) \/ IsInSnapshot(r) \/ IsInOldSnapshot(r)
        \/ ValidateSnapshot(r) \/ ReleaseSnapshot(r)

Spec == Init /\ [][Next]_vars

-----------------------------------------------------------------------------
(* The data of prep were committed at or before the snapshot.              *)
Visible(me) == me.prep \in DOMAIN commit_of /\ commit_of[me.prep] <= me.snap

(* IsInSnapshot says exactly which prepared data belong to a snapshot:     *)
(* whatever commits, evictions, moves to delayed_prepared_ and removals    *)
(* happen between its look-ups, its answer for a live snapshot is that     *)
(* prep was committed at or before it, and it never calls a live snapshot  *)
(* released.  A Get without a snapshot that passes ValidateSnapshot saw    *)
(* the same.                                                               *)
ReadsAreExact ==
    \A r \in Readers :
        LET me == reader[r]
        IN  /\ me.at = "answer" /\ me.held => ~me.released /\ me.ret = Visible(me)
            /\ me.at = "valid" => me.ret = Visible(me)

(* What the code asserts: min_uncommitted is at most one above the         *)
(* snapshot (EnhanceSnapshot), the heap is pushed in increasing order, an  *)
(* entry does not evict itself (AddCommitted), and a list of snapshots     *)
(* never has a new one below an older list's (CleanupReleasedSnapshots).   *)
AssertionsHold ==
    /\ \A r \in Readers : reader[r].at \in {"ready", "lb"} =>
          reader[r].min <= reader[r].snap + 1
    /\ queue["main"].at = "callbacks" /\ queue["main"].done < Len(queue["main"].writes)
          => \A p \in prepared_txns : p < Current("main").seq
    /\ commit.todo # << >> => commit.evicted.prep # Head(commit.todo)
    /\ commit.at = "update" =>
          \A s \in commit.snapshots \ snapshots_all, t \in snapshots_all : t < s
=============================================================================
